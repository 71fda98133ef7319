---------------------------- MODULE DeviceRecord ----------------------------
(***************************************************************************)
(* One tracked device: the handlers of DeviceSecurityService               *)
(* (device_security.go), statement by statement, on its row, its settings  *)
(* document, its SIMs and its locations (repository/device_security.go),   *)
(* and the Redis entry in front of the row.                                *)
(*                                                                         *)
(* A handler works off the statements of its operation; nothing but the    *)
(* row lock of InsertLocation's transaction keeps two handlers apart.      *)
(* The remote commands themselves are in RemoteCommands.                   *)
(***************************************************************************)
EXTENDS Integers, Sequences

CONSTANTS
  Handler,      \* requests in progress at a time
  Account,      \* OrbNet accounts
  SIM,          \* ICCIDs
  Keep,         \* maxLocationHistory
  Scene,        \* sets of operations that meet in one behaviour
  MaxRequests, MaxFaults,
  Nobody, NoSIM

VARIABLES
  scene,      \* the operations of this behaviour; never changes
  device,     \* the row of device_security_devices
  cache,      \* the Redis entry
  stale,      \* the entry was filled with, or left, what is no longer so
              \* (history)
  settings,   \* the document of device_security_settings
  trusted,    \* SIMs whose trust has been confirmed (history)
  clobbered,  \* a document was written that another write had outdated
              \* (history)
  present,    \* SIMs with is_present
  inserted, removed,  \* events of device_sim_events, by SIM
  crossed,    \* two reports of SIMs have overlapped (history)
  locations,  \* committed rows of device_locations
  lock,       \* the handler whose transaction holds the row
  req,        \* req[h]: the request h is working on
  requests, faults

rowVars == <<device, cache, stale>>
docVars == <<settings, trusted, clobbered>>
simVars == <<present, inserted, removed, crossed>>
placeVars == <<locations, lock>>
bounds == <<requests, faults>>
vars == <<scene, rowVars, docVars, simVars, placeVars, req, bounds>>

\* "locked" stands for "wiped" too, which the other command writes.
Status == {"active", "lost", "stolen", "locked"}

\* No row, and no entry, is the status "none".
NoRow == [status |-> "none", owner |-> Nobody]
Row == {NoRow} \cup [status : Status, owner : Account \cup {Nobody}]

Document == [stored : BOOLEAN, lock : BOOLEAN, trust : SUBSET SIM]
NoDocument == [stored |-> FALSE, lock |-> FALSE, trust |-> {}]
DefaultDocument == [stored |-> TRUE, lock |-> TRUE, trust |-> {}]

(***************************************************************************)
(* The statements of every operation, in order.                            *)
(***************************************************************************)
Script ==
  [register |-> <<"upsert", "defaults", "invalidate">>,
   update   |-> <<"device", "upsert", "invalidate">>,
   mark     |-> <<"status", "invalidate">>,
   command  |-> <<"device", "settings", "status", "invalidate">>,
   get      |-> <<"cached", "device", "fill">>,
   claim    |-> <<"claim", "invalidate">>,
   locate   |-> <<"device", "insert", "touch", "trim", "commit", "invalidate">>,
   report   |-> <<"sims", "device", "settings", "upsertSIM", "markAbsent">>,
   trust    |-> <<"settings", "write">>,
   choose   |-> <<"settings", "write">>]

Operation == DOMAIN Script

ASSUME DeviceAssumption ==
  /\ Keep \in Nat \ {0} /\ MaxRequests \in Nat /\ MaxFaults \in Nat
  /\ Scene \subseteq SUBSET Operation
  /\ Nobody \notin Account \cup Handler /\ NoSIM \notin SIM

Statement == {"upsert", "defaults", "invalidate", "device", "status", "settings",
              "cached", "fill", "claim", "insert", "touch", "trim", "commit",
              "sims", "upsertSIM", "markAbsent", "simEvent", "removal", "write"}

\* An operation with its arguments, and what it has read so far.
Request ==
  [op : Operation \cup {"none"}, rest : Seq(Statement),
   status : Status, account : Account \cup {Nobody}, sim : SIM \cup {NoSIM},
   sims : SUBSET SIM, todo : SUBSET SIM, on : BOOLEAN, row : Row,
   doc : Document, old : SUBSET SIM, excess : Nat]

Idle ==
  [op |-> "none", rest |-> <<>>, status |-> "active", account |-> Nobody,
   sim |-> NoSIM, sims |-> {}, todo |-> {}, on |-> FALSE, row |-> NoRow,
   doc |-> NoDocument, old |-> {}, excess |-> 0]

TypeOK ==
  /\ scene \in Scene
  /\ device \in Row /\ cache \in Row /\ stale \in BOOLEAN
  /\ settings \in Document /\ trusted \subseteq SIM /\ clobbered \in BOOLEAN
  /\ present \subseteq SIM
  /\ inserted \in [SIM -> Nat] /\ removed \in [SIM -> Nat]
  /\ crossed \in BOOLEAN
  /\ locations \in Nat /\ lock \in Handler \cup {Nobody}
  /\ req \in [Handler -> Request]
  /\ requests \in 0..MaxRequests /\ faults \in 0..MaxFaults

Init ==
  /\ scene \in Scene
  /\ \/ device = NoRow /\ settings = NoDocument
     \/ device = [NoRow EXCEPT !.status = "active"] /\ settings = DefaultDocument
  /\ cache = NoRow /\ stale = FALSE
  /\ trusted = {} /\ clobbered = FALSE
  /\ present = {} /\ crossed = FALSE
  /\ inserted = [s \in SIM |-> 0] /\ removed = [s \in SIM |-> 0]
  /\ locations = 0 /\ lock = Nobody
  /\ req = [h \in Handler |-> Idle]
  /\ requests = 0 /\ faults = 0

(***************************************************************************)
(* Requests.                                                               *)
(***************************************************************************)
New(op) == [Idle EXCEPT !.op = op, !.rest = Script[op]]

Variants(op) ==
  CASE op = "mark"    -> {[New(op) EXCEPT !.status = s] : s \in {"active", "lost", "stolen"}}
    [] op = "command" -> {[New(op) EXCEPT !.status = "locked"]}
    [] op = "claim"   -> {[New(op) EXCEPT !.account = a] : a \in Account}
    [] op = "report"  -> {[New(op) EXCEPT !.sims = S, !.todo = S] : S \in SUBSET SIM}
    [] op = "trust"   -> {[New(op) EXCEPT !.sim = s] : s \in SIM}
    [] op = "choose"  -> {[New(op) EXCEPT !.on = b] : b \in BOOLEAN}
    [] OTHER          -> {New(op)}

Reporting(h) == req[h].op = "report"

Receive(h) ==
  /\ req[h] = Idle
  /\ requests < MaxRequests /\ requests' = requests + 1
  /\ \E op \in scene : \E r \in Variants(op) :
       /\ req' = [req EXCEPT ![h] = r]
       /\ crossed' = (crossed \/ (op = "report" /\ \E g \in Handler : Reporting(g)))
  /\ UNCHANGED <<scene, rowVars, docVars, present, inserted, removed,
                 placeVars, faults>>

At(h, statement) == req[h].rest # <<>> /\ Head(req[h].rest) = statement

\* The statement is done, and r is what the handler knows now.
Proceed(h, r) ==
  req' = [req EXCEPT ![h] =
            IF Len(r.rest) = 1 THEN Idle ELSE [r EXCEPT !.rest = Tail(@)]]

Return(h) == req' = [req EXCEPT ![h] = Idle]

\* One more statement, after which the handler goes on where it was.
Insert(h, r, statement) ==
  req' = [req EXCEPT ![h] = [r EXCEPT !.rest = <<statement>> \o @]]

(***************************************************************************)
(* Plausible slips, each an alternative form of the definition its comment *)
(* names.                                                                  *)
(***************************************************************************)

\* StatusWritten by an update as by a registration.
AlwaysActive(r) == "active"

\* InvalidateDeviceCache that the marks have been left without.
InvalidateButAfterMarks(h) ==
  /\ At(h, "invalidate")
  /\ IF req[h].op = "mark" THEN UNCHANGED <<cache, stale>>
     ELSE cache' = NoRow /\ stale' = FALSE
  /\ Proceed(h, req[h])
  /\ UNCHANGED <<scene, device, docVars, simVars, placeVars, bounds>>

\* NewDocument that starts from the request instead of the stored one.
DocumentFromRequest(r) ==
  IF r.op = "trust" THEN [DefaultDocument EXCEPT !.trust = {r.sim}]
  ELSE [stored |-> TRUE, lock |-> r.on, trust |-> {}]

\* TakeRow that leaves the row to others until the commit.
TakeNothing(h) == lock = Nobody /\ UNCHANGED lock

\* IsNew that asks whether the SIM has ever been seen.
NeverSeen(r, s) == s \notin r.old /\ inserted[s] = 0

(***************************************************************************)
(* The device row and its cache.                                           *)
(***************************************************************************)
\* A report of SIMs may come from a device that is not registered.
RowFound(h) == device # NoRow \/ Reporting(h)

GetDevice(h) ==
  /\ At(h, "device")
  /\ IF ~RowFound(h) THEN Return(h)
     ELSE Proceed(h, [req[h] EXCEPT !.row = device])
  /\ UNCHANGED <<scene, rowVars, docVars, simVars, placeVars, bounds>>

\* orbnet_user_id is not among the columns an upsert writes.
UpsertDevice(r, status) == device' = [device EXCEPT !.status = status]

\* An update writes back the status it has read.
StatusWritten(r) == IF r.op = "register" THEN "active" ELSE r.row.status

Upsert(h) ==
  /\ At(h, "upsert") /\ lock = Nobody
  /\ UpsertDevice(req[h], StatusWritten(req[h]))
  /\ Proceed(h, req[h])
  /\ UNCHANGED <<scene, cache, stale, docVars, simVars, placeVars, bounds>>

UpdateDeviceStatus(h) ==
  /\ At(h, "status") /\ lock = Nobody
  /\ IF device = NoRow
     THEN Return(h) /\ UNCHANGED device
     ELSE /\ device' = [device EXCEPT !.status = req[h].status]
          /\ Proceed(h, req[h])
  /\ UNCHANGED <<scene, cache, stale, docVars, simVars, placeVars, bounds>>

ClaimDevice(h) ==
  /\ At(h, "claim") /\ lock = Nobody
  /\ IF device # NoRow /\ device.owner \in {Nobody, req[h].account}
     THEN /\ device' = [device EXCEPT !.owner = req[h].account]
          /\ Proceed(h, req[h])
     ELSE Return(h) /\ UNCHANGED device
  /\ UNCHANGED <<scene, cache, stale, docVars, simVars, placeVars, bounds>>

GetCached(h) ==
  /\ At(h, "cached")
  /\ IF cache # NoRow THEN Return(h) ELSE Proceed(h, req[h])
  /\ UNCHANGED <<scene, rowVars, docVars, simVars, placeVars, bounds>>

Fill(h) ==
  /\ At(h, "fill")
  /\ cache' = req[h].row
  /\ stale' = (req[h].row # device)
  /\ Proceed(h, req[h])
  /\ UNCHANGED <<scene, device, docVars, simVars, placeVars, bounds>>

InvalidateDeviceCache(h) ==
  /\ At(h, "invalidate")
  /\ cache' = NoRow /\ stale' = FALSE
  /\ Proceed(h, req[h])
  /\ UNCHANGED <<scene, device, docVars, simVars, placeVars, bounds>>

\* deviceCacheTTL.
Expire ==
  /\ cache # NoRow
  /\ cache' = NoRow /\ stale' = FALSE
  /\ UNCHANGED <<scene, device, docVars, simVars, placeVars, req, bounds>>

(***************************************************************************)
(* The settings document.                                                  *)
(***************************************************************************)
InsertDefaultSettings(h) ==
  /\ At(h, "defaults")
  /\ settings' = IF settings.stored THEN settings ELSE DefaultDocument
  /\ Proceed(h, req[h])
  /\ UNCHANGED <<scene, rowVars, trusted, clobbered, simVars, placeVars, bounds>>

\* A lock is refused when it is disabled, and a SIM that is trusted already
\* needs no write.
GetSettings(h) ==
  /\ At(h, "settings")
  /\ LET r == req[h]
         refused == r.op = "command" /\ settings.stored /\ ~settings.lock
         known == r.op = "trust" /\ r.sim \in settings.trust IN
     /\ IF refused \/ known THEN Return(h)
        ELSE Proceed(h, [r EXCEPT !.doc = settings])
     /\ trusted' = IF known THEN trusted \cup {r.sim} ELSE trusted
  /\ UNCHANGED <<scene, rowVars, settings, clobbered, simVars, placeVars, bounds>>

NewDocument(r) ==
  IF r.op = "trust"
  THEN [(IF r.doc.stored THEN r.doc ELSE DefaultDocument)
          EXCEPT !.trust = @ \cup {r.sim}]
  ELSE [r.doc EXCEPT !.stored = TRUE, !.lock = r.on]

UpsertSettings(h) ==
  /\ At(h, "write")
  /\ settings' = NewDocument(req[h])
  /\ trusted' = IF req[h].op = "trust" THEN trusted \cup {req[h].sim} ELSE trusted
  /\ clobbered' = (clobbered \/ req[h].doc # settings)
  /\ Proceed(h, req[h])
  /\ UNCHANGED <<scene, rowVars, simVars, placeVars, bounds>>

(***************************************************************************)
(* SIM reports.  Every reported SIM is active.                             *)
(***************************************************************************)
GetSIMs(h) ==
  /\ At(h, "sims")
  /\ Proceed(h, [req[h] EXCEPT !.old = present])
  /\ UNCHANGED <<scene, rowVars, docVars, simVars, placeVars, bounds>>

IsNew(r, s) == s \notin r.old

UpsertSIM(h) ==
  /\ At(h, "upsertSIM")
  /\ LET r == req[h] IN
     \/ \E s \in r.todo :
          LET q == [r EXCEPT !.todo = @ \ {s}, !.sim = s] IN
          /\ present' = present \cup {s}
          /\ IF IsNew(r, s) THEN Insert(h, q, "simEvent")
             ELSE req' = [req EXCEPT ![h] = q]
     \/ r.todo = {} /\ Proceed(h, r) /\ UNCHANGED present
  /\ UNCHANGED <<scene, rowVars, docVars, inserted, removed, crossed,
                 placeVars, bounds>>

\* What the event says of the risk, and whom it alarms, is left out.
InsertSIMEvent(h) ==
  /\ At(h, "simEvent")
  /\ inserted' = [inserted EXCEPT ![req[h].sim] = @ + 1]
  /\ Proceed(h, req[h])
  /\ UNCHANGED <<scene, rowVars, docVars, present, removed, crossed, placeVars, bounds>>

MarkSIMAbsent(h) ==
  /\ At(h, "markAbsent")
  /\ LET r == req[h] IN
     \/ \E s \in r.old \ r.sims :
          /\ present' = present \ {s}
          /\ Insert(h, [r EXCEPT !.old = @ \ {s}, !.sim = s], "removal")
     \/ r.old \subseteq r.sims /\ Proceed(h, r) /\ UNCHANGED present
  /\ UNCHANGED <<scene, rowVars, docVars, inserted, removed, crossed,
                 placeVars, bounds>>

InsertRemoval(h) ==
  /\ At(h, "removal")
  /\ removed' = [removed EXCEPT ![req[h].sim] = @ + 1]
  /\ Proceed(h, req[h])
  /\ UNCHANGED <<scene, rowVars, docVars, present, inserted, crossed,
                 placeVars, bounds>>

(***************************************************************************)
(* InsertLocation: one transaction, in which the update of the device row  *)
(* waits for the transactions that have updated it before.                 *)
(***************************************************************************)
InsertLocation(h) ==
  /\ At(h, "insert")
  /\ Proceed(h, req[h])
  /\ UNCHANGED <<scene, rowVars, docVars, simVars, placeVars, bounds>>

TakeRow(h) == lock = Nobody /\ lock' = h

TouchDevice(h) ==
  /\ At(h, "touch")
  /\ TakeRow(h)
  /\ Proceed(h, req[h])
  /\ UNCHANGED <<scene, rowVars, docVars, simVars, locations, bounds>>

\* What the history holds beyond Keep, the uncommitted row included.
Excess == IF locations + 1 > Keep THEN locations + 1 - Keep ELSE 0

TrimHistory(h) ==
  /\ At(h, "trim")
  /\ Proceed(h, [req[h] EXCEPT !.excess = Excess])
  /\ UNCHANGED <<scene, rowVars, docVars, simVars, placeVars, bounds>>

Commit(h) ==
  /\ At(h, "commit")
  /\ locations' = locations + 1 - req[h].excess
  /\ lock' = Nobody
  /\ Proceed(h, req[h])
  /\ UNCHANGED <<scene, rowVars, docVars, simVars, bounds>>

(***************************************************************************)
(* Faults.                                                                 *)
(***************************************************************************)

\* The handler ends between two statements: an error, a client that has
\* gone, a crash.  A transaction is rolled back.
Abort(h) ==
  /\ req[h] # Idle
  /\ faults < MaxFaults /\ faults' = faults + 1
  /\ Return(h)
  /\ lock' = IF lock = h THEN Nobody ELSE lock
  /\ stale' = (stale \/ cache \notin {NoRow, device})
  /\ UNCHANGED <<scene, device, cache, docVars, simVars, locations, requests>>

\* Failures that are logged and passed over.
Overlook(h) ==
  /\ \/ At(h, "invalidate") \/ At(h, "fill")
     \/ At(h, "status") /\ req[h].op = "command"
  /\ faults < MaxFaults /\ faults' = faults + 1
  /\ Proceed(h, req[h])
  /\ stale' = (stale \/ cache \notin {NoRow, device})
  /\ UNCHANGED <<scene, device, cache, docVars, simVars, placeVars, requests>>

Step(h) ==
  \/ Receive(h) \/ Abort(h) \/ Overlook(h)
  \/ GetDevice(h) \/ Upsert(h) \/ UpdateDeviceStatus(h) \/ ClaimDevice(h)
  \/ GetCached(h) \/ Fill(h) \/ InvalidateDeviceCache(h)
  \/ InsertDefaultSettings(h) \/ GetSettings(h) \/ UpsertSettings(h)
  \/ GetSIMs(h) \/ UpsertSIM(h) \/ InsertSIMEvent(h)
  \/ MarkSIMAbsent(h) \/ InsertRemoval(h)
  \/ InsertLocation(h) \/ TouchDevice(h) \/ TrimHistory(h) \/ Commit(h)

Next == Expire \/ \E h \in Handler : Step(h)

Spec == Init /\ [][Next]_vars

-----------------------------------------------------------------------------
OwnerStands == device.owner # Nobody => device'.owner = device.owner

Moves(h) == req'[h] # req[h]

MarkStands ==
  device.status \in {"lost", "stolen"} /\ device'.status # device.status
    => \E h \in Handler :
         /\ Moves(h)
         /\ \/ At(h, "status")
            \/ At(h, "upsert") /\ (\/ req[h].op = "register"
                                  \/ req[h].row.status # device.status)

(***************************************************************************)
(* A claimed device stays with its account, whatever registrations and     *)
(* updates write the row back that they read before the claim.  A device   *)
(* marked as lost or stolen stays so until somebody says otherwise: a mark *)
(* or a command, a registration, or an update that read the row before the *)
(* mark.  An update alone does not lift it.                                *)
(***************************************************************************)
RowStands == [][OwnerStands /\ MarkStands]_vars

(***************************************************************************)
(* The cached device differs from its row only until the writer gets to    *)
(* the invalidation, or when the cache was filled late or not invalidated  *)
(* for a fault: no operation forgets it.                                   *)
(***************************************************************************)
StaleCacheIsExplained ==
  cache \notin {NoRow, device} /\ ~stale =>
    \E h \in Handler : At(h, "defaults") \/ At(h, "invalidate")

(***************************************************************************)
(* A SIM whose trust was confirmed is in the document, unless two writers  *)
(* of the document have overlapped.                                        *)
(***************************************************************************)
TrustIsKept == ~clobbered => trusted \subseteq settings.trust

(***************************************************************************)
(* Every change of the SIMs in the device is announced once: without       *)
(* faults and overlapping reports, a SIM is present exactly when one more  *)
(* insertion than removals of it has been recorded.                        *)
(***************************************************************************)
SIMEventsBalance ==
  faults = 0 /\ ~crossed /\ (\A h \in Handler : ~Reporting(h)) =>
    \A s \in SIM : inserted[s] - removed[s] = IF s \in present THEN 1 ELSE 0

(***************************************************************************)
(* The history never exceeds its bound, though transactions that insert    *)
(* side by side do not see each other's rows: they queue for the row of    *)
(* the device before they count.                                           *)
(***************************************************************************)
HistoryIsBounded == locations <= Keep
=============================================================================
