------------------------------ MODULE ScanSlots ------------------------------
(***************************************************************************)
(* The device list's and the backup list's background scans: one TaskSlot  *)
(* each (src/src/tui/task_gate.rs), which keeps one worker and the latest  *)
(* request that waits for it, and the CatalogSnapshot a request is given   *)
(* (application/catalog_snapshot.rs), shared by both lists when they are   *)
(* refreshed together and cancelled when no list displays it any more.     *)
(*                                                                         *)
(* The n-th request creates snapshot n.  Something in the world may have   *)
(* changed just before it, so `requests` also dates what a scan has read.  *)
(***************************************************************************)
EXTENDS Integers, Sequences, FiniteSets

CONSTANT MaxRequests   \* how many requests are made

ASSUME RequestsAssumption == MaxRequests \in Nat

Kinds == {"device", "backup"}
OtherList(k) == IF k = "device" THEN "backup" ELSE "device"

VARIABLES
  requests,    \* requests made so far
  generation,  \* TaskSlot.generation
  running,     \* TaskSlot.running_generation, 0 when the slot is free
  pending,     \* TaskSlot.pending_latest, NoRequest when nothing waits
  display,     \* device_display_scan and backup_display_scan, 0 for none
  cancelled,   \* the snapshots whose ReadControl was cancelled
  catalog,     \* each snapshot's OnceLock
  workers,     \* the scanning threads
  results,     \* the queue of their results
  waiting,     \* scan_pending of the two lists
  applied,    \* how fresh the last answer applied to each list was
  asked        \* the last request of each list

scanVars == <<requests, generation, running, pending, display, cancelled,
          catalog, workers, results, waiting, applied, asked>>

slots == <<generation, running, pending>>
lists == <<waiting, applied, asked>>

NoRequest == [generation |-> 0, snapshot |-> 0]

ScanWorker(k, g, n, at, date) ==
  [kind |-> k, generation |-> g, snapshot |-> n, at |-> at, date |-> date]

Catalog(state, date) == [state |-> state, date |-> date]
-----------------------------------------------------------------------------
ScanInit ==
  /\ requests = 0
  /\ generation = [k \in Kinds |-> 0]
  /\ running = [k \in Kinds |-> 0]
  /\ pending = [k \in Kinds |-> NoRequest]
  /\ display = [k \in Kinds |-> 0]
  /\ cancelled = {}
  /\ catalog = [n \in 1..MaxRequests |-> Catalog("empty", 0)]
  /\ workers = {}
  /\ results = << >>
  /\ waiting = [k \in Kinds |-> FALSE]
  /\ applied = [k \in Kinds |-> 0]
  /\ asked = [k \in Kinds |-> 0]

(***************************************************************************)
(* request_latest for every list in K, with snapshot n: a free slot starts *)
(* a worker, a busy one keeps the request instead of the one it kept.      *)
(***************************************************************************)
Enqueue(K, n) ==
  LET free == {k \in K : running[k] = 0}
  IN  /\ generation' = [k \in Kinds |->
                          generation[k] + (IF k \in K THEN 1 ELSE 0)]
      /\ running' = [k \in Kinds |->
                       IF k \in free THEN generation'[k] ELSE running[k]]
      /\ pending' = [k \in Kinds |->
                       IF k \in K \ free
                       THEN [generation |-> generation'[k], snapshot |-> n]
                       ELSE pending[k]]
      /\ workers' = workers \union
                      {ScanWorker(k, generation'[k], n, "Start", n) : k \in free}

RefreshLists(K) ==
  /\ requests < MaxRequests
  /\ requests' = requests + 1
  /\ display' = [k \in Kinds |-> IF k \in K THEN requests' ELSE display[k]]
  /\ Enqueue(K, requests')
  /\ waiting' = [k \in Kinds |-> k \in K \/ waiting[k]]
  /\ asked' = [k \in Kinds |-> IF k \in K THEN requests' ELSE asked[k]]
  /\ UNCHANGED <<catalog, results, applied>>

\* The interface starts with a refresh of both lists; so does it after a
\* provisioning.
RequestWorkspaceScan ==
  /\ cancelled' = cancelled \union ({display[k] : k \in Kinds} \ {0})
  /\ RefreshLists(Kinds)

\* A refresh of one list cancels the scan it displayed, unless the other
\* list displays the same one.
RequestScan(k) ==
  /\ requests > 0
  /\ cancelled' = cancelled \union ({display[k]} \ {0, display[OtherList(k)]})
  /\ RefreshLists({k})
-----------------------------------------------------------------------------
(***************************************************************************)
(* A worker.                                                               *)
(***************************************************************************)
Becomes(w, at, date) ==
  workers' = (workers \ {w}) \union {[w EXCEPT !.at = at, !.date = date]}

Oldest(w, date) == IF date < w.date THEN date ELSE w.date

\* OnceLock::get_or_init: the first consumer of a snapshot loads it, another
\* one waits for it and takes what was loaded.
BeginLoad(w) ==
  /\ w.at = "Start"
  /\ catalog[w.snapshot].state = "empty"
  /\ catalog' = [catalog EXCEPT ![w.snapshot] = Catalog("loading", requests)]
  /\ Becomes(w, "Loading", w.date)
  /\ UNCHANGED <<requests, slots, display, cancelled, results, lists>>

\* A cancelled load ends in an error; a deadline or the directory's own
\* errors may end any other.
EndLoad(w) ==
  /\ w.at = "Loading"
  /\ \E state \in {"complete", "error"} :
        /\ state = "complete" => w.snapshot \notin cancelled
        /\ catalog' = [catalog EXCEPT ![w.snapshot].state = state]
  /\ Becomes(w, "Start", w.date)
  /\ UNCHANGED <<requests, slots, display, cancelled, results, lists>>

Answer(w, what, date) ==
  /\ results' = Append(results, [kind |-> w.kind, generation |-> w.generation,
                                 what |-> what, date |-> date])
  /\ workers' = workers \ {w}

\* The backup list is the catalog or its error; the device list has rows
\* whatever the catalog is, and does not ask for it when no disk needs it.
ReportScan(w) ==
  /\ w.at = "Start"
  /\ \/ /\ catalog[w.snapshot].state \in {"complete", "error"}
        /\ Answer(w, IF /\ w.kind = "backup"
                        /\ catalog[w.snapshot].state = "error"
                     THEN "error" ELSE "rows",
                  Oldest(w, catalog[w.snapshot].date))
     \/ w.kind = "device" /\ Answer(w, "rows", w.date)
  /\ UNCHANGED <<requests, slots, display, cancelled, catalog, lists>>

\* catch_unwind turns a panic into an error; one in the middle of a load
\* leaves the snapshot for the next consumer to load.
Panic(w) ==
  /\ Answer(w, "error", w.date)
  /\ catalog' = IF w.at = "Loading"
                THEN [catalog EXCEPT ![w.snapshot] = Catalog("empty", 0)]
                ELSE catalog
  /\ UNCHANGED <<requests, slots, display, cancelled, lists>>

Scan == \E w \in workers : BeginLoad(w) \/ EndLoad(w) \/ ReportScan(w) \/ Panic(w)
-----------------------------------------------------------------------------
(***************************************************************************)
(* poll and apply_task_updates on one result: finish_latest.               *)
(***************************************************************************)
\* Wrong variant, to test EveryRequestAnswered: the kept request is taken
\* from the slot and not started.
RestartForgets(k, next) ==
  /\ next # NoRequest
  /\ running' = [running EXCEPT ![k] = 0]
  /\ pending' = [pending EXCEPT ![k] = NoRequest]
  /\ UNCHANGED <<generation, workers, lists>>

Restart(k, next) ==
  /\ next # NoRequest
  /\ running' = [running EXCEPT ![k] = next.generation]
  /\ pending' = [pending EXCEPT ![k] = NoRequest]
  /\ workers' = workers \union
                  {ScanWorker(k, next.generation, next.snapshot, "Start", requests)}
  /\ UNCHANGED <<generation, lists>>

\* Wrong variant, to test AnswersAreFresh: the result of an overtaken scan is
\* delivered.
DeliverAnyway(m) ==
  /\ running' = [running EXCEPT ![m.kind] = 0]
  /\ waiting' = [waiting EXCEPT ![m.kind] = FALSE]
  /\ applied' = [applied EXCEPT ![m.kind] = m.date]
  /\ UNCHANGED <<generation, pending, workers, asked>>

Deliver(m) ==
  /\ pending[m.kind] = NoRequest
  /\ running' = [running EXCEPT ![m.kind] = 0]
  /\ IF generation[m.kind] = m.generation
     THEN /\ waiting' = [waiting EXCEPT ![m.kind] = FALSE]
          /\ applied' = [applied EXCEPT ![m.kind] = m.date]
     ELSE UNCHANGED <<waiting, applied>>
  /\ UNCHANGED <<generation, pending, workers, asked>>

Poll ==
  /\ results # << >>
  /\ results' = Tail(results)
  /\ LET m == Head(results)
     IN  IF running[m.kind] # m.generation
         THEN UNCHANGED <<slots, workers, lists>>
         ELSE Restart(m.kind, pending[m.kind]) \/ Deliver(m)
  /\ UNCHANGED <<requests, display, cancelled, catalog>>

RequestScans == RequestWorkspaceScan \/ \E k \in Kinds : RequestScan(k)

ScanNext == RequestScans \/ Scan \/ Poll

\* Reads have a deadline and the loop polls; nobody has to ask for a scan.
ScanSpec == ScanInit /\ [][ScanNext]_scanVars /\ WF_scanVars(Scan) /\ WF_scanVars(Poll)
-----------------------------------------------------------------------------
Dates == 0..MaxRequests

TypeOK ==
  /\ requests \in Dates
  /\ generation \in [Kinds -> Nat]
  /\ running \in [Kinds -> Nat]
  /\ pending \in [Kinds -> [generation : Nat, snapshot : Dates]]
  /\ display \in [Kinds -> Dates]
  /\ cancelled \subseteq 1..MaxRequests
  /\ catalog \in [1..MaxRequests ->
                    [state : {"empty", "loading", "complete", "error"},
                     date : Dates]]
  /\ workers \subseteq [kind : Kinds, generation : Nat \ {0},
                         snapshot : 1..MaxRequests, at : {"Start", "Loading"},
                         date : Dates]
  /\ results \in Seq([kind : Kinds, generation : Nat \ {0},
                       what : {"rows", "error"}, date : Dates])
  /\ waiting \in [Kinds -> BOOLEAN]
  /\ applied \in [Kinds -> Dates]
  /\ asked \in [Kinds -> Dates]

(***************************************************************************)
(* A list that no longer says it is scanning was applied by a scan that   *)
(* read nothing older than the last request: a scan overtaken by a         *)
(* restore, a deletion or a newer request is never shown as the result.    *)
(* And though the lists may share one snapshot, refreshing one never       *)
(* cancels the snapshot the other still displays.                          *)
(***************************************************************************)
AnswersAreFresh ==
  /\ \A k \in Kinds : ~waiting[k] => applied[k] >= asked[k]
  /\ \A k \in Kinds : display[k] \notin cancelled

(***************************************************************************)
(* No request is lost, queued or not: a list that says it is scanning is   *)
(* applied.                                                               *)
(***************************************************************************)
EveryRequestAnswered == \A k \in Kinds : waiting[k] ~> ~waiting[k]
=============================================================================
