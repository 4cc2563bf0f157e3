------------------------------ MODULE Machines ------------------------------
(***************************************************************************)
(* The machine inventory (internal/inventory/store.go) and the handlers on *)
(* it (internal/api/machines.go).  The store has no lock: an operation     *)
(* reads a machine's file, changes the copy and writes the file back, and  *)
(* other requests and fetch goroutines may do the same in between.         *)
(*                                                                         *)
(* A worker is one HTTP request, or the goroutine a fetch request leaves   *)
(* behind; its copy of a file is work[w].copy.                             *)
(***************************************************************************)
EXTENDS Naturals, FiniteSets

CONSTANTS
    Ids,         \* machine ids that can be handed out
    Bmcs,        \* the physical machines, named by their BMC
    None,        \* a fact that is not known
    Slots,       \* nodes of clusters: <<cluster, hostname>>
    Workers,
    MaxCalls,    \* bound: HTTP calls
    MaxFaults    \* bound: failed reads and writes, restarts of the driver

ASSUME MachinesConstants ==
    /\ None \notin Bmcs
    /\ MaxCalls \in Nat
    /\ MaxFaults \in Nat

VARIABLES
    file,      \* the store's directory
    used,      \* ids handed out (they are random and never come back)
    inflight,  \* the handlers' set of running fetches
    work,      \* what each worker is doing
    calls, fault,
    stale,     \* history: a copy was written over a file changed since it was read
    clash,     \* history: two assignments to one slot overlapped
    skipped    \* history: the slots an assignment has left with another machine

vars == <<file, used, inflight, work, calls, fault, stale, clash, skipped>>

Facts == Bmcs \cup {None}
Inventories == [serial : Facts, nics : Facts]
FetchStates == {"idle", "fetching", "ok", "error"}
Records == [bmc : Bmcs, fetch : FetchStates, assignments : SUBSET Slots,
            serial : Facts, nics : Facts]
NoFile == [bmc |-> None]
NoFacts == [serial |-> None, nics |-> None]
Files == Records \cup {NoFile}

Changes == {"update", "fetching", "failed", "inventory", "unassign"}
Idle == [pc |-> "idle", op |-> "none", id |-> None, gets |-> {}, bmc |-> None,
         inv |-> NoFacts, copy |-> NoFile, other |-> None, read |-> NoFile, todo |-> {}]

WorkRecords ==
    [pc : {"idle", "read", "write", "claim", "discover", "scan", "clear"},
     op : Changes \cup {"none", "delete", "assign", "cluster"},
     id : Ids \cup {None}, gets : SUBSET Slots, bmc : Facts, inv : Inventories,
     copy : Files, other : Ids \cup {None}, read : Files, todo : SUBSET Ids]

exists(id) == file[id] # NoFile
clusterOf(s) == s[1]

\* RedfishDiscoverer: a section the BMC does not serve is left out.
Redfish(b) == {[serial |-> b, nics |-> b], [serial |-> b, nics |-> None], NoFacts}

\* IPMIDiscoverer: the FRU has a serial at most.
IPMI(b) == {[serial |-> b, nics |-> None], NoFacts}

hasCoreFacts(inv) == inv # NoFacts

\* Combined.Discover: Redfish's answer if it is of use, otherwise that of IPMI.
found(b) == {inv \in Redfish(b) : hasCoreFacts(inv)} \cup IPMI(b)

NewRecord(b) == [bmc |-> b, fetch |-> "idle", assignments |-> {}, serial |-> None, nics |-> None]

\* Some machines have been imported before.
Init ==
    /\ used \in SUBSET Ids
    /\ file \in [Ids -> {NoFile} \cup {NewRecord(b) : b \in Bmcs}]
    /\ \A id \in Ids : exists(id) <=> id \in used
    /\ inflight = {}
    /\ work = [w \in Workers |-> Idle]
    /\ calls = 0
    /\ fault = 0
    /\ stale = FALSE
    /\ clash = FALSE
    /\ skipped = {}

Call(w) ==
    /\ work[w].pc = "idle"
    /\ calls < MaxCalls
    /\ calls' = calls + 1

Fault == fault < MaxFaults /\ fault' = fault + 1

Goto(w, at) == work' = [work EXCEPT ![w].pc = at]
Return(w) == work' = [work EXCEPT ![w] = Idle]

(***************************************************************************)
(* Requests                                                                *)
(***************************************************************************)

\* create: the BMC is verified first, which also discovers the hardware; the
\* new record is written, then its inventory set like any other.
Create(w, id, b, inv) ==
    /\ Call(w)
    /\ id \notin used
    /\ used' = used \cup {id}
    /\ file' = [file EXCEPT ![id] = NewRecord(b)]
    /\ work' = [work EXCEPT ![w] = [Idle EXCEPT !.pc = "read", !.op = "inventory",
                                                !.id = id, !.inv = inv]]
    /\ UNCHANGED <<inflight, fault, stale, clash, skipped>>

\* One row of an imported file: nothing is verified or discovered.
Import(w, id, b) ==
    /\ Call(w)
    /\ id \notin used
    /\ used' = used \cup {id}
    /\ file' = [file EXCEPT ![id] = NewRecord(b)]
    /\ UNCHANGED <<inflight, work, fault, stale, clash, skipped>>

Request(w, id, op) ==
    /\ Call(w)
    /\ work' = [work EXCEPT ![w] = [Idle EXCEPT !.pc = "read", !.op = op, !.id = id]]
    /\ UNCHANGED <<file, used, inflight, fault, stale, clash, skipped>>

Unassign(w, id) == Request(w, id, "unassign")
Delete(w, id) == Request(w, id, "delete")

\* update: the new BMC is verified before the record is touched.
Update(w, id, b, inv) ==
    /\ Call(w)
    /\ work' = [work EXCEPT ![w] = [Idle EXCEPT !.pc = "read", !.op = "update", !.id = id,
                                                !.bmc = b, !.inv = inv]]
    /\ UNCHANGED <<file, used, inflight, fault, stale, clash, skipped>>

\* inventoryReport: an inspected machine, found by its serial or its MACs.
InventoryReport(w, id, b) ==
    /\ Call(w)
    /\ exists(id)
    /\ b \in {file[id].serial, file[id].nics}
    /\ work' = [work EXCEPT ![w] = [Idle EXCEPT !.pc = "read", !.op = "inventory", !.id = id,
                                                !.inv = [serial |-> b, nics |-> b]]]
    /\ UNCHANGED <<file, used, inflight, fault, stale, clash, skipped>>

\* assign: the record is read before the other machines are looked at.
Assign(w, id, s) ==
    /\ Call(w)
    /\ exists(id)
    /\ work' = [work EXCEPT ![w] = [Idle EXCEPT !.pc = "scan", !.op = "assign", !.id = id,
                                                !.gets = {s}, !.copy = file[id],
                                                !.todo = {x \in Ids \ {id} : exists(x)}]]
    /\ clash' = (clash \/ \E v \in Workers : s \in work[v].gets /\ work[v].op = "assign")
    /\ UNCHANGED <<file, used, inflight, fault, stale, skipped>>

\* UnassignCluster, when a cluster is deleted.
UnassignCluster(w, k) ==
    /\ Call(w)
    /\ work' = [work EXCEPT ![w] = [Idle EXCEPT !.pc = "scan", !.op = "cluster",
                                                !.gets = {s \in Slots : clusterOf(s) = k},
                                                !.todo = {x \in Ids : exists(x)}]]
    /\ UNCHANGED <<file, used, inflight, fault, stale, clash, skipped>>

Credentials(id) == file[id].bmc

\* fetch: the credentials are read, then the machine is claimed.
Fetch(w, id) ==
    /\ Call(w)
    /\ exists(id)
    /\ work' = [work EXCEPT ![w] = [Idle EXCEPT !.pc = "claim", !.op = "fetching", !.id = id,
                                                !.bmc = Credentials(id)]]
    /\ UNCHANGED <<file, used, inflight, fault, stale, clash, skipped>>

\* Mutant: the machine is claimed without looking.
FetchClaims_Always(w) ==
    /\ work[w].pc = "claim"
    /\ inflight' = inflight \cup {work[w].id}
    /\ Goto(w, "read")
    /\ UNCHANGED <<file, used, calls, fault, stale, clash, skipped>>

FetchClaims(w) ==
    /\ work[w].pc = "claim"
    /\ inflight' = inflight \cup {work[w].id}
    /\ IF work[w].id \in inflight THEN Return(w) ELSE Goto(w, "read")
    /\ UNCHANGED <<file, used, calls, fault, stale, clash, skipped>>

\* Mutant: a BMC that does not answer leaves no trace.
Discover_Silent(w) ==
    /\ work[w].pc = "discover"
    /\ \/ Return(w) /\ inflight' = inflight \ {work[w].id}
       \/ \E inv \in found(work[w].bmc) :
            /\ work' = [work EXCEPT ![w].pc = "read", ![w].op = "inventory", ![w].inv = inv]
            /\ UNCHANGED inflight
    /\ UNCHANGED <<file, used, calls, fault, stale, clash, skipped>>

\* runFetch has heard from the BMC whose credentials were read at the start.
Discover(w) ==
    /\ work[w].pc = "discover"
    /\ \/ work' = [work EXCEPT ![w].pc = "read", ![w].op = "failed"]
       \/ \E inv \in found(work[w].bmc) :
            work' = [work EXCEPT ![w].pc = "read", ![w].op = "inventory", ![w].inv = inv]
    /\ UNCHANGED <<file, used, inflight, calls, fault, stale, clash, skipped>>

(***************************************************************************)
(* One file: read it, change the copy, write it back                       *)
(***************************************************************************)

\* The worker is a fetch that has claimed its machine.
Fetching(w) == work[w].bmc # None /\ work[w].op \in {"fetching", "failed", "inventory"}
                   /\ work[w].pc \in {"read", "write", "discover"}

\* A worker that has ended its operation lets the claim go.
Ends(w) ==
    /\ Return(w)
    /\ inflight' = IF Fetching(w) THEN inflight \ {work[w].id} ELSE inflight

Read(w) ==
    LET id == work[w].id IN
    /\ work[w].pc = "read"
    /\ IF exists(id)
       THEN work' = [work EXCEPT ![w].copy = file[id], ![w].pc = "write"] /\ UNCHANGED inflight
       ELSE Ends(w)
    /\ UNCHANGED <<file, used, calls, fault, stale, clash, skipped>>

\* Mutant: what the new result does not know is forgotten.
mergeInventory_Replace(next, prev) == next

\* A fact the new result leaves out keeps its value.
mergeInventory(next, prev) ==
    [serial |-> IF next.serial = None THEN prev.serial ELSE next.serial,
     nics |-> IF next.nics = None THEN prev.nics ELSE next.nics]

\* Mutant: the error text is stored as the state.
SetFetchState_Text(r, st) == [r EXCEPT !.fetch = IF st = "error" THEN "timeout" ELSE st]

Updated(r, b) == [r EXCEPT !.bmc = b]

SetFetchState(r, st) == [r EXCEPT !.fetch = st]

Unassigned(r) == [r EXCEPT !.assignments = {}]

SetInventory(r, inv) ==
    LET facts == mergeInventory(inv, [serial |-> r.serial, nics |-> r.nics]) IN
    [r EXCEPT !.fetch = "ok", !.serial = facts.serial, !.nics = facts.nics]

\* The change each operation makes to its copy.
changed(r, w) ==
    CASE work[w].op = "update" -> Updated(r, work[w].bmc)
      [] work[w].op = "fetching" -> SetFetchState(r, "fetching")
      [] work[w].op = "failed" -> SetFetchState(r, "error")
      [] work[w].op = "unassign" -> Unassigned(r)
      [] work[w].op = "inventory" -> SetInventory(r, work[w].inv)

\* writeRecord replaces the file; an update goes on to set the inventory, a
\* fetch to talk to the BMC.
Write(w) ==
    LET id == work[w].id IN
    /\ work[w].pc = "write"
    /\ work[w].op \in Changes
    /\ file' = [file EXCEPT ![id] = changed(work[w].copy, w)]
    /\ stale' = (stale \/ file[id] # work[w].copy)
    /\ CASE work[w].op = "update" ->
                /\ work' = [work EXCEPT ![w].pc = "read", ![w].op = "inventory", ![w].bmc = None]
                /\ UNCHANGED inflight
         [] work[w].op = "fetching" -> Goto(w, "discover") /\ UNCHANGED inflight
         [] OTHER -> Ends(w)
    /\ UNCHANGED <<used, calls, fault, clash, skipped>>

\* The file cannot be read or written: the operation ends there.
WriteFails(w) ==
    /\ work[w].pc \in {"read", "write"}
    /\ Fault
    /\ Ends(w)
    /\ UNCHANGED <<file, used, calls, stale, clash, skipped>>

Remove(w) ==
    /\ work[w].pc = "write"
    /\ work[w].op = "delete"
    /\ file' = [file EXCEPT ![work[w].id] = NoFile]
    /\ Return(w)
    /\ UNCHANGED <<used, inflight, calls, fault, stale, clash, skipped>>

(***************************************************************************)
(* The loop over the other machines (Assign, UnassignCluster)              *)
(***************************************************************************)

ScanReads(w, x) ==
    /\ work[w].pc = "scan"
    /\ x \in work[w].todo
    /\ work' = [work EXCEPT ![w].todo = @ \ {x}, ![w].other = x, ![w].read = file[x],
                            ![w].pc = IF exists(x) /\ file[x].assignments \cap work[w].gets # {}
                                      THEN "clear" ELSE "scan"]
    /\ UNCHANGED <<file, used, inflight, calls, fault, stale, clash, skipped>>

\* A file that cannot be read is passed over, and the loop goes on: the
\* machine keeps what it is assigned to.
ScanSkips(w, x) ==
    /\ work[w].pc = "scan"
    /\ x \in work[w].todo
    /\ Fault
    /\ work' = [work EXCEPT ![w].todo = @ \ {x}]
    /\ skipped' = IF work[w].op = "assign" /\ exists(x)
                  THEN skipped \cup (work[w].gets \cap file[x].assignments)
                  ELSE skipped
    /\ UNCHANGED <<file, used, inflight, calls, stale, clash>>

\* Mutant: a machine that holds the node keeps it.
ScanWrites_Skips(w) ==
    /\ work[w].pc = "clear"
    /\ Goto(w, "scan")
    /\ UNCHANGED <<file, used, inflight, calls, fault, stale, clash, skipped>>

\* removeAssignment, and the other machine's record is written.
ScanWrites(w) ==
    LET x == work[w].other
        r == work[w].read
    IN
    /\ work[w].pc = "clear"
    /\ file' = [file EXCEPT ![x] = [r EXCEPT !.assignments = @ \ work[w].gets]]
    /\ stale' = (stale \/ file[x] # r)
    /\ Goto(w, "scan")
    /\ UNCHANGED <<used, inflight, calls, fault, clash, skipped>>

\* The end of the loop: the machine itself is written, or nothing is left.
ScanEnds(w) ==
    LET id == work[w].id IN
    /\ work[w].pc = "scan"
    /\ work[w].todo = {}
    /\ IF work[w].op = "assign"
       THEN /\ file' = [file EXCEPT ![id] = [work[w].copy EXCEPT !.assignments = @ \cup work[w].gets]]
            /\ stale' = (stale \/ file[id] # work[w].copy)
       ELSE UNCHANGED <<file, stale>>
    /\ Return(w)
    /\ UNCHANGED <<used, inflight, calls, fault, clash, skipped>>

\* A write fails, of another machine's record or of the machine's own.
ScanFails(w) ==
    /\ \/ work[w].pc = "clear"
       \/ work[w].pc = "scan" /\ work[w].todo = {} /\ work[w].op = "assign"
    /\ Fault
    /\ Return(w)
    /\ UNCHANGED <<file, used, inflight, calls, stale, clash, skipped>>

Restart ==
    /\ Fault
    /\ work' = [w \in Workers |-> Idle]
    /\ inflight' = {}
    /\ UNCHANGED <<file, used, calls, stale, clash, skipped>>

(***************************************************************************)
(* The specification                                                       *)
(***************************************************************************)

Requests(w) ==
    \/ \E id \in Ids, b \in Bmcs :
        \/ \E inv \in found(b) : Create(w, id, b, inv) \/ (id \in used /\ Update(w, id, b, inv))
        \/ Import(w, id, b)
        \/ InventoryReport(w, id, b)
    \/ \E id \in used : Unassign(w, id) \/ Delete(w, id) \/ Fetch(w, id)
    \/ \E id \in used, s \in Slots : Assign(w, id, s)
    \/ \E s \in Slots : UnassignCluster(w, clusterOf(s))

Steps(w) ==
    \/ FetchClaims(w) \/ Discover(w) \/ Read(w) \/ Write(w) \/ Remove(w)
    \/ ScanWrites(w) \/ ScanEnds(w) \/ \E x \in Ids : ScanReads(w, x)

Next ==
    \/ \E w \in Workers :
        \/ Requests(w) \/ Steps(w) \/ WriteFails(w) \/ ScanFails(w)
        \/ \E x \in Ids : ScanSkips(w, x)
    \/ Restart

Spec == Init /\ [][Next]_vars

\* A request or goroutine that has begun goes on; a BMC answers or times out.
FairSpec == Spec /\ \A w \in Workers : WF_vars(Steps(w))

(***************************************************************************)
(* Properties                                                              *)
(***************************************************************************)

\* Every variable has its type.
MachinesTypeOK ==
    /\ file \in [Ids -> Files]
    /\ used \subseteq Ids
    /\ inflight \subseteq Ids
    /\ work \in [Workers -> WorkRecords]
    /\ calls \in 0..MaxCalls
    /\ fault \in 0..MaxFaults
    /\ stale \in BOOLEAN
    /\ clash \in BOOLEAN
    /\ skipped \subseteq Slots

holders(s) == {id \in Ids : exists(id) /\ s \in file[id].assignments}

\* Assign "enforcing 1:1": a node of a cluster has one machine, whatever else
\* reads and writes the records meanwhile, as long as no two assignments to
\* it overlap, no copy is written over a newer file, and the assignment could
\* read the record of the machine that held the node.
OneToOne == ~stale /\ ~clash => \A s \in Slots \ skipped : Cardinality(holders(s)) <= 1

\* "One fetch per machine at a time", also across edits, deletes and restarts.
OneFetch ==
    \A v, w \in Workers :
        Fetching(v) /\ Fetching(w) /\ work[v].id = work[w].id => v = w

\* mergeInventory, "a downgraded (IPMI-fallback) fetch never clobbers
\* Redfish-discovered hardware": known network cards stay known.
RichFactsKept ==
    [][\A id \in Ids :
        exists(id) /\ exists(id)' /\ file[id].nics # None /\ ~stale' => file'[id].nics # None]_vars

\* A machine does not show "fetching" for ever: every fetch ends in ok or
\* error, unless the driver stops, a write fails or an old copy comes back.
FetchEnds ==
    \A id \in Ids :
        exists(id) /\ file[id].fetch = "fetching"
            ~> \/ ~exists(id) \/ file[id].fetch # "fetching"
               \/ stale \/ fault > 0
=============================================================================
