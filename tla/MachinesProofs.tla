--------------------------- MODULE MachinesProofs ---------------------------
(***************************************************************************)
(* Proofs about the machine inventory, for any machines, slots, workers    *)
(* and bounds: the type invariant, one fetch per machine, the one-to-one   *)
(* assignment and the facts a weaker fetch leaves alone.                   *)
(***************************************************************************)
EXTENDS Machines, TLAPS, FiniteSetTheorems

(***************************************************************************)
(* The inductive invariant                                                 *)
(***************************************************************************)

\* What a worker holds in each place of its operation: the copies that are
\* written back were records when they were read.
WorkOK(r, ids) ==
    /\ r.pc \in {"read", "write", "claim", "discover"} => r.id \in ids
    /\ r.pc = "write" => r.copy \in Records
    /\ r.pc \in {"claim", "discover"} => r.op = "fetching"
    /\ r.pc \in {"scan", "clear"} => r.op \in {"assign", "cluster"}
    /\ r.op = "assign" => r.pc \in {"scan", "clear"} /\ r.id \in ids /\ r.copy \in Records
    /\ r.op = "update" => r.bmc \in Bmcs
    /\ r.pc = "clear" => r.other \in ids /\ r.read \in Records
    /\ r.todo \subseteq ids

WorkInv == \A w \in Workers : WorkOK(work[w], used)

\* Ids are handed out before they have a file.
UsedInv == \A id \in Ids : exists(id) => id \in used

TypeInv == MachinesTypeOK /\ WorkInv /\ UsedInv

\* A step of worker w, also one that fails.
Works(w) ==
    Steps(w) \/ WriteFails(w) \/ ScanFails(w) \/ \E x \in Ids : ScanSkips(w, x)

\* A fetch has its machine in the set of running fetches, alone.
FetchInv == OneFetch /\ \A w \in Workers : Fetching(w) => work[w].id \in inflight

\* Until two of them overlap, assignments under way are to different slots.
Apart ==
    ~clash => \A v, w \in Workers :
        work[v].op = "assign" /\ work[w].op = "assign" /\ v # w
            => work[v].gets \cap work[w].gets = {}

\* The file of machine x names it for slot s.
Holds(x, s) == exists(x) /\ s \in file[x].assignments

\* Where an assignment has looked and could read, nobody holds its slot any more.
ClearedFor(w) ==
    work[w].op = "assign" => \A s \in work[w].gets \ skipped : \A x \in Ids :
        Holds(x, s) => \/ x = work[w].id
                       \/ x \in work[w].todo
                       \/ work[w].pc = "clear" /\ x = work[w].other

Cleared == ~stale /\ ~clash => \A w \in Workers : ClearedFor(w)

Single ==
    ~stale /\ ~clash =>
        \A s \in Slots \ skipped : \A x, y \in Ids : Holds(x, s) /\ Holds(y, s) => x = y

SlotInv == Apart /\ Cleared /\ Single

(***************************************************************************)
(* Records                                                                 *)
(***************************************************************************)

\* A new record is a record, and a missing file is none.
LEMMA RecordFacts ==
    /\ NoFile \notin Records
    /\ \A b \in Bmcs : NewRecord(b) \in Records
    /\ \A r \in Files : r # NoFile => r \in Records
<1>1. NoFile \notin Records
  BY MachinesConstants DEF NoFile, Records
<1>2. \A b \in Bmcs : NewRecord(b) \in Records
  BY DEF NewRecord, Records, FetchStates, Facts
<1> QED BY <1>1, <1>2 DEF Files

\* A worker that does nothing is well typed.
LEMMA IdleFacts ==
    /\ Idle \in WorkRecords
    /\ \A ids : WorkOK(Idle, ids)
<1>1. Idle \in WorkRecords
  BY DEF Idle, WorkRecords, Files, Inventories, NoFacts, Facts
<1>2. \A ids : WorkOK(Idle, ids)
  BY DEF Idle, WorkOK
<1> QED BY <1>1, <1>2

\* A change of one worker that keeps it in order keeps all workers in order.
LEMMA WorkStep ==
    ASSUME work \in [Workers -> WorkRecords], WorkInv,
           NEW w \in Workers, NEW r \in WorkRecords, WorkOK(r, used'),
           work' = [work EXCEPT ![w] = r], used \subseteq used'
    PROVE  work' \in [Workers -> WorkRecords] /\ WorkInv'
<1>1. \A v \in Workers : WorkOK(work[v], used')
  BY DEF WorkInv, WorkOK
<1>2. \A v \in Workers : work'[v] = IF v = w THEN r ELSE work[v]
  OBVIOUS
<1>3. \A v \in Workers : WorkOK(work'[v], used')
  BY <1>1, <1>2
<1>4. WorkInv'
  BY <1>3 DEF WorkInv
<1> QED BY <1>4

\* Merging two results gives a result.
LEMMA MergeType ==
    ASSUME NEW next \in Inventories, NEW prev \in Inventories
    PROVE  mergeInventory(next, prev) \in Inventories
BY DEF mergeInventory, Inventories

\* What an operation makes of its copy is a record.
LEMMA ChangedType ==
    ASSUME NEW w \in Workers, work[w] \in WorkRecords, WorkOK(work[w], used),
           NEW r \in Records, work[w].op \in Changes
    PROVE  changed(r, w) \in Records
<1>1. CASE work[w].op = "inventory"
  <2> DEFINE facts == mergeInventory(work[w].inv, [serial |-> r.serial, nics |-> r.nics])
  <2>1. work[w].inv \in Inventories /\ [serial |-> r.serial, nics |-> r.nics] \in Inventories
    BY DEF WorkRecords, Records, Inventories
  <2>2. facts \in Inventories
    BY <2>1, MergeType
  <2>3. changed(r, w) = [r EXCEPT !.fetch = "ok", !.serial = facts.serial, !.nics = facts.nics]
    BY <1>1 DEF changed, SetInventory
  <2> HIDE DEF facts
  <2> QED BY <2>2, <2>3 DEF Records, Inventories, FetchStates
<1>2. CASE work[w].op = "update"
  BY <1>2 DEF changed, Updated, Records, WorkOK
<1>3. CASE work[w].op = "fetching"
  BY <1>3 DEF changed, SetFetchState, Records, FetchStates
<1>4. CASE work[w].op = "failed"
  BY <1>4 DEF changed, SetFetchState, Records, FetchStates
<1>5. CASE work[w].op = "unassign"
  BY <1>5 DEF changed, Unassigned, Records
<1> QED BY <1>1, <1>2, <1>3, <1>4, <1>5 DEF Changes

(***************************************************************************)
(* The type invariant                                                      *)
(***************************************************************************)

\* The inductive type invariant holds of a fresh store and of imported machines.
LEMMA TypeInit == Init => TypeInv
<1> SUFFICES ASSUME Init PROVE TypeInv
  OBVIOUS
<1>1. MachinesTypeOK
  <2>1. {NoFile} \cup {NewRecord(b) : b \in Bmcs} \subseteq Files
    BY RecordFacts DEF Files
  <2>2. file \in [Ids -> Files]
    BY <2>1 DEF Init
  <2>3. work \in [Workers -> WorkRecords]
    BY IdleFacts DEF Init
  <2>4. calls \in 0..MaxCalls /\ fault \in 0..MaxFaults
    BY MachinesConstants DEF Init
  <2>5. /\ used \subseteq Ids /\ inflight \subseteq Ids /\ stale \in BOOLEAN /\ clash \in BOOLEAN
       /\ skipped \subseteq Slots
    BY DEF Init
  <2> QED BY <2>2, <2>3, <2>4, <2>5 DEF MachinesTypeOK
<1>2. WorkInv
  BY IdleFacts DEF Init, WorkInv
<1>3. UsedInv
  BY DEF Init, UsedInv
<1> QED BY <1>1, <1>2, <1>3 DEF TypeInv

\* What a step has to show of the parts it changes.
LEMMA TypeParts ==
    ASSUME TypeInv,
           work' \in [Workers -> WorkRecords] /\ WorkInv',
           file' \in [Ids -> Files], UsedInv',
           used' \subseteq Ids, inflight' \subseteq Ids,
           calls' \in 0..MaxCalls, fault' \in 0..MaxFaults,
           stale' \in BOOLEAN, clash' \in BOOLEAN, skipped' \subseteq Slots
    PROVE  TypeInv'
BY DEF TypeInv, MachinesTypeOK

\* A request: its worker gets a new operation.
LEMMA TypeRequests ==
    ASSUME TypeInv, NEW w \in Workers, Requests(w)
    PROVE  TypeInv'
<1> USE DEF TypeInv
<1>0. /\ work \in [Workers -> WorkRecords] /\ WorkInv /\ file \in [Ids -> Files]
      /\ used \subseteq Ids /\ inflight \subseteq Ids /\ calls \in 0..MaxCalls
      /\ fault \in 0..MaxFaults /\ stale \in BOOLEAN /\ clash \in BOOLEAN
      /\ skipped \subseteq Slots
      /\ \A id \in Ids : exists(id) => id \in used /\ file[id] \in Records
  BY RecordFacts DEF MachinesTypeOK, UsedInv, exists
<1>1. ASSUME Call(w) PROVE calls' \in 0..MaxCalls
  BY <1>0, <1>1, MachinesConstants DEF Call
<1>2. \A b \in Bmcs : found(b) \subseteq Inventories
  BY DEF found, Redfish, IPMI, NoFacts, Inventories, Facts
<1>3. Idle = [pc |-> "idle", op |-> "none", id |-> None, gets |-> {}, bmc |-> None,
              inv |-> NoFacts, copy |-> NoFile, other |-> None, read |-> NoFile, todo |-> {}]
  BY DEF Idle
<1>4. NoFacts \in Inventories /\ NoFile \in Files
  BY DEF NoFacts, Inventories, Facts, Files
<1>5. ASSUME NEW id \in Ids, NEW b \in Bmcs, NEW inv \in found(b), Create(w, id, b, inv)
      PROVE  TypeInv'
  <2> DEFINE r == [Idle EXCEPT !.pc = "read", !.op = "inventory", !.id = id, !.inv = inv]
  <2>1. r \in WorkRecords
    BY <1>2, <1>3, <1>4, <1>5 DEF WorkRecords, Changes, Facts
  <2>2. WorkOK(r, used')
    BY <1>3, <1>5 DEF WorkOK, Create
  <2>3. work' \in [Workers -> WorkRecords] /\ WorkInv'
    BY <1>0, <1>5, <2>1, <2>2, WorkStep DEF Create
  <2>4. file' \in [Ids -> Files] /\ UsedInv'
    BY <1>0, <1>5, RecordFacts DEF Create, UsedInv, exists, Files
  <2> QED BY <1>0, <1>1, <1>5, <2>3, <2>4, TypeParts DEF Create
<1>6. ASSUME NEW id \in Ids, NEW b \in Bmcs, Import(w, id, b)
      PROVE  TypeInv'
  <2>1. work' \in [Workers -> WorkRecords] /\ WorkInv'
    BY <1>0, <1>6 DEF Import, WorkInv, WorkOK
  <2>2. file' \in [Ids -> Files] /\ UsedInv'
    BY <1>0, <1>6, RecordFacts DEF Import, UsedInv, exists, Files
  <2> QED BY <1>0, <1>1, <1>6, <2>1, <2>2, TypeParts DEF Import
<1>7. ASSUME NEW id \in used, NEW op \in {"unassign", "delete"}, Request(w, id, op)
      PROVE  TypeInv'
  <2> DEFINE r == [Idle EXCEPT !.pc = "read", !.op = op, !.id = id]
  <2>1. r \in WorkRecords
    BY <1>0, <1>3, <1>4 DEF WorkRecords, Changes, Facts
  <2>2. WorkOK(r, used')
    BY <1>3, <1>7 DEF WorkOK, Request
  <2>3. work' \in [Workers -> WorkRecords] /\ WorkInv'
    BY <1>0, <1>7, <2>1, <2>2, WorkStep DEF Request
  <2>4. UsedInv'
    BY <1>7 DEF Request, UsedInv, exists
  <2> QED BY <1>0, <1>1, <1>7, <2>3, <2>4, TypeParts DEF Request
<1>8. ASSUME NEW id \in used, NEW b \in Bmcs, NEW inv \in found(b), Update(w, id, b, inv)
      PROVE  TypeInv'
  <2> DEFINE r == [Idle EXCEPT !.pc = "read", !.op = "update", !.id = id, !.bmc = b, !.inv = inv]
  <2>1. r \in WorkRecords
    BY <1>0, <1>2, <1>3, <1>4, <1>8 DEF WorkRecords, Changes, Facts
  <2>2. WorkOK(r, used')
    BY <1>3, <1>8 DEF WorkOK, Update
  <2>3. work' \in [Workers -> WorkRecords] /\ WorkInv'
    BY <1>0, <1>8, <2>1, <2>2, WorkStep DEF Update
  <2>4. UsedInv'
    BY <1>8 DEF Update, UsedInv, exists
  <2> QED BY <1>0, <1>1, <1>8, <2>3, <2>4, TypeParts DEF Update
<1>9. ASSUME NEW id \in Ids, NEW b \in Bmcs, InventoryReport(w, id, b)
      PROVE  TypeInv'
  <2> DEFINE r == [Idle EXCEPT !.pc = "read", !.op = "inventory", !.id = id,
                               !.inv = [serial |-> b, nics |-> b]]
  <2>1. r \in WorkRecords
    BY <1>0, <1>3, <1>4 DEF WorkRecords, Changes, Facts, Inventories
  <2>2. WorkOK(r, used')
    BY <1>0, <1>3, <1>9 DEF WorkOK, InventoryReport
  <2>3. work' \in [Workers -> WorkRecords] /\ WorkInv'
    BY <1>0, <1>9, <2>1, <2>2, WorkStep DEF InventoryReport
  <2>4. UsedInv'
    BY <1>9 DEF InventoryReport, UsedInv, exists
  <2> QED BY <1>0, <1>1, <1>9, <2>3, <2>4, TypeParts DEF InventoryReport
<1>10. ASSUME NEW id \in used, NEW s \in Slots, Assign(w, id, s)
       PROVE  TypeInv'
  <2> DEFINE r == [Idle EXCEPT !.pc = "scan", !.op = "assign", !.id = id, !.gets = {s},
                               !.copy = file[id], !.todo = {x \in Ids \ {id} : exists(x)}]
  <2>1. r \in WorkRecords
    BY <1>0, <1>3, <1>4 DEF WorkRecords, Changes, Facts
  <2>2. WorkOK(r, used')
    BY <1>0, <1>3, <1>10 DEF WorkOK, Assign
  <2>3. work' \in [Workers -> WorkRecords] /\ WorkInv'
    BY <1>0, <1>10, <2>1, <2>2, WorkStep DEF Assign
  <2>4. UsedInv'
    BY <1>10 DEF Assign, UsedInv, exists
  <2>5. clash' \in BOOLEAN
    BY <1>10 DEF Assign
  <2> QED BY <1>0, <1>1, <1>10, <2>3, <2>4, <2>5, TypeParts DEF Assign
<1>11. ASSUME NEW k, UnassignCluster(w, k)
       PROVE  TypeInv'
  <2> DEFINE r == [Idle EXCEPT !.pc = "scan", !.op = "cluster",
                               !.gets = {s \in Slots : clusterOf(s) = k},
                               !.todo = {x \in Ids : exists(x)}]
  <2>1. r \in WorkRecords
    BY <1>0, <1>3, <1>4 DEF WorkRecords, Changes, Facts
  <2>2. WorkOK(r, used')
    BY <1>0, <1>3, <1>11 DEF WorkOK, UnassignCluster
  <2>3. work' \in [Workers -> WorkRecords] /\ WorkInv'
    BY <1>0, <1>11, <2>1, <2>2, WorkStep DEF UnassignCluster
  <2>4. UsedInv'
    BY <1>11 DEF UnassignCluster, UsedInv, exists
  <2> QED BY <1>0, <1>1, <1>11, <2>3, <2>4, TypeParts DEF UnassignCluster
<1>12. ASSUME NEW id \in used, Fetch(w, id)
       PROVE  TypeInv'
  <2> DEFINE r == [Idle EXCEPT !.pc = "claim", !.op = "fetching", !.id = id,
                               !.bmc = Credentials(id)]
  <2>0. Credentials(id) \in Bmcs
    BY <1>0, <1>12 DEF Fetch, Credentials, Records
  <2>1. r \in WorkRecords
    BY <1>0, <1>3, <1>4, <2>0 DEF WorkRecords, Changes, Facts
  <2>2. WorkOK(r, used')
    BY <1>3, <1>12 DEF WorkOK, Fetch
  <2>3. work' \in [Workers -> WorkRecords] /\ WorkInv'
    BY <1>0, <1>12, <2>1, <2>2, WorkStep DEF Fetch
  <2>4. UsedInv'
    BY <1>12 DEF Fetch, UsedInv, exists
  <2> QED BY <1>0, <1>1, <1>12, <2>3, <2>4, TypeParts DEF Fetch
<1> QED
  BY <1>5, <1>6, <1>7, <1>8, <1>9, <1>10, <1>11, <1>12 DEF Requests, Unassign, Delete

\* A worker that returns is idle.
LEMMA ReturnStep ==
    ASSUME work \in [Workers -> WorkRecords], WorkInv, NEW w \in Workers, Return(w),
           used \subseteq used'
    PROVE  work' \in [Workers -> WorkRecords] /\ WorkInv'
BY IdleFacts, WorkStep DEF Return

\* The steps of a request or of a fetch.
LEMMA TypeSteps ==
    ASSUME TypeInv, NEW w \in Workers, Works(w)
    PROVE  TypeInv'
<1> USE DEF TypeInv
<1>0. /\ work \in [Workers -> WorkRecords] /\ WorkInv /\ file \in [Ids -> Files]
      /\ used \subseteq Ids /\ inflight \subseteq Ids /\ calls \in 0..MaxCalls
      /\ fault \in 0..MaxFaults /\ stale \in BOOLEAN /\ clash \in BOOLEAN
      /\ skipped \subseteq Slots
      /\ \A id \in Ids : exists(id) => id \in used /\ file[id] \in Records
  BY RecordFacts DEF MachinesTypeOK, UsedInv, exists
<1>1. work[w] \in WorkRecords /\ WorkOK(work[w], used)
  BY <1>0 DEF WorkInv
<1>2. ASSUME Ends(w) PROVE inflight' \subseteq Ids
  BY <1>0, <1>2 DEF Ends
<1>3. ASSUME Fault PROVE fault' \in 0..MaxFaults
  BY <1>0, <1>3, MachinesConstants DEF Fault
<1>4. ASSUME UNCHANGED <<file, used>> PROVE file' \in [Ids -> Files] /\ UsedInv'
  BY <1>0, <1>4 DEF UsedInv, exists
<1>5. CASE FetchClaims(w)
  <2>1. work' \in [Workers -> WorkRecords] /\ WorkInv'
    <3>1. CASE work[w].id \in inflight
      BY <1>0, <1>5, <3>1, ReturnStep DEF FetchClaims
    <3>2. CASE work[w].id \notin inflight
      <4> DEFINE r == [work[w] EXCEPT !.pc = "read"]
      <4>1. r \in WorkRecords
        BY <1>1 DEF WorkRecords
      <4>2. WorkOK(r, used')
        BY <1>1, <1>5 DEF WorkOK, FetchClaims, WorkRecords
      <4>3. work' = [work EXCEPT ![w] = r]
        BY <1>0, <1>5, <3>2 DEF FetchClaims, Goto
      <4> QED BY <1>0, <1>5, <4>1, <4>2, <4>3, WorkStep DEF FetchClaims
    <3> QED BY <3>1, <3>2
  <2>2. inflight' \subseteq Ids
    BY <1>0, <1>1, <1>5 DEF FetchClaims, WorkOK
  <2> QED BY <1>0, <1>4, <1>5, <2>1, <2>2, TypeParts DEF FetchClaims
<1>6. CASE Discover(w)
  <2>1. found(work[w].bmc) \subseteq Inventories
    BY <1>1 DEF found, Redfish, IPMI, NoFacts, Inventories, WorkRecords, Facts
  <2>2. PICK r \in WorkRecords : work' = [work EXCEPT ![w] = r] /\ WorkOK(r, used')
    <3>1. CASE work' = [work EXCEPT ![w].pc = "read", ![w].op = "failed"]
      <4> DEFINE r == [work[w] EXCEPT !.pc = "read", !.op = "failed"]
      <4>1. r \in WorkRecords
        BY <1>1 DEF WorkRecords, Changes
      <4>2. WorkOK(r, used')
        BY <1>1, <1>6 DEF WorkOK, Discover, WorkRecords
      <4>3. work' = [work EXCEPT ![w] = r]
        BY <1>0, <3>1
      <4> QED BY <4>1, <4>2, <4>3
    <3>2. ASSUME NEW inv \in found(work[w].bmc),
                 work' = [work EXCEPT ![w].pc = "read", ![w].op = "inventory", ![w].inv = inv]
          PROVE  \E r \in WorkRecords : work' = [work EXCEPT ![w] = r] /\ WorkOK(r, used')
      <4> DEFINE r == [work[w] EXCEPT !.pc = "read", !.op = "inventory", !.inv = inv]
      <4>1. r \in WorkRecords
        BY <1>1, <2>1 DEF WorkRecords, Changes
      <4>2. WorkOK(r, used')
        BY <1>1, <1>6 DEF WorkOK, Discover, WorkRecords
      <4>3. work' = [work EXCEPT ![w] = r]
        BY <1>0, <3>2
      <4> QED BY <4>1, <4>2, <4>3
    <3> QED BY <1>6, <3>1, <3>2 DEF Discover
  <2>3. work' \in [Workers -> WorkRecords] /\ WorkInv'
    BY <1>0, <1>6, <2>2, WorkStep DEF Discover
  <2> QED BY <1>0, <1>4, <1>6, <2>3, TypeParts DEF Discover
<1>7. CASE Read(w)
  <2>1. work' \in [Workers -> WorkRecords] /\ WorkInv' /\ inflight' \subseteq Ids
    <3>1. CASE exists(work[w].id)
      <4> DEFINE r == [work[w] EXCEPT !.copy = file[work[w].id], !.pc = "write"]
      <4>1. work[w].id \in Ids /\ file[work[w].id] \in Records
        BY <1>0, <1>1, <1>7, <3>1 DEF Read, WorkOK
      <4>2. r \in WorkRecords
        BY <1>1, <4>1 DEF WorkRecords, Files
      <4>3. WorkOK(r, used')
        BY <1>1, <1>7, <4>1 DEF WorkOK, Read, WorkRecords
      <4>4. work' = [work EXCEPT ![w] = r]
        BY <1>0, <1>7, <3>1 DEF Read
      <4> QED BY <1>0, <1>7, <3>1, <4>2, <4>3, <4>4, WorkStep DEF Read
    <3>2. CASE ~exists(work[w].id)
      BY <1>0, <1>2, <1>7, <3>2, ReturnStep DEF Read, Ends
    <3> QED BY <3>1, <3>2
  <2> QED BY <1>0, <1>4, <1>7, <2>1, TypeParts DEF Read
<1>8. CASE Write(w)
  <2>1. work[w].id \in used /\ work[w].copy \in Records
    BY <1>1, <1>8 DEF Write, WorkOK
  <2>2. changed(work[w].copy, w) \in Records
    BY <1>1, <1>8, <2>1, ChangedType DEF Write
  <2>3. file' \in [Ids -> Files] /\ UsedInv'
    <3>1. file' = [file EXCEPT ![work[w].id] = changed(work[w].copy, w)]
      BY <1>8 DEF Write
    <3>2. used' = used
      BY <1>8 DEF Write
    <3> QED BY <1>0, <2>1, <2>2, <3>1, <3>2 DEF Files, UsedInv, exists
  <2>4. work' \in [Workers -> WorkRecords] /\ WorkInv' /\ inflight' \subseteq Ids
    <3>1. CASE work[w].op = "update"
      <4> DEFINE r == [work[w] EXCEPT !.pc = "read", !.op = "inventory", !.bmc = None]
      <4>1. r \in WorkRecords
        BY <1>1 DEF WorkRecords, Changes, Facts
      <4>2. WorkOK(r, used')
        BY <1>1, <1>8, <2>1 DEF WorkOK, Write, WorkRecords
      <4>3. work' = [work EXCEPT ![w] = r] /\ UNCHANGED inflight
        BY <1>0, <1>8, <3>1 DEF Write
      <4> QED BY <1>0, <1>8, <4>1, <4>2, <4>3, WorkStep DEF Write
    <3>2. CASE work[w].op = "fetching"
      <4> DEFINE r == [work[w] EXCEPT !.pc = "discover"]
      <4>1. r \in WorkRecords
        BY <1>1 DEF WorkRecords
      <4>2. WorkOK(r, used')
        BY <1>1, <1>8, <2>1, <3>2 DEF WorkOK, Write, WorkRecords
      <4>3. work' = [work EXCEPT ![w] = r] /\ UNCHANGED inflight
        BY <1>0, <1>8, <3>2 DEF Write, Goto
      <4> QED BY <1>0, <1>8, <4>1, <4>2, <4>3, WorkStep DEF Write
    <3>3. CASE work[w].op \notin {"update", "fetching"}
      <4>1. Ends(w)
        BY <1>8, <3>3 DEF Write
      <4> QED BY <1>0, <1>2, <1>8, <4>1, ReturnStep DEF Write, Ends
    <3> QED BY <3>1, <3>2, <3>3
  <2>5. stale' \in BOOLEAN
    BY <1>8 DEF Write
  <2> QED BY <1>0, <1>8, <2>3, <2>4, <2>5, TypeParts DEF Write
<1>9. CASE Remove(w)
  <2>1. file' \in [Ids -> Files] /\ UsedInv'
    BY <1>0, <1>1, <1>9 DEF Remove, Files, UsedInv, exists, WorkOK
  <2>2. work' \in [Workers -> WorkRecords] /\ WorkInv'
    BY <1>0, <1>9, ReturnStep DEF Remove
  <2> QED BY <1>0, <1>9, <2>1, <2>2, TypeParts DEF Remove
<1>10. CASE ScanWrites(w)
  <2> DEFINE x == work[w].other
             q == [work[w].read EXCEPT !.assignments = @ \ work[w].gets]
             r == [work[w] EXCEPT !.pc = "scan"]
  <2>1. x \in used /\ q \in Records
    BY <1>1, <1>10 DEF ScanWrites, WorkOK, Records
  <2>2. file' = [file EXCEPT ![x] = q] /\ used' = used /\ stale' \in BOOLEAN
    BY <1>10 DEF ScanWrites
  <2>3. work' = [work EXCEPT ![w] = r]
    BY <1>0, <1>10 DEF ScanWrites, Goto
  <2>4. r \in WorkRecords /\ WorkOK(r, used')
    BY <1>1, <1>10 DEF WorkRecords, WorkOK, ScanWrites
  <2>5. work' \in [Workers -> WorkRecords] /\ WorkInv'
    BY <1>0, <2>2, <2>3, <2>4, WorkStep
  <2>6. file' \in [Ids -> Files] /\ UsedInv'
    BY <1>0, <2>1, <2>2 DEF Files, UsedInv, exists
  <2> QED BY <1>0, <1>10, <2>2, <2>5, <2>6, TypeParts DEF ScanWrites
<1>11. CASE ScanEnds(w)
  <2>1. work' \in [Workers -> WorkRecords] /\ WorkInv'
    BY <1>0, <1>11, ReturnStep DEF ScanEnds
  <2>2. used' = used /\ stale' \in BOOLEAN
    BY <1>0, <1>11 DEF ScanEnds
  <2>3. file' \in [Ids -> Files] /\ UsedInv'
    <3>1. CASE work[w].op = "assign"
      <4> DEFINE q == [work[w].copy EXCEPT !.assignments = @ \cup work[w].gets]
      <4>1. work[w].id \in used /\ q \in Records
        BY <1>1, <3>1 DEF WorkOK, Records, WorkRecords
      <4>2. file' = [file EXCEPT ![work[w].id] = q]
        BY <1>11, <3>1 DEF ScanEnds
      <4> QED BY <1>0, <2>2, <4>1, <4>2 DEF Files, UsedInv, exists
    <3>2. CASE work[w].op # "assign"
      BY <1>4, <1>11, <3>2 DEF ScanEnds
    <3> QED BY <3>1, <3>2
  <2> QED BY <1>0, <1>11, <2>1, <2>2, <2>3, TypeParts DEF ScanEnds
<1>12. ASSUME NEW x \in Ids, ScanReads(w, x) PROVE TypeInv'
  <2> DEFINE at == IF exists(x) /\ file[x].assignments \cap work[w].gets # {}
                   THEN "clear" ELSE "scan"
             r == [work[w] EXCEPT !.todo = @ \ {x}, !.other = x, !.read = file[x], !.pc = at]
  <2>1. r \in WorkRecords
    BY <1>0, <1>1 DEF WorkRecords
  <2>2. WorkOK(r, used')
    BY <1>0, <1>1, <1>12 DEF WorkOK, ScanReads, WorkRecords
  <2>3. work' = [work EXCEPT ![w] = r]
    BY <1>0, <1>12 DEF ScanReads
  <2>4. work' \in [Workers -> WorkRecords] /\ WorkInv'
    BY <1>0, <1>12, <2>1, <2>2, <2>3, WorkStep DEF ScanReads
  <2> QED BY <1>0, <1>4, <1>12, <2>4, TypeParts DEF ScanReads
<1>13. CASE WriteFails(w)
  <2>1. work' \in [Workers -> WorkRecords] /\ WorkInv'
    BY <1>0, <1>13, ReturnStep DEF WriteFails, Ends
  <2> QED BY <1>0, <1>2, <1>3, <1>4, <1>13, <2>1, TypeParts DEF WriteFails
<1>14. CASE ScanFails(w)
  <2>1. work' \in [Workers -> WorkRecords] /\ WorkInv'
    BY <1>0, <1>14, ReturnStep DEF ScanFails
  <2> QED BY <1>0, <1>3, <1>4, <1>14, <2>1, TypeParts DEF ScanFails
<1>15. ASSUME NEW x \in Ids, ScanSkips(w, x) PROVE TypeInv'
  <2> DEFINE r == [work[w] EXCEPT !.todo = @ \ {x}]
  <2>1. r \in WorkRecords
    BY <1>1 DEF WorkRecords
  <2>2. WorkOK(r, used')
    BY <1>1, <1>15 DEF WorkOK, ScanSkips, WorkRecords
  <2>3. work' = [work EXCEPT ![w] = r]
    BY <1>0, <1>15 DEF ScanSkips
  <2>4. work' \in [Workers -> WorkRecords] /\ WorkInv'
    BY <1>0, <1>15, <2>1, <2>2, <2>3, WorkStep DEF ScanSkips
  <2>5. skipped' \subseteq Slots
    BY <1>0, <1>1, <1>15 DEF ScanSkips, WorkRecords
  <2> QED BY <1>0, <1>3, <1>4, <1>15, <2>4, <2>5, TypeParts DEF ScanSkips
<1> QED
  BY <1>5, <1>6, <1>7, <1>8, <1>9, <1>10, <1>11, <1>12, <1>13, <1>14, <1>15 DEF Steps, Works

\* No step of a worker, fault or restart of the driver breaks the type invariant.
LEMMA TypeNext == TypeInv /\ [Next]_vars => TypeInv'
<1> SUFFICES ASSUME TypeInv, [Next]_vars PROVE TypeInv'
  OBVIOUS
<1>1. CASE Restart
  <2>1. work' \in [Workers -> WorkRecords] /\ WorkInv'
    BY <1>1, IdleFacts DEF Restart, WorkInv
  <2>2. UsedInv'
    BY <1>1 DEF TypeInv, Restart, UsedInv, exists
  <2>3. fault' \in 0..MaxFaults
    BY <1>1, MachinesConstants DEF TypeInv, MachinesTypeOK, Restart, Fault
  <2> QED BY <1>1, <2>1, <2>2, <2>3, TypeParts DEF TypeInv, MachinesTypeOK, Restart
<1>2. CASE UNCHANGED vars
  <2>1. WorkInv' /\ UsedInv' /\ MachinesTypeOK'
    BY <1>2 DEF vars, TypeInv, MachinesTypeOK, WorkInv, WorkOK, UsedInv, exists
  <2> QED BY <2>1 DEF TypeInv
<1> QED BY <1>1, <1>2, TypeRequests, TypeSteps DEF Next, Works

\* Every record of the store and every operation under way is well typed: in
\* particular nothing but whole records is ever written to the directory.
THEOREM MachinesTypeCorrect == Spec => []MachinesTypeOK
<1>1. Init => TypeInv
  BY TypeInit
<1>2. TypeInv /\ [Next]_vars => TypeInv'
  BY TypeNext
<1>3. TypeInv => MachinesTypeOK
  BY DEF TypeInv
<1> QED BY <1>1, <1>2, <1>3, PTL DEF Spec

(***************************************************************************)
(* One fetch per machine                                                   *)
(***************************************************************************)

\* What a worker does outside its own claim leaves the invariant alone.
LEMMA FetchKept ==
    ASSUME FetchInv, NEW w \in Workers,
           \A v \in Workers \ {w} : work'[v] = work[v],
           Fetching(w)' => Fetching(w) /\ work'[w].id = work[w].id,
           UNCHANGED inflight \/ (~Fetching(w)' /\ Fetching(w) /\ inflight' = inflight \ {work[w].id})
    PROVE  FetchInv'
<1>1. \A v \in Workers : Fetching(v)' => Fetching(v) /\ work'[v].id = work[v].id
  BY DEF Fetching
<1>2. OneFetch'
  BY <1>1 DEF FetchInv, OneFetch
<1>3. \A v \in Workers : Fetching(v)' => work'[v].id \in inflight'
  BY <1>1 DEF FetchInv, OneFetch
<1> QED BY <1>2, <1>3 DEF FetchInv

\* A fetch that ends gives up its own claim and no other.
LEMMA EndsKeepsFetch ==
    ASSUME FetchInv, NEW w \in Workers, work \in [Workers -> WorkRecords], Ends(w)
    PROVE  FetchInv'
<1>1. ~Fetching(w)'
  BY DEF Ends, Return, Fetching, Idle
<1>2. \A v \in Workers \ {w} : work'[v] = work[v]
  BY DEF Ends, Return
<1>3. UNCHANGED inflight \/ (Fetching(w) /\ inflight' = inflight \ {work[w].id})
  BY DEF Ends
<1> QED BY <1>1, <1>2, <1>3, FetchKept

\* A request does not fetch yet: it has to claim its machine first.
LEMMA RequestsKeepFetch ==
    ASSUME TypeInv, FetchInv, NEW w \in Workers, Requests(w)
    PROVE  FetchInv'
<1>0. work \in [Workers -> WorkRecords]
  BY DEF TypeInv, MachinesTypeOK
<1> DEFINE Quiet == ~Fetching(w)' /\ (\A v \in Workers \ {w} : work'[v] = work[v])
                        /\ UNCHANGED inflight
<1>1. ASSUME NEW id \in Ids, NEW b \in Bmcs, NEW inv, Create(w, id, b, inv) PROVE Quiet
  BY <1>0, <1>1 DEF Create, Fetching, Idle
<1>2. ASSUME NEW id \in Ids, NEW b \in Bmcs, Import(w, id, b) PROVE Quiet
  BY <1>0, <1>2 DEF Import, Call, Fetching
<1>3. ASSUME NEW id, NEW op, Request(w, id, op) PROVE Quiet
  BY <1>0, <1>3 DEF Request, Fetching, Idle
<1>4. ASSUME NEW id, NEW b \in Bmcs, NEW inv, Update(w, id, b, inv) PROVE Quiet
  BY <1>0, <1>4 DEF Update, Fetching, Idle
<1>5. ASSUME NEW id, NEW b \in Bmcs, InventoryReport(w, id, b) PROVE Quiet
  BY <1>0, <1>5 DEF InventoryReport, Fetching, Idle
<1>6. ASSUME NEW id, NEW s \in Slots, Assign(w, id, s) PROVE Quiet
  BY <1>0, <1>6 DEF Assign, Fetching, Idle
<1>7. ASSUME NEW k, UnassignCluster(w, k) PROVE Quiet
  BY <1>0, <1>7 DEF UnassignCluster, Fetching, Idle
<1>8. ASSUME NEW id, Fetch(w, id) PROVE Quiet
  BY <1>0, <1>8 DEF Fetch, Fetching, Idle
<1>9. Quiet
  BY <1>1, <1>2, <1>3, <1>4, <1>5, <1>6, <1>7, <1>8 DEF Requests, Unassign, Delete
<1> QED BY <1>9, FetchKept

\* The claim is the one step after which a worker is fetching that was not.
LEMMA ClaimKeepsFetch ==
    ASSUME TypeInv, FetchInv, NEW w \in Workers, FetchClaims(w)
    PROVE  FetchInv'
<1>0. work \in [Workers -> WorkRecords]
  BY DEF TypeInv, MachinesTypeOK
<1>1. CASE work[w].id \in inflight
  <2>1. ~Fetching(w)' /\ (\A v \in Workers \ {w} : work'[v] = work[v])
    BY <1>0, <1>1 DEF FetchClaims, Return, Fetching, Idle
  <2>2. UNCHANGED inflight
    BY <1>1 DEF FetchClaims
  <2> QED BY <2>1, <2>2, FetchKept
<1>2. CASE work[w].id \notin inflight
  <2>1. /\ \A v \in Workers \ {w} : work'[v] = work[v]
        /\ work'[w].id = work[w].id
        /\ inflight' = inflight \cup {work[w].id}
    BY <1>0, <1>2 DEF FetchClaims, Goto, WorkRecords
  <2>2. \A v \in Workers \ {w} : Fetching(v)' => Fetching(v) /\ work'[v].id # work'[w].id
    BY <1>2, <2>1 DEF Fetching, FetchInv
  <2>3. OneFetch'
    BY <2>1, <2>2 DEF FetchInv, OneFetch
  <2>4. \A v \in Workers : Fetching(v)' => work'[v].id \in inflight'
    BY <2>1, <2>2 DEF FetchInv
  <2> QED BY <2>3, <2>4 DEF FetchInv
<1> QED BY <1>1, <1>2

\* Every step keeps the claims of the fetches apart.
LEMMA FetchNext == TypeInv /\ FetchInv /\ [Next]_vars => FetchInv'
<1> SUFFICES ASSUME TypeInv, FetchInv, [Next]_vars PROVE FetchInv'
  OBVIOUS
<1>0. work \in [Workers -> WorkRecords] /\ WorkInv
  BY DEF TypeInv, MachinesTypeOK
<1>1. ASSUME NEW w \in Workers, Works(w) PROVE FetchInv'
  <2> DEFINE Others == \A v \in Workers \ {w} : work'[v] = work[v]
  <2>1. work[w] \in WorkRecords /\ WorkOK(work[w], used)
    BY <1>0 DEF WorkInv
  <2>2. CASE Discover(w)
    <3>1. Others /\ work'[w].id = work[w].id /\ UNCHANGED inflight
      BY <1>0, <2>1, <2>2 DEF Discover, WorkRecords
    <3>2. Fetching(w)' => Fetching(w)
      BY <1>0, <2>1, <2>2 DEF Discover, Fetching, WorkOK, WorkRecords
    <3> QED BY <3>1, <3>2, FetchKept
  <2>3. CASE Read(w)
    <3>1. CASE exists(work[w].id)
      <4>1. Others /\ work'[w].id = work[w].id /\ UNCHANGED inflight
        BY <1>0, <2>1, <2>3, <3>1 DEF Read, WorkRecords
      <4>2. Fetching(w)' => Fetching(w)
        BY <1>0, <2>1, <2>3, <3>1 DEF Read, Fetching, WorkRecords
      <4> QED BY <4>1, <4>2, FetchKept
    <3>2. CASE ~exists(work[w].id)
      BY <1>0, <2>3, <3>2, EndsKeepsFetch DEF Read
    <3> QED BY <3>1, <3>2
  <2>4. CASE Write(w)
    <3>1. CASE work[w].op = "update"
      <4>1. Others /\ ~Fetching(w)' /\ UNCHANGED inflight
        BY <1>0, <2>1, <2>4, <3>1 DEF Write, Fetching, WorkRecords
      <4> QED BY <4>1, FetchKept
    <3>2. CASE work[w].op = "fetching"
      <4>1. Others /\ work'[w].id = work[w].id /\ UNCHANGED inflight
        BY <1>0, <2>1, <2>4, <3>2 DEF Write, Goto, WorkRecords
      <4>2. Fetching(w)' => Fetching(w)
        BY <1>0, <2>1, <2>4, <3>2 DEF Write, Goto, Fetching, WorkRecords
      <4> QED BY <4>1, <4>2, FetchKept
    <3>3. CASE work[w].op \notin {"update", "fetching"}
      <4>1. Ends(w)
        BY <2>4, <3>3 DEF Write
      <4> QED BY <1>0, <4>1, EndsKeepsFetch
    <3> QED BY <3>1, <3>2, <3>3
  <2>5. CASE WriteFails(w)
    BY <1>0, <2>5, EndsKeepsFetch DEF WriteFails
  <2>6. CASE Remove(w) \/ ScanEnds(w) \/ ScanFails(w)
    <3>1. Return(w) /\ UNCHANGED inflight
      BY <2>6 DEF Remove, ScanEnds, ScanFails
    <3>2. Others /\ ~Fetching(w)'
      BY <1>0, <3>1 DEF Return, Fetching, Idle
    <3> QED BY <3>1, <3>2, FetchKept
  <2>7. CASE ScanWrites(w)
    <3>1. Others /\ ~Fetching(w)' /\ UNCHANGED inflight
      BY <1>0, <2>1, <2>7 DEF ScanWrites, Goto, Fetching, WorkRecords
    <3> QED BY <3>1, FetchKept
  <2>8. ASSUME NEW x \in Ids, ScanReads(w, x) PROVE FetchInv'
    <3>1. Others /\ ~Fetching(w)' /\ UNCHANGED inflight
      BY <1>0, <2>1, <2>8 DEF ScanReads, Fetching, WorkRecords
    <3> QED BY <3>1, FetchKept
  <2>9. ASSUME NEW x \in Ids, ScanSkips(w, x) PROVE FetchInv'
    <3>1. Others /\ ~Fetching(w)' /\ UNCHANGED inflight
      BY <1>0, <2>1, <2>9 DEF ScanSkips, Fetching, WorkRecords
    <3> QED BY <3>1, FetchKept
  <2> QED
    BY <1>1, <2>2, <2>3, <2>4, <2>5, <2>6, <2>7, <2>8, <2>9, ClaimKeepsFetch DEF Steps, Works
<1>2. CASE Restart
  BY <1>2 DEF Restart, FetchInv, OneFetch, Fetching, Idle
<1>3. CASE UNCHANGED vars
  BY <1>3 DEF vars, FetchInv, OneFetch, Fetching
<1> QED BY <1>1, <1>2, <1>3, RequestsKeepFetch DEF Next, Works

\* inflight keeps the fetches of a machine apart, whatever is created, edited
\* or deleted meanwhile, for any number of requests and restarts.
THEOREM OneFetchAlways == Spec => []OneFetch
<1>1. Init => TypeInv /\ FetchInv
  <2>1. Init => FetchInv
    BY DEF Init, FetchInv, OneFetch, Fetching, Idle
  <2> QED BY <2>1, TypeInit
<1>2. TypeInv /\ FetchInv /\ [Next]_vars => (TypeInv /\ FetchInv)'
  BY TypeNext, FetchNext
<1>3. TypeInv /\ FetchInv => OneFetch
  BY DEF FetchInv
<1> QED BY <1>1, <1>2, <1>3, PTL DEF Spec

(***************************************************************************)
(* One machine per slot                                                    *)
(***************************************************************************)

\* No operation on one record assigns it, or forgets its network cards.
LEMMA ChangedFacts ==
    ASSUME NEW w \in Workers, work[w] \in WorkRecords, NEW r \in Records, work[w].op \in Changes
    PROVE  /\ changed(r, w).assignments \subseteq r.assignments
           /\ r.nics # None => changed(r, w).nics # None
<1>1. CASE work[w].op = "inventory"
  <2> DEFINE facts == mergeInventory(work[w].inv, [serial |-> r.serial, nics |-> r.nics])
  <2>1. r.nics # None => facts.nics # None
    BY DEF mergeInventory
  <2>2. changed(r, w) = [r EXCEPT !.fetch = "ok", !.serial = facts.serial, !.nics = facts.nics]
    BY <1>1 DEF changed, SetInventory
  <2> HIDE DEF facts
  <2> QED BY <2>1, <2>2 DEF Records
<1>2. CASE work[w].op = "update"
  BY <1>2 DEF changed, Updated, Records
<1>3. CASE work[w].op = "fetching"
  BY <1>3 DEF changed, SetFetchState, Records
<1>4. CASE work[w].op = "failed"
  BY <1>4 DEF changed, SetFetchState, Records
<1>5. CASE work[w].op = "unassign"
  BY <1>5 DEF changed, Unassigned, Records
<1> QED BY <1>1, <1>2, <1>3, <1>4, <1>5 DEF Changes

\* A step assigns nothing.
NoNew == \A x \in Ids : \A s \in Slots : Holds(x, s)' => Holds(x, s)

\* A step of worker w that assigns nothing keeps the invariant when it keeps
\* the worker's own part of it.
LEMMA SlotKept ==
    ASSUME SlotInv, work \in [Workers -> WorkRecords], NEW w \in Workers,
           \A v \in Workers \ {w} : work'[v] = work[v],
           stale => stale', clash => clash', skipped \subseteq skipped',
           ~stale' => NoNew,
           ~stale' /\ ~clash' => ClearedFor(w)',
           ~clash' /\ work'[w].op = "assign" =>
                \A v \in Workers \ {w} : work[v].op = "assign"
                    => work[v].gets \cap work'[w].gets = {}
    PROVE  SlotInv'
<1>1. Apart'
  BY DEF SlotInv, Apart
<1>2. Single'
  BY DEF SlotInv, Single, NoNew
<1>3. Cleared'
  <2> SUFFICES ASSUME ~stale', ~clash', NEW v \in Workers PROVE ClearedFor(v)'
    BY DEF Cleared
  <2>1. CASE v = w
    BY <2>1
  <2>2. CASE v # w
    <3>1. ClearedFor(v) /\ work'[v] = work[v] /\ work[v].gets \subseteq Slots
      BY <2>2 DEF SlotInv, Cleared, WorkRecords
    <3> QED BY <3>1 DEF ClearedFor, NoNew
  <2> QED BY <2>1, <2>2
<1> QED BY <1>1, <1>2, <1>3 DEF SlotInv

\* The same for a worker that is not assigning.
LEMMA SlotOther ==
    ASSUME SlotInv, work \in [Workers -> WorkRecords], NEW w \in Workers,
           \A v \in Workers \ {w} : work'[v] = work[v], work'[w].op # "assign",
           stale => stale', clash => clash', skipped \subseteq skipped', ~stale' => NoNew
    PROVE  SlotInv'
<1>1. ClearedFor(w)'
  BY DEF ClearedFor
<1> QED BY <1>1, SlotKept

\* A request assigns nothing; an assignment that begins has cleared nobody yet,
\* and one that meets another for the same node sets clash.
LEMMA SlotRequests ==
    ASSUME TypeInv, SlotInv, NEW w \in Workers, Requests(w)
    PROVE  SlotInv'
<1>0. work \in [Workers -> WorkRecords] /\ file \in [Ids -> Files] /\ WorkInv
  BY DEF TypeInv, MachinesTypeOK
<1> DEFINE Others == \A v \in Workers \ {w} : work'[v] = work[v]
           Quiet == Others /\ work'[w].op # "assign" /\ UNCHANGED <<stale, clash, skipped>> /\ NoNew
<1>1. ASSUME UNCHANGED file PROVE NoNew
  BY <1>1 DEF NoNew, Holds, exists
<1>2. ASSUME NEW id \in Ids, NEW b \in Bmcs, file' = [file EXCEPT ![id] = NewRecord(b)]
      PROVE  NoNew
  BY <1>0, <1>2 DEF NoNew, Holds, exists, NewRecord
<1>3. ASSUME NEW id \in Ids, NEW b \in Bmcs, NEW inv, Create(w, id, b, inv) PROVE Quiet
  BY <1>0, <1>2, <1>3 DEF Create, Idle
<1>4. ASSUME NEW id \in Ids, NEW b \in Bmcs, Import(w, id, b) PROVE Quiet
  BY <1>0, <1>2, <1>4 DEF Import, Call, WorkInv, WorkOK
<1>5. ASSUME NEW id, NEW op \in {"unassign", "delete"}, Request(w, id, op) PROVE Quiet
  BY <1>0, <1>1, <1>5 DEF Request, Idle
<1>6. ASSUME NEW id, NEW b \in Bmcs, NEW inv, Update(w, id, b, inv) PROVE Quiet
  BY <1>0, <1>1, <1>6 DEF Update, Idle
<1>7. ASSUME NEW id, NEW b \in Bmcs, InventoryReport(w, id, b) PROVE Quiet
  BY <1>0, <1>1, <1>7 DEF InventoryReport, Idle
<1>8. ASSUME NEW k, UnassignCluster(w, k) PROVE Quiet
  BY <1>0, <1>1, <1>8 DEF UnassignCluster, Idle
<1>9. ASSUME NEW id, Fetch(w, id) PROVE Quiet
  BY <1>0, <1>1, <1>9 DEF Fetch, Idle
<1>10. ASSUME NEW id \in used, NEW s \in Slots, Assign(w, id, s) PROVE SlotInv'
  <2>1. /\ Others /\ UNCHANGED <<file, stale, skipped>>
        /\ work'[w].gets = {s} /\ work'[w].id = id
        /\ work'[w].todo = {x \in Ids \ {id} : exists(x)}
    BY <1>0, <1>10 DEF Assign, Idle
  <2>2. NoNew
    BY <1>1, <2>1
  <2>3. clash => clash'
    BY <1>10 DEF Assign
  <2>4. ~clash' => \A v \in Workers \ {w} : work[v].op = "assign" => work[v].gets \cap {s} = {}
    BY <1>10 DEF Assign
  <2>5. ClearedFor(w)'
    BY <2>1 DEF ClearedFor, Holds, exists
  <2> QED BY <1>0, <2>1, <2>2, <2>3, <2>4, <2>5, SlotKept
<1>11. CASE Quiet
  BY <1>0, <1>11, SlotOther
<1> QED
  BY <1>3, <1>4, <1>5, <1>6, <1>7, <1>8, <1>9, <1>10, <1>11 DEF Requests, Unassign, Delete

\* The one step that assigns: the loop has left nobody else with the slot.
LEMMA SlotAssigned ==
    ASSUME TypeInv, SlotInv, NEW w \in Workers, ScanEnds(w), work[w].op = "assign"
    PROVE  SlotInv'
<1> DEFINE id == work[w].id
           got == work[w].gets
<1>0. /\ work \in [Workers -> WorkRecords] /\ file \in [Ids -> Files]
      /\ id \in Ids /\ work[w].copy \in Records /\ got \subseteq Slots
  BY DEF TypeInv, MachinesTypeOK, WorkInv, WorkOK, WorkRecords
<1>1. /\ \A v \in Workers \ {w} : work'[v] = work[v]
      /\ work'[w].op = "none" /\ clash' = clash /\ skipped' = skipped
      /\ work[w].pc = "scan" /\ work[w].todo = {}
      /\ file' = [file EXCEPT ![id] = [work[w].copy EXCEPT !.assignments = @ \cup got]]
      /\ stale' = (stale \/ file[id] # work[w].copy)
  BY <1>0 DEF ScanEnds, Return, Idle
<1>2. Apart'
  BY <1>1 DEF SlotInv, Apart
<1>3. ASSUME ~stale', ~clash' PROVE ~stale /\ ~clash /\ file[id] = work[w].copy
  BY <1>1, <1>3
<1>4. ASSUME ~stale', ~clash', NEW x \in Ids, NEW s \in Slots \ skipped, Holds(x, s)'
      PROVE  (s \in got /\ x = id) \/ (s \notin got /\ Holds(x, s))
  <2>1. ~stale /\ ~clash /\ file[id] = work[w].copy
    BY <1>3, <1>4
  <2>2. CASE x = id
    <3>1. file'[x].assignments = file[x].assignments \cup got
      BY <1>0, <1>1, <2>1, <2>2 DEF Records
    <3> QED BY <1>0, <1>4, <2>1, <2>2, <3>1, RecordFacts DEF Holds, exists
  <2>3. CASE x # id
    <3>1. Holds(x, s)
      BY <1>0, <1>1, <1>4, <2>3 DEF Holds, exists
    <3>2. s \notin got
      BY <1>1, <2>1, <2>3, <3>1 DEF SlotInv, Cleared, ClearedFor
    <3> QED BY <3>1, <3>2
  <2> QED BY <2>2, <2>3
<1>5. Single'
  BY <1>1, <1>3, <1>4 DEF SlotInv, Single
<1>6. Cleared'
  <2> SUFFICES ASSUME ~stale', ~clash', NEW v \in Workers PROVE ClearedFor(v)'
    BY DEF Cleared
  <2>1. CASE v = w
    BY <1>1, <2>1 DEF ClearedFor
  <2>2. CASE v # w
    <3>1. ClearedFor(v) /\ work'[v] = work[v] /\ work[v].gets \subseteq Slots
      BY <1>0, <1>1, <1>3, <2>2 DEF SlotInv, Cleared, WorkRecords
    <3>2. work[v].op = "assign" => work[v].gets \cap got = {}
      BY <1>3, <2>2 DEF SlotInv, Apart
    <3> QED BY <1>1, <1>4, <3>1, <3>2 DEF ClearedFor
  <2> QED BY <2>1, <2>2
<1> QED BY <1>2, <1>5, <1>6 DEF SlotInv

\* The steps of a request: only the end of an assignment adds to a record.
LEMMA SlotSteps ==
    ASSUME TypeInv, SlotInv, NEW w \in Workers, Works(w)
    PROVE  SlotInv'
<1> DEFINE Others == \A v \in Workers \ {w} : work'[v] = work[v]
<1>0. /\ work \in [Workers -> WorkRecords] /\ file \in [Ids -> Files] /\ WorkInv
      /\ work[w] \in WorkRecords /\ WorkOK(work[w], used) /\ used \subseteq Ids
  BY DEF TypeInv, MachinesTypeOK, WorkInv
<1>1. ASSUME UNCHANGED file PROVE NoNew
  BY <1>1 DEF NoNew, Holds, exists
<1>2. ASSUME Return(w) PROVE Others /\ work'[w].op # "assign"
  BY <1>0, <1>2 DEF Return, Idle
<1>3. CASE FetchClaims(w)
  <2>1. Others /\ work'[w].op # "assign"
    BY <1>0, <1>3 DEF FetchClaims, Return, Goto, Idle, WorkOK, WorkRecords
  <2> QED BY <1>0, <1>1, <1>3, <2>1, SlotOther DEF FetchClaims
<1>4. CASE Discover(w)
  <2>1. Others /\ work'[w].op # "assign"
    BY <1>0, <1>4 DEF Discover, WorkRecords
  <2> QED BY <1>0, <1>1, <1>4, <2>1, SlotOther DEF Discover
<1>5. CASE Read(w)
  <2>1. Others /\ work'[w].op # "assign"
    <3>1. CASE exists(work[w].id)
      BY <1>0, <1>5, <3>1 DEF Read, WorkOK, WorkRecords
    <3>2. CASE ~exists(work[w].id)
      BY <1>2, <1>5, <3>2 DEF Read, Ends
    <3> QED BY <3>1, <3>2
  <2> QED BY <1>0, <1>1, <1>5, <2>1, SlotOther DEF Read
<1>6. CASE Write(w)
  <2> DEFINE id == work[w].id
  <2>1. Others /\ work'[w].op # "assign"
    BY <1>0, <1>6 DEF Write, Ends, Return, Goto, Idle, WorkOK, WorkRecords
  <2>2. id \in Ids /\ work[w].copy \in Records /\ work[w].op \in Changes
    BY <1>0, <1>6 DEF Write, WorkOK
  <2>3. changed(work[w].copy, w).assignments \subseteq work[w].copy.assignments
    BY <1>0, <2>2, ChangedFacts
  <2>4. /\ file' = [file EXCEPT ![id] = changed(work[w].copy, w)]
        /\ stale' = (stale \/ file[id] # work[w].copy) /\ clash' = clash /\ skipped' = skipped
    BY <1>6 DEF Write
  <2>5. ~stale' => NoNew
    BY <1>0, <2>2, <2>3, <2>4, RecordFacts DEF NoNew, Holds, exists
  <2> QED BY <1>0, <2>1, <2>4, <2>5, SlotOther
<1>7. CASE Remove(w)
  <2>1. NoNew
    BY <1>0, <1>7 DEF Remove, NoNew, Holds, exists, WorkOK
  <2> QED BY <1>0, <1>2, <1>7, <2>1, SlotOther DEF Remove
<1>8. CASE ScanWrites(w)
  <2> DEFINE x == work[w].other
             r == work[w].read
  <2>1. x \in Ids /\ r \in Records
    BY <1>0, <1>8 DEF ScanWrites, WorkOK
  <2>2. /\ file' = [file EXCEPT ![x] = [r EXCEPT !.assignments = @ \ work[w].gets]]
        /\ stale' = (stale \/ file[x] # r) /\ clash' = clash /\ skipped' = skipped
    BY <1>8 DEF ScanWrites
  <2>3. /\ Others /\ work'[w].op = work[w].op /\ work'[w].gets = work[w].gets
        /\ work'[w].id = work[w].id /\ work'[w].todo = work[w].todo
        /\ work[w].pc = "clear" /\ work'[w].pc = "scan"
    BY <1>0, <1>8 DEF ScanWrites, Goto, WorkRecords
  <2>4. ~stale' => file'[x].assignments = file[x].assignments \ work[w].gets
    BY <1>0, <2>1, <2>2 DEF Records
  <2>5. ~stale' => NoNew
    BY <1>0, <2>1, <2>2, <2>4, RecordFacts DEF NoNew, Holds, exists
  <2>6. ~stale' /\ ~clash' => ClearedFor(w)'
    <3> SUFFICES ASSUME ~stale', ~clash', work[w].op = "assign",
                        NEW s \in work[w].gets \ skipped, NEW y \in Ids, Holds(y, s)'
                 PROVE  y = work[w].id \/ y \in work[w].todo
      BY <2>2, <2>3 DEF ClearedFor
    <3>1. y # x /\ Holds(y, s)
      BY <1>0, <2>1, <2>2, <2>4 DEF Holds, exists, WorkRecords
    <3> QED BY <2>2, <3>1 DEF SlotInv, Cleared, ClearedFor
  <2>7. ~clash' /\ work'[w].op = "assign" =>
            \A v \in Workers \ {w} : work[v].op = "assign"
                => work[v].gets \cap work'[w].gets = {}
    BY <2>2, <2>3 DEF SlotInv, Apart
  <2> QED BY <1>0, <2>2, <2>3, <2>5, <2>6, <2>7, SlotKept
<1>9. CASE ScanEnds(w)
  <2>1. CASE work[w].op # "assign"
    BY <1>0, <1>1, <1>2, <1>9, <2>1, SlotOther DEF ScanEnds
  <2> QED BY <1>9, <2>1, SlotAssigned
<1>10. ASSUME NEW x \in Ids, ScanReads(w, x) PROVE SlotInv'
  <2> DEFINE at == IF exists(x) /\ file[x].assignments \cap work[w].gets # {}
                   THEN "clear" ELSE "scan"
  <2>1. /\ Others /\ work'[w].op = work[w].op /\ work'[w].gets = work[w].gets
        /\ work'[w].id = work[w].id /\ work'[w].todo = work[w].todo \ {x}
        /\ work'[w].other = x /\ work[w].pc = "scan" /\ work'[w].pc = at
        /\ UNCHANGED <<file, stale, clash, skipped>>
    BY <1>0, <1>10 DEF ScanReads, WorkRecords
  <2>2. ~stale' /\ ~clash' => ClearedFor(w)'
    <3> SUFFICES ASSUME ~stale', ~clash', work[w].op = "assign",
                        NEW s \in work[w].gets \ skipped, NEW y \in Ids, Holds(y, s), y # work[w].id, y \notin work[w].todo \ {x}
                 PROVE  at = "clear" /\ y = x
      BY <2>1 DEF ClearedFor, Holds, exists
    <3>1. y = x
      BY <2>1 DEF SlotInv, Cleared, ClearedFor
    <3> QED BY <3>1 DEF Holds
  <2>3. ~clash' /\ work'[w].op = "assign" =>
            \A v \in Workers \ {w} : work[v].op = "assign"
                => work[v].gets \cap work'[w].gets = {}
    BY <2>1 DEF SlotInv, Apart
  <2>4. NoNew
    BY <1>1, <2>1
  <2> QED BY <1>0, <2>1, <2>2, <2>3, <2>4, SlotKept
<1>11. CASE WriteFails(w) \/ ScanFails(w)
  BY <1>0, <1>1, <1>2, <1>11, SlotOther DEF WriteFails, ScanFails, Ends
<1>12. ASSUME NEW x \in Ids, ScanSkips(w, x) PROVE SlotInv'
  <2>1. /\ Others /\ work'[w].op = work[w].op /\ work'[w].gets = work[w].gets
        /\ work'[w].id = work[w].id /\ work'[w].todo = work[w].todo \ {x}
        /\ work[w].pc = "scan" /\ work'[w].pc = "scan"
        /\ UNCHANGED <<file, stale, clash>> /\ skipped \subseteq skipped'
    BY <1>0, <1>12 DEF ScanSkips, WorkRecords
  <2>2. ~stale' /\ ~clash' => ClearedFor(w)'
    <3> SUFFICES ASSUME ~stale', ~clash', work[w].op = "assign",
                        NEW s \in work[w].gets \ skipped', NEW y \in Ids, Holds(y, s),
                        y # work[w].id, y \notin work[w].todo \ {x}
                 PROVE  FALSE
      BY <2>1 DEF ClearedFor, Holds, exists
    <3>1. y = x
      BY <2>1 DEF SlotInv, Cleared, ClearedFor
    <3>2. s \in skipped'
      BY <1>12, <3>1 DEF Holds, ScanSkips
    <3> QED BY <3>2
  <2>3. ~clash' /\ work'[w].op = "assign" =>
            \A v \in Workers \ {w} : work[v].op = "assign"
                => work[v].gets \cap work'[w].gets = {}
    BY <2>1 DEF SlotInv, Apart
  <2>4. NoNew
    BY <1>1, <2>1
  <2> QED BY <1>0, <2>1, <2>2, <2>3, <2>4, SlotKept
<1> QED
  BY <1>3, <1>4, <1>5, <1>6, <1>7, <1>8, <1>9, <1>10, <1>11, <1>12 DEF Steps, Works

\* Every step keeps the assignment one to one.
LEMMA SlotNext == TypeInv /\ SlotInv /\ [Next]_vars => SlotInv'
<1> SUFFICES ASSUME TypeInv, SlotInv, [Next]_vars PROVE SlotInv'
  OBVIOUS
<1>1. CASE Restart
  <2>1. /\ UNCHANGED <<file, stale, clash, skipped>>
        /\ \A v \in Workers : work'[v].op = "none"
    BY <1>1 DEF Restart, Idle
  <2>2. Single'
    BY <2>1 DEF SlotInv, Single, Holds, exists
  <2>3. Apart' /\ Cleared'
    BY <2>1 DEF Apart, Cleared, ClearedFor
  <2> QED BY <2>2, <2>3 DEF SlotInv
<1>2. CASE UNCHANGED vars
  BY <1>2 DEF vars, SlotInv, Apart, Cleared, ClearedFor, Single, Holds, exists
<1> QED BY <1>1, <1>2, SlotRequests, SlotSteps DEF Next, Works

\* Assign keeps the assignment of machines to nodes one to one, for any number
\* of machines, clusters, concurrent requests, failed reads and writes and
\* restarts, as long as no two assignments to one node overlap and no request
\* writes back an old copy, but for the nodes whose former machine Assign
\* could not read and passed over.
THEOREM OneToOneAlways == Spec => []OneToOne
<1>1. Init => TypeInv /\ SlotInv
  <2>1. ASSUME Init PROVE SlotInv
    <3>1. \A x \in Ids : \A s \in Slots : ~Holds(x, s)
      <4> TAKE x \in Ids
      <4> TAKE s \in Slots
      <4>1. file[x] = NoFile \/ \E b \in Bmcs : file[x] = NewRecord(b)
        BY <2>1 DEF Init
      <4>2. \A b \in Bmcs : NewRecord(b).assignments = {}
        BY DEF NewRecord
      <4> QED BY <4>1, <4>2 DEF Holds, exists
    <3>2. \A w \in Workers : work[w].op = "none"
      BY <2>1 DEF Init, Idle
    <3> QED BY <3>1, <3>2 DEF SlotInv, Apart, Cleared, ClearedFor, Single
  <2> QED BY <2>1, TypeInit
<1>2. TypeInv /\ SlotInv /\ [Next]_vars => (TypeInv /\ SlotInv)'
  BY TypeNext, SlotNext
<1>3. SlotInv => OneToOne
  <2> SUFFICES ASSUME SlotInv, ~stale, ~clash, NEW s \in Slots \ skipped
               PROVE  Cardinality(holders(s)) <= 1
    BY DEF OneToOne
  <2>1. \A x, y \in holders(s) : x = y
    BY DEF SlotInv, Single, Holds, holders
  <2>2. CASE holders(s) = {}
    BY <2>2, FS_EmptySet
  <2>3. CASE holders(s) # {}
    <3>1. PICK x : x \in holders(s)
      BY <2>3
    <3>2. holders(s) = {x}
      BY <2>1, <3>1
    <3>3. Cardinality({x}) = 1
      BY FS_Singleton
    <3> QED BY <3>2, <3>3
  <2> QED BY <2>2, <2>3
<1> QED BY <1>1, <1>2, <1>3, PTL DEF Spec

(***************************************************************************)
(* What a weaker fetch leaves alone                                        *)
(***************************************************************************)

\* No operation forgets the network cards of a machine: neither an IPMI
\* fallback nor an edit, an assignment or a failed fetch.
THEOREM RichFactsAlways == Spec => RichFactsKept
<1> DEFINE Kept(id) == exists(id) /\ exists(id)' /\ file[id].nics # None /\ ~stale'
                           => file'[id].nics # None
<1>1. ASSUME TypeInv, [Next]_vars, NEW id \in Ids PROVE Kept(id)
  <2>0. /\ work \in [Workers -> WorkRecords] /\ file \in [Ids -> Files] /\ used \subseteq Ids
        /\ \A w \in Workers : WorkOK(work[w], used)
        /\ exists(id) => id \in used
    BY <1>1 DEF TypeInv, MachinesTypeOK, WorkInv, UsedInv
  <2>1. ASSUME NEW w \in Workers, Requests(w) PROVE Kept(id)
    <3>1. UNCHANGED file \/ \E x \in Ids, b \in Bmcs :
                x \notin used /\ file' = [file EXCEPT ![x] = NewRecord(b)]
      BY <2>1 DEF Requests, Create, Import, Request, Unassign, Delete, Update,
                  InventoryReport, Assign, UnassignCluster, Fetch
    <3> QED BY <2>0, <3>1
  <2>2. ASSUME NEW w \in Workers, Write(w) PROVE Kept(id)
    <3>1. work[w].id \in Ids /\ work[w].copy \in Records /\ work[w].op \in Changes
      BY <2>0, <2>2 DEF Write, WorkOK
    <3>2. work[w].copy.nics # None => changed(work[w].copy, w).nics # None
      BY <2>0, <3>1, ChangedFacts
    <3>3. /\ file' = [file EXCEPT ![work[w].id] = changed(work[w].copy, w)]
          /\ stale' = (stale \/ file[work[w].id] # work[w].copy)
      BY <2>2 DEF Write
    <3> QED BY <2>0, <3>1, <3>2, <3>3
  <2>3. ASSUME NEW w \in Workers, ScanWrites(w) PROVE Kept(id)
    <3> DEFINE x == work[w].other
               r == work[w].read
    <3>1. x \in Ids /\ r \in Records
      BY <2>0, <2>3 DEF ScanWrites, WorkOK
    <3>2. /\ file' = [file EXCEPT ![x] = [r EXCEPT !.assignments = @ \ work[w].gets]]
          /\ stale' = (stale \/ file[x] # r)
      BY <2>3 DEF ScanWrites
    <3> QED BY <2>0, <3>1, <3>2 DEF Records
  <2>4. ASSUME NEW w \in Workers, ScanEnds(w), work[w].op = "assign" PROVE Kept(id)
    <3>1. work[w].id \in Ids /\ work[w].copy \in Records
      BY <2>0, <2>4 DEF WorkOK
    <3>2. /\ file' = [file EXCEPT ![work[w].id] =
                            [work[w].copy EXCEPT !.assignments = @ \cup work[w].gets]]
          /\ stale' = (stale \/ file[work[w].id] # work[w].copy)
      BY <2>4 DEF ScanEnds
    <3> QED BY <2>0, <3>1, <3>2 DEF Records
  <2>5. ASSUME NEW w \in Workers, Remove(w) PROVE Kept(id)
    BY <2>0, <2>5 DEF Remove, exists, WorkOK
  <2>6. ASSUME UNCHANGED file PROVE Kept(id)
    BY <2>6
  <2>7. ASSUME NEW w \in Workers, Works(w) PROVE Kept(id)
    <3>1. \/ Write(w) \/ ScanWrites(w) \/ Remove(w)
          \/ ScanEnds(w) /\ work[w].op = "assign"
          \/ UNCHANGED file
      BY <2>7 DEF Steps, FetchClaims, Discover, Read, ScanEnds, ScanReads, WriteFails, ScanFails,
                      ScanSkips, Works
    <3> QED BY <2>2, <2>3, <2>4, <2>5, <2>6, <3>1
  <2>8. CASE Restart \/ UNCHANGED vars
    BY <2>6, <2>8 DEF Restart, vars
  <2> QED BY <1>1, <2>1, <2>7, <2>8 DEF Next, Works
<1>2. TypeInv /\ [Next]_vars => [\A id \in Ids : Kept(id)]_vars
  BY <1>1
<1>3. Spec => []TypeInv
  BY TypeInit, TypeNext, PTL DEF Spec
<1> QED BY <1>2, <1>3, PTL DEF Spec, RichFactsKept
=============================================================================
