------------------------ MODULE SchemaLifecycleProofs ------------------------
(***************************************************************************)
(* Machine-checked proofs about the life of a database, for any number of  *)
(* clients, VMs, slots and writes and any set of offload jobs and reapers. *)
(* That no acknowledged write is lost, that a session sees all of them and *)
(* that a serving VM is never killed is proved of every behaviour up to    *)
(* the first of the races that SchemaLifecycle names (races): the          *)
(* inductive invariant is races = {} => SerialInv.                         *)
(***************************************************************************)
EXTENDS SchemaLifecycle, FiniteSetTheorems, TLAPS

-----------------------------------------------------------------------------
(* Types *)

VmStates == {"unborn", "spare", "running", "stopped", "gone"}
ClientPcs == {"idle", "start", "checked", "warm", "init", "boot", "ready", "bind", "admit", "session"}
OffPcs == {"idle", "evict", "boot", "dump", "image", "upload", "undump", "mark", "kill", "unlink"}
ClientType == [pc : ClientPcs, cell : Cells \cup {None}, src : Sources,
               known : VMs \cup {None}, vm : VMs \cup {None}, made : BOOLEAN]
OffType == [pc : OffPcs, kind : AllKinds \cup {"frozen", "compacted"}, vm : VMs \cup {None}]
Entries == [vm : VMs, up : BOOLEAN]
LiveRow(v) == [id |-> v, tier |-> "live"]

Outside == {"idle", "start", "checked"}
Promotes == {"frozen", "compacted"}

\* A checkout has its cell from the lookup on, and its VM from the boot on.
ClientShape ==
    \A c \in Clients :
        /\ client[c].cell \in Cells <=> client[c].pc \notin Outside
        /\ client[c].pc \in {"ready", "bind"} => client[c].vm \in VMs
        /\ client[c].pc \in {"init", "boot"} => ~client[c].made

\* An offload has a row, and from its eviction on the VM of the row.
OffShape ==
    /\ off.pc # "idle" => row # None
    /\ off.kind # "promote"
    /\ off.pc \in {"upload", "unlink"} => off.kind \in Promotes
    /\ off.pc \in {"evict", "boot", "dump", "image", "kill"} => off.kind \notin Promotes
    /\ off.pc \in {"boot", "dump"} => off.kind \in {"archive", "freeze"}
    /\ off.pc = "image" => off.kind \in {"compact", "image"}
    /\ off.pc = "undump" => off.kind \in {"image", "compacted"}
    /\ off.pc \in {"boot", "dump", "image", "undump", "mark", "kill"} /\ off.kind \notin Promotes =>
          off.vm \in VMs

Types ==
    /\ vm \in [VMs -> VmStates] /\ disk \in [VMs -> Contents]
    /\ copies \in [Files -> Contents \cup {None}]
    /\ row \in Rows /\ durable \in Rows
    /\ map \in Cells \cup {None} /\ cell \in [Cells -> Entries \cup {None}]
    /\ client \in [Clients -> ClientType] /\ off \in OffType
    /\ cached \in VMs \cup {None}
    /\ reaping \in VMs \cup {None} /\ purging \in VMs \cup {None}
    /\ suspects \subseteq VMs /\ confirmed \subseteq VMs
    /\ acked \in 0..MaxWrites

Shape == Types /\ ClientShape /\ OffShape

-----------------------------------------------------------------------------
(* The pooler before the first race *)

\* An entry is kept while its cell is held, and one that still reaches a running
\* VM is the current one, and of the VM that a live row names or will name.
Serving(k) == \/ row = LiveRow(cell[k].vm)
              \/ \E c \in Clients : Unbound(c) /\ client[c].cell = k
CellInv ==
    \A k \in Cells : cell[k] # None =>
        /\ k = map \/ \E c \in Clients : client[c].cell = k
        /\ Alive(k) => k = map /\ Serving(k)

\* The row that a checkout read before its bring-up is still the row.
Uninit(c) == client[c].pc \in {"init", "boot", "ready"} /\ cell[client[c].cell] = None
CheckoutInv ==
    \A c \in Clients :
        /\ client[c].pc \in {"warm", "bind", "admit", "session"} => cell[client[c].cell] # None
        /\ client[c].pc \in {"boot", "ready"} => cell[client[c].cell] = None
        /\ Uninit(c) => /\ client[c].cell = map /\ client[c].src = RestoreOf(row)
                        /\ client[c].known = IF row = None THEN None ELSE row.id
        /\ client[c].pc \in {"init", "bind"} /\ cell[client[c].cell] # None => Serving(client[c].cell)
        /\ client[c].pc = "bind" => client[c].vm = cell[client[c].cell].vm

\* One bring-up at a time; it is on the VM of a live row, and made none then.
BringUpInv ==
    /\ \A c, d \in Clients :
          client[c].pc \in {"boot", "ready"} /\ client[d].pc \in {"boot", "ready"} => c = d
    /\ \A c \in Clients : client[c].pc = "ready" =>
          /\ row # None /\ row.tier = "live" => client[c].vm = row.id /\ ~client[c].made
          /\ client[c].src \in {"compacted", "image"} => 1..acked \subseteq disk[client[c].vm]

\* A bring-up that is not recorded yet: its VM has every acknowledged write, the
\* row is the one it replaces, and nobody brings the database up beside it.
UnboundInv ==
    \A c \in Clients : Unbound(c) =>
        /\ row = None \/ row.tier # "live"
        /\ Exists(client[c].vm) /\ 1..acked \subseteq disk[client[c].vm]
        /\ \A d \in Clients : ~Uninit(d) /\ (Unbound(d) => client[d].cell = client[c].cell)

\* What the job of an offload has established at each of its steps.
Holds(f) == copies[f] # None /\ 1..acked \subseteq copies[f]
OffInv ==
    /\ Archiving => InFlight = {}
    /\ off.pc \in {"evict", "boot", "dump", "image", "undump", "mark"} /\ off.kind \notin Promotes =>
          row.tier = "live" /\ (off.pc # "evict" => off.vm = row.id /\ map = None)
    /\ off.pc \in {"upload", "undump", "mark"} /\ off.kind \in Promotes => row.tier = off.kind
    /\ off.pc \in {"undump", "mark"} /\ off.kind \in {"image", "compacted"} => Holds("image")
    /\ off.pc = "mark" /\ off.kind \in {"image", "compacted"} => copies["dump"] = None
    /\ off.pc = "mark" /\ off.kind \in {"archive", "frozen"} => Holds("dump")
    /\ off.pc = "mark" /\ off.kind = "freeze" => Holds("frozen")
    /\ off.pc = "mark" /\ off.kind = "compact" => Holds("compacted")
    /\ off.pc = "kill" => row.tier # "live"
    /\ off.pc = "unlink" => row.tier = "archived"

\* The row names a place that holds every acknowledged write; one that a bring-up
\* is about to replace may be behind.
PlaceInv ==
    /\ row # None /\ row.tier = "live" => Exists(row.id) /\ 1..acked \subseteq disk[row.id]
    /\ (\A c \in Clients : ~Unbound(c)) =>
          /\ row = None => acked = 0
          /\ row # None /\ row.tier # "live" => Holds(RestoreOf(row))

SerialInv == Shape /\ CellInv /\ CheckoutInv /\ BringUpInv /\ UnboundInv /\ OffInv /\ PlaceInv

-----------------------------------------------------------------------------
(* Records *)

\* The type invariant of the specification, by its parts.
LEMMA TypesOK == TypeOK <=> Types /\ races \subseteq Races
  BY DEF Types, TypeOK, ClientType, OffType, VmStates, ClientPcs, OffPcs, Entries

\* What the assumption says of the constants.
LEMMA Constants ==
    /\ MaxVMs \in Nat /\ MaxWrites \in Nat /\ Slots \in Nat /\ Slots > 0
    /\ Spares \subseteq VMs /\ VMs \subseteq Nat
    /\ IsFiniteSet(Clients) /\ Cardinality(Clients) \in Nat
    /\ None \notin VMs /\ None \notin Cells /\ None \notin Contents /\ None \notin Entries
    /\ None \notin [id : VMs, tier : Tiers]
  BY LifecycleAssumption, FS_CardinalityType DEF VMs, Entries

\* A row that is there has an id and a tier.
LEMMA RowFields ==
    /\ \A r \in Rows : r # None => r.id \in VMs /\ r.tier \in Tiers /\ r = [id |-> r.id, tier |-> r.tier]
    /\ \A v \in VMs, t \in Tiers : [id |-> v, tier |-> t] \in Rows /\ [id |-> v, tier |-> t] # None
    /\ \A v \in VMs : LiveRow(v) \in Rows /\ LiveRow(v) # None /\ LiveRow(v).id = v /\ LiveRow(v).tier = "live"
  BY Constants DEF Rows, LiveRow, Tiers

\* So has an entry its VM.
LEMMA EntryFields ==
    /\ \A x \in Entries \cup {None} : x # None => x \in Entries /\ x.vm \in VMs /\ x.up \in BOOLEAN
    /\ \A v \in VMs, u \in BOOLEAN : [vm |-> v, up |-> u] \in Entries /\ [vm |-> v, up |-> u] # None
  BY Constants DEF Entries

\* A connection without a checkout.
LEMMA NoClientFields ==
    /\ NoClient \in ClientType /\ NoClient.pc = "idle" /\ NoClient.cell = None /\ NoClient.src = "none"
    /\ NoClient.known = None /\ NoClient.vm = None /\ ~NoClient.made
    /\ NoOff \in OffType /\ NoOff.pc = "idle" /\ NoOff.kind = "archive" /\ NoOff.vm = None
  BY DEF NoClient, ClientType, ClientPcs, Sources, Files, NoOff, OffType, OffPcs, AllKinds

\* The fields of a record of the types.
LEMMA TypeFields ==
    /\ \A r \in ClientType : /\ r.pc \in ClientPcs /\ r.cell \in Cells \cup {None} /\ r.src \in Sources
                             /\ r.known \in VMs \cup {None} /\ r.vm \in VMs \cup {None}
                             /\ r.made \in BOOLEAN
    /\ \A r \in OffType : /\ r.pc \in OffPcs /\ r.kind \in AllKinds \cup Promotes
                          /\ r.vm \in VMs \cup {None}
  BY DEF ClientType, OffType, Promotes

\* One field of a checkout changes.
LEMMA SetField ==
    ASSUME NEW r \in ClientType
    PROVE  /\ \A p \in ClientPcs :
                 LET s == [r EXCEPT !.pc = p] IN
                 /\ s \in ClientType /\ s.pc = p /\ s.cell = r.cell /\ s.src = r.src
                 /\ s.known = r.known /\ s.vm = r.vm /\ s.made = r.made
           /\ \A k \in Cells \cup {None} :
                 LET s == [r EXCEPT !.cell = k] IN
                 /\ s \in ClientType /\ s.cell = k /\ s.pc = r.pc /\ s.src = r.src
                 /\ s.known = r.known /\ s.vm = r.vm /\ s.made = r.made
           /\ \A f \in Sources :
                 LET s == [r EXCEPT !.src = f] IN
                 /\ s \in ClientType /\ s.src = f /\ s.pc = r.pc /\ s.cell = r.cell
                 /\ s.known = r.known /\ s.vm = r.vm /\ s.made = r.made
           /\ \A v \in VMs \cup {None} :
                 LET s == [r EXCEPT !.known = v] IN
                 /\ s \in ClientType /\ s.known = v /\ s.pc = r.pc /\ s.cell = r.cell
                 /\ s.src = r.src /\ s.vm = r.vm /\ s.made = r.made
           /\ \A v \in VMs \cup {None} :
                 LET s == [r EXCEPT !.vm = v] IN
                 /\ s \in ClientType /\ s.vm = v /\ s.pc = r.pc /\ s.cell = r.cell
                 /\ s.src = r.src /\ s.known = r.known /\ s.made = r.made
           /\ \A m \in BOOLEAN :
                 LET s == [r EXCEPT !.made = m] IN
                 /\ s \in ClientType /\ s.made = m /\ s.pc = r.pc /\ s.cell = r.cell
                 /\ s.src = r.src /\ s.known = r.known /\ s.vm = r.vm
  BY DEF ClientType

\* One client changes.
LEMMA SetClient ==
    ASSUME client \in [Clients -> ClientType], NEW c \in Clients, NEW r \in ClientType,
           client' = [client EXCEPT ![c] = r]
    PROVE  client' \in [Clients -> ClientType] /\ client'[c] = r
           /\ \A d \in Clients \ {c} : client'[d] = client[d]
  OBVIOUS

\* Step: only the place of the checkout changes.
LEMMA StepFields ==
    ASSUME client \in [Clients -> ClientType], NEW c \in Clients, NEW p \in ClientPcs, Step(c, p)
    PROVE  /\ client' \in [Clients -> ClientType] /\ \A d \in Clients \ {c} : client'[d] = client[d]
           /\ client'[c].pc = p /\ client'[c].cell = client[c].cell /\ client'[c].src = client[c].src
           /\ client'[c].known = client[c].known /\ client'[c].vm = client[c].vm
           /\ client'[c].made = client[c].made
<1>1. client[c] \in ClientType
  OBVIOUS
<1>2. client' = [client EXCEPT ![c] = [client[c] EXCEPT !.pc = p]]
  BY DEF Step
<1> QED
  BY <1>1, <1>2, SetField, SetClient

\* The fields of an offload.
LEMMA OffFields ==
    ASSUME NEW r \in OffType
    PROVE  /\ \A p \in OffPcs : LET s == [r EXCEPT !.pc = p] IN
                 s \in OffType /\ s.pc = p /\ s.kind = r.kind /\ s.vm = r.vm
           /\ \A k \in AllKinds \cup {"frozen", "compacted"} : LET s == [r EXCEPT !.kind = k] IN
                 s \in OffType /\ s.kind = k /\ s.pc = r.pc /\ s.vm = r.vm
           /\ \A v \in VMs \cup {None} : LET s == [r EXCEPT !.vm = v] IN
                 s \in OffType /\ s.vm = v /\ s.pc = r.pc /\ s.kind = r.kind
  BY DEF OffType

-----------------------------------------------------------------------------
(* Cells and VMs *)

\* There is always a cell that nobody holds for a checkout that needs one.
LEMMA FreeCell ==
    ASSUME Types, map = None
    PROVE  \E k \in Cells : k \notin {client[d].cell : d \in Clients} \cup {map}
<1> DEFINE S == {client[d].cell : d \in Clients}
           n == Cardinality(Clients)
<1>1. SUFFICES ASSUME \A k \in Cells : k \in S
               PROVE  FALSE
  BY Constants
<1>2. IsFiniteSet(Clients) /\ n \in Nat
  BY Constants
<1>3. [d \in Clients |-> client[d].cell] \in Surjection(Clients, S)
  BY DEF Surjection
<1>4. IsFiniteSet(S) /\ Cardinality(S) <= n
  BY <1>2, <1>3, FS_Surjection
<1>5. Cells \in SUBSET S
  BY <1>1
<1>6. Cardinality(Cells) <= Cardinality(S) /\ Cardinality(S) \in Nat
  BY <1>4, <1>5, FS_Subset, FS_CardinalityType
<1>7. Cardinality(Cells) = n + 1
  <2>1. 1 \in Int /\ n + 1 \in Int /\ ~(1 > n + 1) /\ (n + 1) - 1 + 1 = n + 1
    BY <1>2
  <2>2. \A b \in Int : ~(1 > b) => Cardinality(1 .. b) = b - 1 + 1
    BY FS_Interval
  <2> QED
    BY <2>1, <2>2 DEF Cells
<1> QED
  BY <1>2, <1>4, <1>6, <1>7

\* Held keeps the entries of the cells that are held, and drops the others.
LEMMA HeldFields ==
    ASSUME Types, NEW cl, NEW m
    PROVE  /\ Held(cl, m) \in [Cells -> Entries \cup {None}]
           /\ \A k \in Cells : /\ Held(cl, m)[k] \in {cell[k], None}
                               /\ k = m \/ (\E c \in Clients : cl[c].cell = k) => Held(cl, m)[k] = cell[k]
                               /\ Held(cl, m)[k] # None => k = m \/ \E c \in Clients : cl[c].cell = k
  BY DEF Held, Types

\* A start of a VM takes the tunnels of its entries away, and changes nothing else.
LEMMA AfterStartFields ==
    ASSUME Types, NEW v \in VMs
    PROVE  /\ AfterStart(v) \in [Cells -> Entries \cup {None}]
           /\ \A k \in Cells :
                 /\ AfterStart(v)[k] = None <=> cell[k] = None
                 /\ cell[k] # None => AfterStart(v)[k].vm = cell[k].vm /\ (AfterStart(v)[k].up => cell[k].up)
                 /\ cell[k] # None /\ cell[k].vm = v /\ AfterStart(v)[k].up => vm[v] = "running"
<1>1. \A k \in Cells : cell[k] \in Entries \cup {None}
  BY DEF Types
<1>2. \A x \in Entries : LET y == [x EXCEPT !.up = FALSE] IN y \in Entries /\ y.vm = x.vm /\ y.up = FALSE
  BY DEF Entries
<1>3. ASSUME NEW k \in Cells
      PROVE  /\ AfterStart(v)[k] \in Entries \cup {None}
             /\ AfterStart(v)[k] = None <=> cell[k] = None
             /\ cell[k] # None => AfterStart(v)[k].vm = cell[k].vm /\ (AfterStart(v)[k].up => cell[k].up)
             /\ cell[k] # None /\ cell[k].vm = v /\ AfterStart(v)[k].up => vm[v] = "running"
  <2>1. CASE cell[k] # None /\ cell[k].vm = v /\ vm[v] # "running"
    <3>1. AfterStart(v)[k] = [cell[k] EXCEPT !.up = FALSE] /\ cell[k] \in Entries
      BY <1>1, <2>1 DEF AfterStart
    <3>2. /\ AfterStart(v)[k] \in Entries /\ AfterStart(v)[k].vm = cell[k].vm /\ AfterStart(v)[k].up = FALSE
      BY <1>2, <3>1
    <3> QED
      BY <2>1, <3>2, Constants
  <2>2. CASE ~(cell[k] # None /\ cell[k].vm = v /\ vm[v] # "running")
    <3>1. AfterStart(v)[k] = cell[k]
      BY <2>2 DEF AfterStart
    <3> QED
      BY <1>1, <2>2, <3>1
  <2> QED
    BY <2>1, <2>2
<1>4. AfterStart(v) = [k \in Cells |-> AfterStart(v)[k]]
  BY DEF AfterStart
<1> QED
  BY <1>3, <1>4

\* A stop keeps the VM, and nothing that does not run is started by it.
LEMMA StopFields ==
    ASSUME Types, NEW s
    PROVE  /\ Stop(s) \in [VMs -> VmStates]
           /\ \A v \in VMs : /\ Stop(s)[v] \in {"running", "stopped"} <=> Exists(v)
                             /\ Stop(s)[v] = "running" => vm[v] = "running"
                             /\ Stop(s)[v] = "gone" => vm[v] = "gone"
  BY DEF Stop, Types, VmStates, Exists

\* The sandboxes a bring-up may end up on.
LEMMA ResolvedFields ==
    ASSUME Types, NEW known \in VMs \cup {None}, NEW pool
    PROVE  /\ \A b \in Resolved(known, pool) : b[1] \in VMs /\ b[2] \in BOOLEAN
           /\ \A b \in Vehicles : b[1] \in VMs /\ b[2] = TRUE
           /\ known # None /\ Exists(known) =>
                 \A b \in Resolved(known, pool) : b[1] = known => b[2] = FALSE
<1>1. Fresh \subseteq VMs /\ Warmed \subseteq VMs /\ Spares \subseteq VMs
  BY Constants DEF Fresh, Unborn, Warmed
<1>2. ByName \subseteq VMs
  BY DEF ByName, Named, Types
<1>3. Reattached(known) \subseteq VMs
  BY DEF Reattached
<1>4. \A b \in Vehicles : b[1] \in VMs /\ b[2] = TRUE
  BY <1>1 DEF Vehicles
<1> DEFINE F == Fresh \cup IF pool THEN Warmed ELSE {}
           later == IF ByName # {} THEN ByName \X {FALSE} ELSE F \X {TRUE}
           first == Reattached(known) \X {FALSE}
<1>5. F \subseteq VMs
  BY <1>1
<1>6. \A b \in later : b[1] \in VMs /\ b[2] \in BOOLEAN
  <2> HIDE DEF F
  <2> QED
    BY <1>2, <1>5
<1>7. \A b \in first : b[1] \in VMs /\ b[2] = FALSE /\ b[1] = known
  BY <1>3 DEF Reattached
<1>8. Resolved(known, pool) = IF first = {} THEN later
                              ELSE first \cup IF "reattach" \in Faults /\ cached # known THEN later ELSE {}
  BY DEF Resolved
<1>9. known # None /\ Exists(known) => first # {}
  <2>1. known # None /\ Exists(known) => <<known, FALSE>> \in first
    BY DEF Reattached
  <2> QED
    BY <2>1
<1>10. Exists(known) => \A b \in later : b[1] = known => b[2] = FALSE
  <2>1. Exists(known) => known \notin Fresh \cup Warmed
    BY DEF Exists, Fresh, Unborn, Warmed
  <2>2. Exists(known) => known \notin F
    BY <2>1
  <2> HIDE DEF F
  <2> QED
    BY <2>2
<1> HIDE DEF first, later
<1> QED
  BY <1>4, <1>6, <1>7, <1>8, <1>9, <1>10

-----------------------------------------------------------------------------
(* What a step of a checkout writes *)

OnlyClient(c) ==
    client' \in [Clients -> ClientType] /\ \A d \in Clients \ {c} : client'[d] = client[d]

\* What a restore reads is a file, unless there is no row or a live one.
LEMMA RestoreFields ==
    ASSUME Types, NEW r \in Rows
    PROVE  /\ RestoreOf(r) \in Sources /\ pick_restore \in {"dump", "image"}
           /\ RestoreOf(r) = "none" <=> r = None \/ r.tier = "live"
           /\ RestoreOf(r) # "none" => RestoreOf(r) \in Files
  BY RowFields DEF RestoreOf, pick_restore, Sources, Files, Tiers

\* The lookup joins the current cell or takes a free one.
LEMMA LookupEffect ==
    ASSUME Shape, NEW c \in Clients, Lookup(c)
    PROVE  /\ OnlyClient(c) /\ map' \in Cells /\ client'[c].cell = map'
           /\ client'[c].vm = None /\ ~client'[c].made
           /\ map # None => map' = map
           /\ map = None => \A d \in Clients : client[d].cell # map'
           /\ Warm => client'[c].pc = "warm"
           /\ ~Warm => /\ client'[c].pc = "init" /\ client'[c].src = RestoreOf(row)
                       /\ client'[c].known = IF row = None THEN None ELSE row.id
<1> DEFINE used == {client[d].cell : d \in Clients} \cup {map}
           free == CHOOSE k \in Cells : k \notin used
           mine == IF map = None THEN free ELSE map
           kn   == IF row = None THEN None ELSE row.id
           a == [NoClient EXCEPT !.pc = "warm"]
           b == [NoClient EXCEPT !.pc = "init"]
           b1 == [b EXCEPT !.cell = mine]
           b2 == [b1 EXCEPT !.src = RestoreOf(row)]
           b3 == [b2 EXCEPT !.known = kn]
           a1 == [a EXCEPT !.cell = mine]
<1>1. /\ map' = mine
      /\ client' = [client EXCEPT ![c] = IF Warm THEN a1 ELSE b3]
  BY DEF Lookup
<1>2. Types /\ client \in [Clients -> ClientType] /\ map \in Cells \cup {None} /\ row \in Rows
  BY DEF Shape, Types
<1>3. /\ map # None => mine = map
      /\ map = None => mine \in Cells /\ mine \notin used
  BY <1>2, FreeCell
<1>4. mine \in Cells
  BY <1>2, <1>3
<1>5. kn \in VMs \cup {None} /\ RestoreOf(row) \in Sources /\ "warm" \in ClientPcs /\ "init" \in ClientPcs
  BY <1>2, RowFields, RestoreFields DEF ClientPcs
<1> HIDE DEF mine, kn
<1>6. a1 \in ClientType /\ a1.pc = "warm" /\ a1.cell = mine /\ a1.vm = None /\ ~a1.made
  <2>1. a \in ClientType /\ a.pc = "warm" /\ a.vm = None /\ ~a.made
    BY <1>5, NoClientFields, SetField
  <2> HIDE DEF a
  <2> QED
    BY <1>4, <2>1, SetField
<1>7. b3 \in ClientType /\ b3.pc = "init" /\ b3.cell = mine /\ b3.vm = None /\ ~b3.made
      /\ b3.src = RestoreOf(row) /\ b3.known = kn
  <2>1. b \in ClientType /\ b.pc = "init" /\ b.vm = None /\ ~b.made
    BY <1>5, NoClientFields, SetField
  <2> HIDE DEF b
  <2>2. b1 \in ClientType /\ b1.pc = "init" /\ b1.cell = mine /\ b1.vm = None /\ ~b1.made
    BY <1>4, <2>1, SetField
  <2> HIDE DEF b1
  <2>3. b2 \in ClientType /\ b2.pc = "init" /\ b2.cell = mine /\ b2.vm = None /\ ~b2.made
        /\ b2.src = RestoreOf(row)
    BY <1>5, <2>2, SetField
  <2> HIDE DEF b2
  <2> QED
    BY <1>5, <2>3, SetField
<1> HIDE DEF a1, b3
<1>8. (IF Warm THEN a1 ELSE b3) \in ClientType
  BY <1>6, <1>7
<1>9. OnlyClient(c) /\ client'[c] = IF Warm THEN a1 ELSE b3
  BY <1>1, <1>2, <1>8, SetClient DEF OnlyClient
<1> QED
  BY <1>1, <1>3, <1>4, <1>6, <1>7, <1>9 DEF kn

\* A slot of a warm entry, a refusal, or the eviction of an entry that is dead.
LEMMA AcquireEffect ==
    ASSUME Shape, NEW c \in Clients, Acquire(c)
    PROVE  /\ OnlyClient(c) /\ cell' = Held(client', map')
           /\ \/ client'[c] = NoClient /\ map' = map
              \/ /\ Alive(client[c].cell) /\ map' = map /\ Active(client[c].cell) # Slots
                 /\ client'[c].pc = "session" /\ client'[c].cell = client[c].cell
                 /\ client'[c].made = client[c].made
              \/ /\ ~Alive(client[c].cell) /\ map' = IF map = client[c].cell THEN None ELSE map
                 /\ client'[c].pc = "start" /\ client'[c].cell = None
<1>1. client \in [Clients -> ClientType] /\ "session" \in ClientPcs /\ "start" \in ClientPcs
  BY DEF Shape, Types, ClientPcs
<1> DEFINE s == [NoClient EXCEPT !.pc = "start"]
<1>2. s \in ClientType /\ s.pc = "start" /\ s.cell = None
  BY <1>1, NoClientFields, SetField
<1> HIDE DEF s
<1>3. cell' = Held(client', map')
  BY DEF Acquire
<1>4. CASE Active(client[c].cell) = Slots
  <2>1. client' = [client EXCEPT ![c] = NoClient] /\ map' = map
    BY <1>4 DEF Acquire
  <2> QED
    BY <1>1, <1>3, <2>1, SetClient, NoClientFields DEF OnlyClient
<1>5. CASE Active(client[c].cell) # Slots /\ Alive(client[c].cell)
  <2>1. Step(c, "session") /\ map' = map
    BY <1>5 DEF Acquire
  <2> QED
    BY <1>1, <1>3, <1>5, <2>1, StepFields DEF OnlyClient
<1>6. CASE Active(client[c].cell) # Slots /\ ~Alive(client[c].cell)
  <2>1. client' = [client EXCEPT ![c] = s] /\ map' = IF map = client[c].cell THEN None ELSE map
    BY <1>6 DEF Acquire, s
  <2> QED
    BY <1>1, <1>2, <1>3, <1>6, <2>1, SetClient DEF OnlyClient
<1> QED
  BY <1>4, <1>5, <1>6

\* The entry of another's bring-up, or the turn for one's own.
LEMMA InitEffect ==
    ASSUME Shape, NEW c \in Clients, InitCell(c)
    PROVE  /\ OnlyClient(c) /\ client'[c].cell = client[c].cell /\ client'[c].src = client[c].src
           /\ client'[c].known = client[c].known /\ client'[c].made = client[c].made
           /\ \/ /\ cell[client[c].cell] # None
                 /\ client'[c].pc = "bind" /\ client'[c].vm = cell[client[c].cell].vm
                 /\ client'[c].vm \in VMs
              \/ /\ cell[client[c].cell] = None /\ client'[c].pc = "boot"
                 /\ ~\E d \in Clients : client[d].pc \in {"boot", "ready"} /\ client[d].cell = client[c].cell
<1>1. /\ client \in [Clients -> ClientType] /\ "bind" \in ClientPcs /\ "boot" \in ClientPcs
      /\ client[c].cell \in Cells /\ cell[client[c].cell] \in Entries \cup {None}
  BY DEF Shape, Types, ClientPcs, ClientShape, InitCell, Outside
<1>2. CASE /\ cell[client[c].cell] # None
           /\ client' = [client EXCEPT ![c].pc = "bind", ![c].vm = cell[client[c].cell].vm]
  <2> DEFINE v == cell[client[c].cell].vm
             a == [client[c] EXCEPT !.pc = "bind"]
             b == [a EXCEPT !.vm = v]
  <2>1. v \in VMs
    BY <1>1, <1>2, EntryFields
  <2>2. client' = [client EXCEPT ![c] = b]
    BY <1>2
  <2>3. a \in ClientType /\ a.pc = "bind" /\ a.cell = client[c].cell /\ a.src = client[c].src
        /\ a.known = client[c].known /\ a.made = client[c].made
    BY <1>1, SetField
  <2> HIDE DEF a, v
  <2>4. b \in ClientType /\ b.pc = "bind" /\ b.cell = client[c].cell /\ b.src = client[c].src
        /\ b.known = client[c].known /\ b.made = client[c].made /\ b.vm = v
    BY <2>1, <2>3, SetField
  <2> HIDE DEF b
  <2> QED
    BY <1>1, <1>2, <2>1, <2>2, <2>4, SetClient DEF OnlyClient, v
<1>3. CASE /\ cell[client[c].cell] = None
           /\ ~\E d \in Clients : client[d].pc \in {"boot", "ready"} /\ client[d].cell = client[c].cell
           /\ Step(c, "boot")
  BY <1>1, <1>3, StepFields DEF OnlyClient
<1> QED
  BY <1>2, <1>3 DEF InitCell

\* A VM runs for the bring-up, with the image on its disk if there is one.
LEMMA BootEffect ==
    ASSUME Shape, NEW c \in Clients, Boot(c)
    PROVE  \E b \in Candidates(c) :
              /\ b[1] \in VMs /\ b[2] \in BOOLEAN
              /\ client[c].src \in {"compacted", "image"} => copies[client[c].src] # None
              /\ vm' = [vm EXCEPT ![b[1]] = "running"]
              /\ disk' = IF client[c].src \in {"compacted", "image"}
                         THEN [disk EXCEPT ![b[1]] = copies[client[c].src]] ELSE disk
              /\ cached' = b[1] /\ cell' = AfterStart(b[1])
              /\ OnlyClient(c) /\ client'[c].pc = "ready" /\ client'[c].vm = b[1]
              /\ client'[c].made = b[2] /\ client'[c].cell = client[c].cell
              /\ client'[c].src = client[c].src /\ client'[c].known = client[c].known
              /\ races' = {} /\ client[c].src = "none" => ~PassedOver(client[c].known, b[1])
<1>1. /\ client \in [Clients -> ClientType] /\ "ready" \in ClientPcs /\ Types
      /\ client[c] \in ClientType /\ client[c].known \in VMs \cup {None}
  BY TypeFields DEF Shape, Types, ClientPcs
<1>2. PICK b \in Candidates(c) :
        /\ client[c].src \in {"compacted", "image"} => copies[client[c].src] # None
        /\ vm' = [vm EXCEPT ![b[1]] = "running"]
        /\ disk' = IF client[c].src \in {"compacted", "image"}
                   THEN [disk EXCEPT ![b[1]] = copies[client[c].src]] ELSE disk
        /\ cached' = b[1] /\ cell' = AfterStart(b[1])
        /\ client' = [client EXCEPT ![c].pc = "ready", ![c].vm = b[1], ![c].made = b[2]]
        /\ Race("reattach", client[c].src = "none" /\ PassedOver(client[c].known, b[1]))
  BY DEF Boot
<1>3. b[1] \in VMs /\ b[2] \in BOOLEAN
  <2>1. \A b1 \in Vehicles : b1[1] \in VMs /\ b1[2] = TRUE
    BY <1>1, ResolvedFields
  <2>2. \A k \in VMs \cup {None} : \A b1 \in Resolved(k, TRUE) : b1[1] \in VMs /\ b1[2] \in BOOLEAN
    BY <1>1, ResolvedFields
  <2> QED
    BY <1>1, <1>2, <2>1, <2>2 DEF Candidates
<1> DEFINE r1 == [client[c] EXCEPT !.pc = "ready"]
           r2 == [r1 EXCEPT !.vm = b[1]]
           r3 == [r2 EXCEPT !.made = b[2]]
<1>4. client' = [client EXCEPT ![c] = r3]
  BY <1>1, <1>2
<1>5. r1 \in ClientType /\ r1.pc = "ready" /\ r1.cell = client[c].cell /\ r1.src = client[c].src
      /\ r1.known = client[c].known
  BY <1>1, SetField
<1> HIDE DEF r1
<1>6. r2 \in ClientType /\ r2.pc = "ready" /\ r2.cell = client[c].cell /\ r2.src = client[c].src
      /\ r2.known = client[c].known /\ r2.vm = b[1]
  BY <1>3, <1>5, SetField
<1> HIDE DEF r2
<1>7. r3 \in ClientType /\ r3.pc = "ready" /\ r3.cell = client[c].cell /\ r3.src = client[c].src
      /\ r3.known = client[c].known /\ r3.vm = b[1] /\ r3.made = b[2]
  BY <1>3, <1>6, SetField
<1> HIDE DEF r3
<1>8. OnlyClient(c) /\ client'[c] = r3
  BY <1>1, <1>4, <1>7, SetClient DEF OnlyClient
<1>9. races' = {} /\ client[c].src = "none" => ~PassedOver(client[c].known, b[1])
  BY <1>2 DEF Race
<1> QED
  BY <1>2, <1>3, <1>7, <1>8, <1>9

\* The steps in which a checkout only moves on.
LEMMA MoveEffect ==
    ASSUME Shape, NEW c \in Clients, Checkout(c) \/ PassOffload(c) \/ BringUp(c) \/ Bind(c)
    PROVE  /\ OnlyClient(c) /\ client'[c].cell = client[c].cell /\ client'[c].src = client[c].src
           /\ client'[c].known = client[c].known /\ client'[c].vm = client[c].vm
           /\ client'[c].made = client[c].made
           /\ Checkout(c) => client'[c].pc = "start"
           /\ PassOffload(c) => client'[c].pc = "checked"
           /\ BringUp(c) => client'[c].pc = "bind"
           /\ Bind(c) => client'[c].pc = "admit"
<1>1. /\ client \in [Clients -> ClientType] /\ "start" \in ClientPcs /\ "checked" \in ClientPcs
      /\ "bind" \in ClientPcs /\ "admit" \in ClientPcs
  BY DEF Shape, Types, ClientPcs
<1>2. CASE Checkout(c)
  <2>1. Step(c, "start") /\ client[c].pc = "idle"
    BY <1>2 DEF Checkout
  <2> QED
    BY <1>1, <1>2, <2>1, StepFields DEF OnlyClient, PassOffload, BringUp, Bind
<1>3. CASE PassOffload(c)
  <2>1. Step(c, "checked") /\ client[c].pc = "start"
    BY <1>3 DEF PassOffload
  <2> QED
    BY <1>1, <1>3, <2>1, StepFields DEF OnlyClient, Checkout, BringUp, Bind
<1>4. CASE BringUp(c)
  <2>1. Step(c, "bind") /\ client[c].pc = "ready"
    BY <1>4 DEF BringUp
  <2> QED
    BY <1>1, <1>4, <2>1, StepFields DEF OnlyClient, Checkout, PassOffload, Bind
<1>5. CASE Bind(c)
  <2>1. Step(c, "admit") /\ client[c].pc = "bind"
    BY <1>5 DEF Bind
  <2> QED
    BY <1>1, <1>5, <2>1, StepFields DEF OnlyClient, Checkout, PassOffload, BringUp
<1> QED
  BY <1>2, <1>3, <1>4, <1>5

\* The steps that end a checkout, in a session or without one.
LEMMA EndEffect ==
    ASSUME Shape, NEW c \in Clients, BringUpFails(c) \/ Admit(c) \/ Disconnect(c)
    PROVE  /\ OnlyClient(c) /\ cell' = Held(client', map) /\ map' = map
           /\ \/ client'[c] = NoClient
              \/ /\ Admit(c) /\ Active(client[c].cell) < Slots
                 /\ client'[c].pc = "session" /\ client'[c].cell = client[c].cell
<1>1. /\ client \in [Clients -> ClientType] /\ "session" \in ClientPcs /\ client[c] \in ClientType
      /\ client[c].cell \in Cells \cup {None}
  BY TypeFields DEF Shape, Types, ClientPcs
<1>2. cell' = Held(client', map) /\ map' = map
  BY DEF BringUpFails, Admit, Disconnect
<1>3. CASE client' = [client EXCEPT ![c] = NoClient]
  BY <1>1, <1>2, <1>3, SetClient, NoClientFields DEF OnlyClient
<1>4. CASE /\ Admit(c) /\ Active(client[c].cell) < Slots
           /\ client' = [client EXCEPT ![c] = [NoClient EXCEPT !.pc = "session", !.cell = client[c].cell]]
  <2> DEFINE a == [NoClient EXCEPT !.pc = "session"]
             b == [a EXCEPT !.cell = client[c].cell]
  <2>1. client' = [client EXCEPT ![c] = b]
    BY <1>4
  <2>2. a \in ClientType /\ a.pc = "session"
    BY <1>1, NoClientFields, SetField
  <2> HIDE DEF a
  <2>3. b \in ClientType /\ b.pc = "session" /\ b.cell = client[c].cell
    BY <1>1, <2>2, SetField
  <2> HIDE DEF b
  <2> QED
    BY <1>1, <1>2, <1>4, <2>1, <2>3, SetClient DEF OnlyClient
<1> QED
  BY <1>3, <1>4 DEF BringUpFails, Admit, Disconnect

-----------------------------------------------------------------------------
(* The shape of the state, whatever races are lost *)

\* The shape of one client is kept by a step of another.
LEMMA ShapeOf ==
    ASSUME Shape, NEW c \in Clients, OnlyClient(c),
           client'[c].cell \in Cells <=> client'[c].pc \notin Outside,
           client'[c].pc \in {"ready", "bind"} => client'[c].vm \in VMs,
           client'[c].pc \in {"init", "boot"} => ~client'[c].made
    PROVE  ClientShape'
  BY DEF Shape, ClientShape, OnlyClient

\* A step of a checkout keeps the shape.
LEMMA ShapeCheckout ==
    ASSUME Shape, NEW c \in Clients, Checkout(c) \/ PassOffload(c) \/ Lookup(c) \/ Acquire(c) \/ InitCell(c)
    PROVE  Shape'
<1> USE DEF Outside
<1>1. /\ Types /\ ClientShape /\ OffShape /\ client[c] \in ClientType /\ cell \in [Cells -> Entries \cup {None}]
      /\ map \in Cells \cup {None}
  BY DEF Shape, Types
<1>2. UNCHANGED <<vm, disk, copies, row, durable, off, cached, reaping, suspects, confirmed, purging, acked>>
  BY DEF Checkout, PassOffload, Lookup, Acquire, InitCell
<1>3. OffShape'
  BY <1>1, <1>2 DEF OffShape
<1>4. /\ OnlyClient(c) /\ ClientShape' /\ map' \in Cells \cup {None} /\ cell' \in [Cells -> Entries \cup {None}]
  <2>1. CASE Checkout(c)
    <3>1. client[c].pc = "idle" /\ UNCHANGED <<map, cell>>
      BY <2>1 DEF Checkout
    <3> QED
      BY <1>1, <2>1, <3>1, MoveEffect, ShapeOf DEF ClientShape
  <2>2. CASE PassOffload(c)
    <3>1. client[c].pc = "start" /\ UNCHANGED <<map, cell>>
      BY <2>2 DEF PassOffload
    <3> QED
      BY <1>1, <2>2, <3>1, MoveEffect, ShapeOf DEF ClientShape
  <2>3. CASE Lookup(c)
    <3>1. cell' = cell
      BY <2>3 DEF Lookup
    <3>2. OnlyClient(c) /\ map' \in Cells /\ client'[c].cell = map' /\ ~client'[c].made
          /\ client'[c].pc \in {"warm", "init"}
      BY <2>3, LookupEffect
    <3> QED
      BY <1>1, <3>1, <3>2, ShapeOf
  <2>4. CASE Acquire(c)
    <3>1. client[c].pc = "warm"
      BY <2>4 DEF Acquire
    <3>2. /\ OnlyClient(c) /\ cell' = Held(client', map')
          /\ \/ client'[c] = NoClient /\ map' = map
             \/ client'[c].pc = "session" /\ client'[c].cell = client[c].cell /\ map' = map
             \/ client'[c].pc = "start" /\ client'[c].cell = None /\ map' = IF map = client[c].cell THEN None ELSE map
      BY <2>4, AcquireEffect
    <3>3. cell' \in [Cells -> Entries \cup {None}] /\ map' \in Cells \cup {None}
      BY <1>1, <3>2, HeldFields
    <3>4. client'[c].cell \in Cells <=> client'[c].pc \notin Outside
      BY <1>1, <3>1, <3>2, NoClientFields, Constants DEF ClientShape
    <3>5. client'[c].pc \in {"idle", "session", "start"}
      BY <3>2, NoClientFields
    <3> QED
      BY <3>2, <3>3, <3>4, <3>5, ShapeOf
  <2>5. CASE InitCell(c)
    <3>1. client[c].pc = "init" /\ UNCHANGED <<map, cell>>
      BY <2>5 DEF InitCell
    <3>2. /\ OnlyClient(c) /\ client'[c].cell = client[c].cell /\ client'[c].made = client[c].made
          /\ client'[c].pc \in {"bind", "boot"} /\ (client'[c].pc = "bind" => client'[c].vm \in VMs)
      BY <2>5, InitEffect
    <3> QED
      BY <1>1, <3>1, <3>2, ShapeOf DEF ClientShape
  <2> QED
    BY <2>1, <2>2, <2>3, <2>4, <2>5
<1>5. Types'
  BY <1>1, <1>2, <1>4 DEF Types, OnlyClient
<1> QED
  BY <1>3, <1>4, <1>5 DEF Shape

\* put leaves a live row.
LEMMA PutFields ==
    ASSUME Types, NEW v \in VMs, put(v)
    PROVE  row' = LiveRow(v) /\ row' \in Rows /\ row' # None /\ durable' \in Rows
  BY RowFields DEF put, LiveRow, Types

\* A bring-up and what follows it keep the shape.
LEMMA ShapeBringUp ==
    ASSUME Shape, NEW c \in Clients,
           Boot(c) \/ BringUp(c) \/ BringUpFails(c) \/ Bind(c) \/ Admit(c) \/ Write(c) \/ Disconnect(c)
    PROVE  Shape'
<1> USE DEF Outside
<1>1. /\ Types /\ ClientShape /\ OffShape /\ client[c] \in ClientType /\ cell \in [Cells -> Entries \cup {None}]
      /\ map \in Cells \cup {None} /\ vm \in [VMs -> VmStates] /\ disk \in [VMs -> Contents]
      /\ copies \in [Files -> Contents \cup {None}] /\ client[c].src \in Sources /\ client[c].cell \in Cells \cup {None}
  BY TypeFields DEF Shape, Types
<1>2. CASE Boot(c)
  <2>1. client[c].pc = "boot" /\ UNCHANGED <<copies, row, durable, map, off, reaping, suspects, confirmed, purging, acked>>
    BY <1>2 DEF Boot
  <2>2. PICK b \in Candidates(c) :
              /\ b[1] \in VMs /\ b[2] \in BOOLEAN
              /\ client[c].src \in {"compacted", "image"} => copies[client[c].src] # None
              /\ vm' = [vm EXCEPT ![b[1]] = "running"]
              /\ disk' = IF client[c].src \in {"compacted", "image"}
                         THEN [disk EXCEPT ![b[1]] = copies[client[c].src]] ELSE disk
              /\ cached' = b[1] /\ cell' = AfterStart(b[1])
              /\ OnlyClient(c) /\ client'[c].pc = "ready" /\ client'[c].vm = b[1]
              /\ client'[c].cell = client[c].cell
    BY <1>2, BootEffect
  <2>3. vm' \in [VMs -> VmStates] /\ disk' \in [VMs -> Contents]
    <3>1. client[c].src \in {"compacted", "image"} => copies[client[c].src] \in Contents
      BY <1>1, <2>2 DEF Files
    <3>2. "running" \in VmStates
      BY DEF VmStates
    <3> QED
      BY <1>1, <2>2, <3>1, <3>2
  <2>4. cell' \in [Cells -> Entries \cup {None}]
    BY <1>1, <2>2, AfterStartFields
  <2>5. ClientShape'
    BY <1>1, <2>1, <2>2, ShapeOf DEF ClientShape
  <2>6. OffShape' /\ Types'
    BY <1>1, <2>1, <2>2, <2>3, <2>4 DEF OffShape, Types, OnlyClient
  <2> QED
    BY <2>5, <2>6 DEF Shape
<1>3. CASE BringUp(c)
  <2>1. /\ client[c].pc = "ready" /\ UNCHANGED <<vm, copies, map, off, cached, reaping, suspects, confirmed, purging, acked>>
        /\ client[c].src \in {"frozen", "dump"} => copies[client[c].src] # None
        /\ disk' = IF client[c].src \in {"frozen", "dump"}
                   THEN [disk EXCEPT ![client[c].vm] = copies[client[c].src]] ELSE disk
        /\ cell' = [cell EXCEPT ![client[c].cell] = [vm |-> client[c].vm, up |-> TRUE]]
        /\ row' = row /\ durable' = durable
    BY <1>3 DEF BringUp
  <2>2. client[c].vm \in VMs /\ client[c].cell \in Cells
    BY <1>1, <2>1 DEF ClientShape
  <2>3. row' \in Rows /\ durable' \in Rows /\ (row # None => row' # None)
    BY <1>1, <2>1 DEF Types
  <2>4. disk' \in [VMs -> Contents]
    <3>1. client[c].src \in {"frozen", "dump"} => copies[client[c].src] \in Contents
      BY <1>1, <2>1 DEF Files
    <3> QED
      BY <1>1, <2>1, <3>1
  <2>5. cell' \in [Cells -> Entries \cup {None}]
    <3>1. [vm |-> client[c].vm, up |-> TRUE] \in Entries
      BY <2>2, EntryFields
    <3> QED
      BY <1>1, <2>1, <3>1
  <2>6. OnlyClient(c) /\ client'[c].pc = "bind" /\ client'[c].vm = client[c].vm /\ client'[c].cell = client[c].cell
    BY <1>3, MoveEffect
  <2>7. ClientShape'
    BY <2>2, <2>6, ShapeOf
  <2>8. OffShape' /\ Types'
    BY <1>1, <2>1, <2>3, <2>4, <2>5, <2>6 DEF OffShape, Types, OnlyClient
  <2> QED
    BY <2>7, <2>8 DEF Shape
<1>4. CASE Bind(c)
  <2>1. /\ client[c].pc = "bind" /\ UNCHANGED <<vm, disk, map, cell, off, cached, reaping, suspects, confirmed, purging, acked>>
        /\ put(client[c].vm)
        /\ copies' = IF client[c].src \in {"frozen", "compacted"}
                     THEN [copies EXCEPT ![client[c].src] = None] ELSE copies
    BY <1>4 DEF Bind
  <2>2. client[c].vm \in VMs /\ client[c].cell \in Cells
    BY <1>1, <2>1 DEF ClientShape
  <2>3. row' \in Rows /\ durable' \in Rows /\ row' # None
    BY <1>1, <2>1, <2>2, PutFields
  <2>4. copies' \in [Files -> Contents \cup {None}]
    BY <1>1, <2>1
  <2>5. OnlyClient(c) /\ client'[c].pc = "admit" /\ client'[c].cell = client[c].cell
    BY <1>4, MoveEffect
  <2>6. ClientShape'
    BY <2>2, <2>5, ShapeOf
  <2>7. OffShape' /\ Types'
    BY <1>1, <2>1, <2>3, <2>4, <2>5 DEF OffShape, Types, OnlyClient
  <2> QED
    BY <2>6, <2>7 DEF Shape
<1>5. CASE BringUpFails(c) \/ Admit(c) \/ Disconnect(c)
  <2>1. UNCHANGED <<disk, copies, row, durable, map, off, reaping, suspects, confirmed, purging, acked>>
    BY <1>5 DEF BringUpFails, Admit, Disconnect
  <2>2. cached' \in VMs \cup {None}
    BY <1>1, <1>5 DEF BringUpFails, Admit, Disconnect, Types
  <2>3. vm' \in [VMs -> VmStates]
    <3>1. CASE BringUpFails(c)
      <4> DEFINE made == IF client[c].made THEN {client[c].vm} ELSE {}
                 S == Stop(StoppedAfterFailure(client[c].known))
      <4>1. S \in [VMs -> VmStates] /\ "gone" \in VmStates
        BY <1>1, StopFields DEF VmStates
      <4>2. vm' = [v \in VMs |-> IF v \in made THEN "gone" ELSE S[v]]
        BY <3>1 DEF BringUpFails
      <4> HIDE DEF S, made
      <4> QED
        BY <4>1, <4>2
    <3>2. CASE Admit(c) \/ Disconnect(c)
      BY <1>1, <3>2 DEF Admit, Disconnect
    <3> QED
      BY <1>5, <3>1, <3>2
  <2>4. /\ OnlyClient(c) /\ cell' = Held(client', map)
        /\ \/ client'[c] = NoClient
           \/ Admit(c) /\ client'[c].pc = "session" /\ client'[c].cell = client[c].cell
    BY <1>5, EndEffect
  <2>5. cell' \in [Cells -> Entries \cup {None}]
    BY <1>1, <2>4, HeldFields
  <2>6. client'[c].pc \in {"idle", "session"} /\ (client'[c].cell \in Cells <=> client'[c].pc \notin Outside)
    BY <1>1, <2>4, NoClientFields, Constants DEF Admit, ClientShape
  <2>7. ClientShape'
    BY <2>4, <2>6, ShapeOf
  <2>8. OffShape' /\ Types'
    BY <1>1, <2>1, <2>2, <2>3, <2>4, <2>5 DEF OffShape, Types, OnlyClient
  <2> QED
    BY <2>7, <2>8 DEF Shape
<1>6. CASE Write(c)
  <2>1. /\ UNCHANGED <<vm, copies, row, durable, map, cell, client, off, cached, reaping, suspects, confirmed, purging>>
        /\ acked < MaxWrites /\ acked' = acked + 1
        /\ disk' = [disk EXCEPT ![cell[client[c].cell].vm] = @ \cup {acked + 1}]
    BY <1>6 DEF Write
  <2>2. acked' \in 0..MaxWrites /\ acked + 1 \in Writes
    BY <1>1, <2>1, Constants DEF Types, Writes
  <2>3. disk' \in [VMs -> Contents]
    BY <1>1, <2>1, <2>2 DEF Contents
  <2>4. ClientShape' /\ OffShape'
    BY <1>1, <2>1 DEF ClientShape, OffShape
  <2> QED
    BY <1>1, <2>1, <2>2, <2>3, <2>4 DEF Shape, Types
<1> QED
  BY <1>2, <1>3, <1>4, <1>5, <1>6

\* VMs are stopped, if anything.
OnlyStops ==
    /\ vm' \in [VMs -> VmStates]
    /\ \A v \in VMs : /\ vm'[v] \in {"running", "stopped"} <=> Exists(v)
                      /\ vm'[v] = "running" => vm[v] = "running"
                      /\ vm'[v] = "gone" => vm[v] = "gone"

\* A stop, done or failed, stops only.
LEMMA StopOnly ==
    ASSUME Types
    PROVE  /\ vm' = vm => OnlyStops
           /\ \A s : vm' = Stop(s) => OnlyStops
           /\ \A v : checkpoint_and_stop(v) => OnlyStops
<1>1. vm' = vm => OnlyStops
  BY DEF OnlyStops, Types, Exists
<1>2. ASSUME NEW s, vm' = Stop(s) PROVE OnlyStops
  BY <1>2, StopFields DEF OnlyStops
<1>3. ASSUME NEW v, checkpoint_and_stop(v) PROVE vm' = Stop({v}) \/ vm' = vm
  BY <1>3 DEF checkpoint_and_stop
<1> QED
  BY <1>1, <1>2, <1>3

\* The offload moves on, or lets go of the schema.
LEMMA OffMoves ==
    ASSUME Types
    PROVE  /\ \A p \in OffPcs : Offload(p) => /\ off' \in OffType /\ off'.pc = p
                                              /\ off'.kind = off.kind /\ off'.vm = off.vm
           /\ Release => off' \in OffType /\ off'.pc = "idle" /\ off' = NoOff
<1>1. off \in OffType
  BY DEF Types
<1>2. ASSUME NEW p \in OffPcs, Offload(p)
      PROVE  off' \in OffType /\ off'.pc = p /\ off'.kind = off.kind /\ off'.vm = off.vm
  <2>1. off' = [off EXCEPT !.pc = p]
    BY <1>2 DEF Offload
  <2> QED
    BY <1>1, <2>1, OffFields
<1> QED
  BY <1>2, NoClientFields DEF Release

\* The eviction is refused, or leaves no current cell.
LEMMA EvictEffect ==
    ASSUME Shape, Evict
    PROVE  /\ OnlyStops /\ cell' = Held(client, map') /\ off' \in OffType
           /\ \/ off' = NoOff /\ map' = map /\ vm' = vm
              \/ /\ map' = None /\ off'.vm = row.id /\ off'.kind = off.kind
                 /\ ~(Warm /\ Active(map) > 0)
                 /\ \/ off'.pc = "boot" /\ off.kind \in {"archive", "freeze"}
                    \/ off'.pc = "image" /\ off.kind \in {"compact", "image"}
<1> DEFINE p == IF off.kind \in {"archive", "freeze"} THEN "boot" ELSE "image"
<1>1. Types /\ off \in OffType /\ off.pc = "evict" /\ off.kind \in AllKinds \ {"promote"} /\ row # None /\ row.id \in VMs
  BY TypeFields, RowFields DEF Shape, OffShape, Types, Evict, Promotes
<1>2. p \in OffPcs /\ cell' = Held(client, map')
  BY DEF OffPcs, Evict
<1>3. CASE Warm /\ (off.kind = "compact" \/ Active(map) > 0)
  BY <1>1, <1>2, <1>3, OffMoves, StopOnly DEF Evict
<1>4. CASE ~(Warm /\ (off.kind = "compact" \/ Active(map) > 0))
  <2>1. /\ map' = None /\ off' = [off EXCEPT !.vm = row.id, !.pc = p]
        /\ (\E v : checkpoint_and_stop(v)) \/ vm' = vm
    BY <1>4 DEF Evict
  <2> DEFINE a == [off EXCEPT !.vm = row.id]
  <2>2. off' = [a EXCEPT !.pc = p]
    BY <2>1
  <2>3. a \in OffType /\ a.vm = row.id /\ a.kind = off.kind
    BY <1>1, OffFields
  <2> HIDE DEF a
  <2>4. off' \in OffType /\ off'.pc = p /\ off'.vm = row.id /\ off'.kind = off.kind
    BY <1>2, <2>2, <2>3, OffFields
  <2>5. OnlyStops
    BY <1>1, <2>1, StopOnly
  <2> QED
    BY <1>1, <1>2, <1>4, <2>1, <2>4, <2>5 DEF AllKinds
<1> QED
  BY <1>3, <1>4

\* A failed dump becomes an image archive, or ends the offload.
LEMMA FallbackEffect ==
    ASSUME Types, Fallback
    PROVE  /\ off' \in OffType
           /\ \/ off' = NoOff
              \/ /\ off.kind = "archive" /\ off'.kind = "image" /\ off'.pc = "image"
                 /\ off'.vm = off.vm
<1>1. off \in OffType /\ "image" \in OffPcs /\ "image" \in AllKinds
  BY DEF Types, OffPcs, AllKinds
<1>2. CASE off.kind = "archive" /\ "image" \in Kinds
  <2> DEFINE a == [off EXCEPT !.kind = "image"]
  <2>1. off' = [a EXCEPT !.pc = "image"]
    BY <1>2 DEF Fallback
  <2>2. a \in OffType /\ a.kind = "image" /\ a.vm = off.vm
    BY <1>1, OffFields
  <2> HIDE DEF a
  <2> QED
    BY <1>1, <1>2, <2>1, <2>2, OffFields
<1>3. CASE ~(off.kind = "archive" /\ "image" \in Kinds)
  BY <1>3, NoClientFields DEF Fallback, Release
<1> QED
  BY <1>2, <1>3

\* The VM to dump runs, or the dump has failed.
LEMMA OffBootEffect ==
    ASSUME Shape, OffBoot
    PROVE  /\ off' \in OffType
           /\ \/ \E b \in Resolved(off.vm, FALSE) :
                   /\ b[1] \in VMs /\ vm' = [vm EXCEPT ![b[1]] = "running"]
                   /\ cached' = b[1] /\ cell' = AfterStart(b[1])
                   /\ off'.vm = b[1] /\ off'.pc = "dump" /\ off'.kind = off.kind
                   /\ races' = {} => ~PassedOver(off.vm, b[1])
              \/ /\ OnlyStops /\ cached' = cached /\ cell' = cell
                 /\ \/ off' = NoOff
                    \/ off'.kind = "image" /\ off'.pc = "image" /\ off'.vm = off.vm
<1>1. Types /\ off \in OffType /\ off.vm \in VMs /\ "dump" \in OffPcs
  BY DEF Shape, Types, OffShape, OffBoot, OffPcs, Promotes
<1>2. ASSUME NEW b \in Resolved(off.vm, FALSE), off' = [off EXCEPT !.vm = b[1], !.pc = "dump"]
      PROVE  b[1] \in VMs /\ off' \in OffType /\ off'.vm = b[1] /\ off'.pc = "dump" /\ off'.kind = off.kind
  <2>1. b[1] \in VMs
    BY <1>1, ResolvedFields
  <2> DEFINE a == [off EXCEPT !.vm = b[1]]
  <2>2. off' = [a EXCEPT !.pc = "dump"]
    BY <1>2
  <2>3. a \in OffType /\ a.vm = b[1] /\ a.kind = off.kind
    BY <1>1, <2>1, OffFields
  <2> HIDE DEF a
  <2> QED
    BY <1>1, <2>1, <2>2, <2>3, OffFields
<1>3. CASE \E b \in Resolved(off.vm, FALSE) :
            /\ vm' = [vm EXCEPT ![b[1]] = "running"]
            /\ cached' = b[1]
            /\ cell' = AfterStart(b[1])
            /\ off' = [off EXCEPT !.vm = b[1], !.pc = "dump"]
            /\ Race("reattach", PassedOver(off.vm, b[1]))
  <2>1. PICK b \in Resolved(off.vm, FALSE) :
            /\ vm' = [vm EXCEPT ![b[1]] = "running"]
            /\ cached' = b[1]
            /\ cell' = AfterStart(b[1])
            /\ off' = [off EXCEPT !.vm = b[1], !.pc = "dump"]
            /\ Race("reattach", PassedOver(off.vm, b[1]))
    BY <1>3
  <2>2. b[1] \in VMs /\ off' \in OffType /\ off'.vm = b[1] /\ off'.pc = "dump" /\ off'.kind = off.kind
    BY <1>2, <2>1
  <2>3. races' = {} => ~PassedOver(off.vm, b[1])
    BY <2>1 DEF Race
  <2> QED
    BY <2>1, <2>2, <2>3
<1>4. CASE vm' = Stop({off.vm}) /\ Fallback /\ UNCHANGED <<cached, cell>>
  BY <1>1, <1>4, FallbackEffect, StopOnly
<1> QED
  BY <1>3, <1>4 DEF OffBoot

\* The dump is there, or it has failed.
LEMMA DumpEffect ==
    ASSUME Shape, Dump
    PROVE  /\ off' \in OffType /\ OnlyStops /\ copies' \in [Files -> Contents \cup {None}]
           /\ \/ /\ off'.pc = "mark" /\ off'.kind = off.kind /\ off'.vm = off.vm
                 /\ copies' = [copies EXCEPT ![DumpFile] = disk[off.vm]] /\ disk[off.vm] \in Contents
              \/ /\ copies' = copies
                 /\ \/ off' = NoOff
                    \/ off'.kind = "image" /\ off'.pc = "image" /\ off'.vm = off.vm
<1>1. /\ Types /\ off \in OffType /\ off.vm \in VMs /\ "mark" \in OffPcs /\ disk[off.vm] \in Contents
      /\ copies \in [Files -> Contents \cup {None}]
  BY DEF Shape, Types, OffShape, Dump, OffPcs, Promotes
<1>2. CASE copies' = [copies EXCEPT ![DumpFile] = disk[off.vm]] /\ Offload("mark") /\ vm' = vm
  BY <1>1, <1>2, OffMoves, StopOnly
<1>3. CASE vm' = Stop({off.vm}) /\ Release /\ copies' = copies
  BY <1>1, <1>3, OffMoves, StopOnly
<1>4. CASE vm' = Stop({off.vm}) /\ Fallback /\ copies' = copies
  BY <1>1, <1>4, FallbackEffect, StopOnly
<1> QED
  BY <1>2, <1>3, <1>4 DEF Dump

\* The image is there, or the offload gave up.
LEMMA ImageEffect ==
    ASSUME Shape, Image
    PROVE  /\ off' \in OffType /\ copies' \in [Files -> Contents \cup {None}]
           /\ \/ off' = NoOff /\ copies' = copies
              \/ /\ off.kind = "compact" /\ off'.pc = "mark" /\ off'.kind = off.kind /\ off'.vm = off.vm
                 /\ copies' = [copies EXCEPT !["compacted"] = disk[off.vm]] /\ disk[off.vm] \in Contents
              \/ /\ off.kind = "image" /\ off'.pc = "undump" /\ off'.kind = off.kind /\ off'.vm = off.vm
                 /\ copies' = [copies EXCEPT !["image"] = disk[off.vm]] /\ disk[off.vm] \in Contents
<1>1. /\ Types /\ off \in OffType /\ off.vm \in VMs /\ disk[off.vm] \in Contents
      /\ "mark" \in OffPcs /\ "undump" \in OffPcs /\ off.kind \in {"compact", "image"}
      /\ copies \in [Files -> Contents \cup {None}]
  BY DEF Shape, Types, OffShape, Image, OffPcs, Promotes
<1>2. CASE Release /\ copies' = copies
  BY <1>1, <1>2, OffMoves
<1>3. CASE /\ copies' = [copies EXCEPT ![IF off.kind = "compact" THEN "compacted" ELSE "image"] = disk[off.vm]]
           /\ Offload(IF off.kind = "compact" THEN "mark" ELSE "undump")
  <2>1. CASE off.kind = "compact"
    <3>1. Offload("mark") /\ copies' = [copies EXCEPT !["compacted"] = disk[off.vm]]
      BY <1>3, <2>1
    <3> QED
      BY <1>1, <2>1, <3>1, OffMoves
  <2>2. CASE off.kind = "image"
    <3>1. Offload("undump") /\ copies' = [copies EXCEPT !["image"] = disk[off.vm]]
      BY <1>3, <2>2
    <3> QED
      BY <1>1, <2>2, <3>1, OffMoves
  <2> QED
    BY <1>1, <2>1, <2>2
<1> QED
  BY <1>2, <1>3 DEF Image

\* The local file is in S3 too, or the offload gave up.
LEMMA UploadEffect ==
    ASSUME Shape, Upload
    PROVE  /\ off' \in OffType /\ copies' \in [Files -> Contents \cup {None}]
           /\ \/ off' = NoOff /\ copies' = copies
              \/ /\ off.kind = "frozen" /\ off'.pc = "mark" /\ off'.kind = off.kind /\ off'.vm = off.vm
                 /\ copies' = [copies EXCEPT !["dump"] = copies["frozen"]] /\ copies["frozen"] \in Contents
              \/ /\ off.kind = "compacted" /\ off'.pc = "undump" /\ off'.kind = off.kind /\ off'.vm = off.vm
                 /\ copies' = [copies EXCEPT !["image"] = copies["compacted"]] /\ copies["compacted"] \in Contents
<1>1. /\ Types /\ off \in OffType /\ "mark" \in OffPcs /\ "undump" \in OffPcs /\ off.kind \in {"frozen", "compacted"}
      /\ copies \in [Files -> Contents \cup {None}]
  BY DEF Shape, Types, OffShape, Upload, OffPcs, Promotes
<1>2. CASE Release /\ copies' = copies
  BY <1>1, <1>2, OffMoves
<1>3. CASE /\ copies[off.kind] \notin {None, {}}
           /\ copies' = [copies EXCEPT ![IF off.kind = "frozen" THEN "dump" ELSE "image"] = copies[off.kind]]
           /\ Offload(IF off.kind = "frozen" THEN "mark" ELSE "undump")
  <2>1. CASE off.kind = "frozen"
    <3>1. Offload("mark") /\ copies' = [copies EXCEPT !["dump"] = copies["frozen"]] /\ copies["frozen"] \in Contents
      BY <1>1, <1>3, <2>1 DEF Files
    <3> QED
      BY <1>1, <2>1, <3>1, OffMoves
  <2>2. CASE off.kind = "compacted"
    <3>1. Offload("undump") /\ copies' = [copies EXCEPT !["image"] = copies["compacted"]]
          /\ copies["compacted"] \in Contents
      BY <1>1, <1>3, <2>2 DEF Files
    <3> QED
      BY <1>1, <2>2, <3>1, OffMoves
  <2> QED
    BY <1>1, <2>1, <2>2
<1> QED
  BY <1>2, <1>3 DEF Upload

\* The row names the new tier.
LEMMA MarkEffect ==
    ASSUME Shape, set_tier
    PROVE  /\ row' \in Rows /\ row' # None /\ row'.id = row.id /\ row'.tier = TierOf /\ TierOf # "live"
           /\ durable' \in Rows /\ off' \in OffType /\ off'.kind = off.kind /\ off'.vm = off.vm
           /\ off'.pc = IF off.kind \in {"frozen", "compacted"} THEN "unlink" ELSE "kill"
<1>1. Types /\ off.pc = "mark" /\ row # None /\ row \in Rows /\ "unlink" \in OffPcs /\ "kill" \in OffPcs
  BY DEF Shape, Types, OffShape, OffPcs, set_tier
<1>2. row.id \in VMs /\ row = [id |-> row.id, tier |-> row.tier] /\ TierOf \in Tiers /\ TierOf # "live"
  BY <1>1, RowFields DEF TierOf, Tiers
<1>3. row' = [row EXCEPT !.tier = TierOf] /\ durable' \in {row', durable}
  BY <1>1 DEF set_tier
<1>4. row' = [id |-> row.id, tier |-> TierOf]
  BY <1>2, <1>3
<1>5. row' \in Rows /\ row' # None /\ row'.id = row.id /\ row'.tier = TierOf
  BY <1>2, <1>4, RowFields
<1>6. Offload(IF off.kind \in {"frozen", "compacted"} THEN "unlink" ELSE "kill")
  BY DEF set_tier
<1> QED
  BY <1>1, <1>2, <1>3, <1>5, <1>6, OffMoves DEF Types

\* The claim writes what the job needs to know.
LEMMA ClaimEffect ==
    ASSUME Shape, NEW k \in AllKinds, Claim(k)
    PROVE  /\ off' \in OffType /\ off'.vm = None /\ row # None /\ off.pc = "idle"
           /\ \/ off'.pc = "evict" /\ off'.kind = k /\ k # "promote" /\ row.tier = "live"
              \/ off'.pc = "upload" /\ off'.kind = row.tier /\ row.tier \in {"frozen", "compacted"}
<1>1. CASE k # "promote" /\ row.tier = "live" /\ off' = [pc |-> "evict", kind |-> k, vm |-> None]
  BY <1>1 DEF Claim, OffType, OffPcs
<1>2. CASE /\ k = "promote" /\ row.tier \in {"frozen", "compacted"}
           /\ off' = [pc |-> "upload", kind |-> row.tier, vm |-> None]
  BY <1>2 DEF Claim, OffType, OffPcs
<1> QED
  BY <1>1, <1>2 DEF Claim

\* The steps of an offload keep the shape.
LEMMA ShapeOffload ==
    ASSUME Shape, OffloadStep \/ \E k \in AllKinds : Claim(k)
    PROVE  Shape'
<1> USE DEF Promotes, AllKinds
<1>1. /\ Types /\ ClientShape /\ OffShape /\ cell \in [Cells -> Entries \cup {None}]
      /\ map \in Cells \cup {None} /\ vm \in [VMs -> VmStates] /\ off \in OffType /\ row \in Rows
      /\ copies \in [Files -> Contents \cup {None}] /\ off.kind \in AllKinds \cup {"frozen", "compacted"}
  BY TypeFields DEF Shape, Types
<1>2. UNCHANGED <<disk, client, reaping, suspects, confirmed, purging, acked>>
  BY DEF OffloadStep, Evict, OffBoot, Dump, Image, Upload, DeleteStaleDump, set_tier, KillVM, Unlink, Claim
<1>3. ClientShape'
  BY <1>1, <1>2 DEF ClientShape
<1>4. NoOff.pc = "idle" /\ NoOff.kind = "archive" /\ NoOff.vm = None /\ NoOff \in OffType
  BY NoClientFields
<1> SUFFICES Types' /\ OffShape'
  BY <1>3 DEF Shape
<1>5. CASE Evict
  <2>1. UNCHANGED <<copies, row, durable, cached>>
    BY <1>5 DEF Evict
  <2>2. /\ OnlyStops /\ cell' = Held(client, map') /\ off' \in OffType
        /\ \/ off' = NoOff /\ map' = map
           \/ /\ map' = None /\ off'.vm = row.id /\ off'.kind = off.kind
              /\ \/ off'.pc = "boot" /\ off.kind \in {"archive", "freeze"}
                 \/ off'.pc = "image" /\ off.kind \in {"compact", "image"}
    BY <1>5, EvictEffect
  <2>3. off.pc = "evict" /\ row # None /\ row.id \in VMs
    BY <1>1, <1>5, RowFields DEF Evict, OffShape
  <2>4. OffShape'
    BY <1>4, <2>1, <2>2, <2>3 DEF OffShape
  <2>5. cell' \in [Cells -> Entries \cup {None}] /\ map' \in Cells \cup {None}
    BY <1>1, <2>2, HeldFields
  <2> QED
    BY <1>1, <1>2, <2>1, <2>2, <2>4, <2>5 DEF Types, OnlyStops
<1>6. CASE OffBoot
  <2>1. UNCHANGED <<copies, row, durable, map>> /\ off.pc = "boot"
    BY <1>6 DEF OffBoot
  <2>2. /\ off' \in OffType
        /\ \/ \E b \in Resolved(off.vm, FALSE) :
                /\ b[1] \in VMs /\ vm' = [vm EXCEPT ![b[1]] = "running"]
                /\ cached' = b[1] /\ cell' = AfterStart(b[1])
                /\ off'.vm = b[1] /\ off'.pc = "dump" /\ off'.kind = off.kind
           \/ /\ OnlyStops /\ cached' = cached /\ cell' = cell
              /\ \/ off' = NoOff
                 \/ off'.kind = "image" /\ off'.pc = "image" /\ off'.vm = off.vm
    BY <1>6, OffBootEffect
  <2>3. OffShape'
    BY <1>1, <1>4, <2>1, <2>2 DEF OffShape
  <2>4. vm' \in [VMs -> VmStates] /\ cached' \in VMs \cup {None} /\ cell' \in [Cells -> Entries \cup {None}]
    BY <1>1, <2>2, AfterStartFields DEF OnlyStops, VmStates, Types
  <2> QED
    BY <1>1, <1>2, <2>1, <2>2, <2>3, <2>4 DEF Types
<1>7. CASE Dump
  <2>1. UNCHANGED <<row, durable, map, cell, cached>> /\ off.pc = "dump"
    BY <1>7 DEF Dump
  <2>2. /\ off' \in OffType /\ OnlyStops /\ copies' \in [Files -> Contents \cup {None}]
        /\ \/ off'.pc = "mark" /\ off'.kind = off.kind /\ off'.vm = off.vm
           \/ off' = NoOff
           \/ off'.kind = "image" /\ off'.pc = "image" /\ off'.vm = off.vm
    BY <1>7, DumpEffect
  <2>3. OffShape'
    BY <1>1, <1>4, <2>1, <2>2 DEF OffShape
  <2> QED
    BY <1>1, <1>2, <2>1, <2>2, <2>3 DEF Types, OnlyStops
<1>8. CASE Image
  <2>1. UNCHANGED <<vm, row, durable, map, cell, cached>> /\ off.pc = "image"
    BY <1>8 DEF Image
  <2>2. /\ off' \in OffType /\ copies' \in [Files -> Contents \cup {None}]
        /\ \/ off' = NoOff
           \/ off.kind = "compact" /\ off'.pc = "mark" /\ off'.kind = off.kind /\ off'.vm = off.vm
           \/ off.kind = "image" /\ off'.pc = "undump" /\ off'.kind = off.kind /\ off'.vm = off.vm
    BY <1>8, ImageEffect
  <2>3. OffShape'
    BY <1>1, <1>4, <2>1, <2>2 DEF OffShape
  <2> QED
    BY <1>1, <1>2, <2>1, <2>2, <2>3 DEF Types
<1>9. CASE Upload
  <2>1. UNCHANGED <<vm, row, durable, map, cell, cached>> /\ off.pc = "upload"
    BY <1>9 DEF Upload
  <2>2. /\ off' \in OffType /\ copies' \in [Files -> Contents \cup {None}]
        /\ \/ off' = NoOff
           \/ off.kind = "frozen" /\ off'.pc = "mark" /\ off'.kind = off.kind /\ off'.vm = off.vm
           \/ off.kind = "compacted" /\ off'.pc = "undump" /\ off'.kind = off.kind /\ off'.vm = off.vm
    BY <1>9, UploadEffect
  <2>3. OffShape'
    BY <1>1, <1>4, <2>1, <2>2 DEF OffShape
  <2> QED
    BY <1>1, <1>2, <2>1, <2>2, <2>3 DEF Types
<1>10. CASE DeleteStaleDump
  <2>1. /\ UNCHANGED <<vm, row, durable, map, cell, cached>> /\ off.pc = "undump"
        /\ copies' = [copies EXCEPT !["dump"] = None] /\ Offload("mark") /\ "mark" \in OffPcs
    BY <1>10 DEF DeleteStaleDump, OffPcs
  <2>2. off' \in OffType /\ off'.pc = "mark" /\ off'.kind = off.kind /\ off'.vm = off.vm
    BY <1>1, <2>1, OffMoves
  <2>3. OffShape' /\ copies' \in [Files -> Contents \cup {None}]
    BY <1>1, <2>1, <2>2 DEF OffShape
  <2> QED
    BY <1>1, <1>2, <2>1, <2>2, <2>3 DEF Types
<1>11. CASE set_tier
  <2>1. UNCHANGED <<vm, copies, map, cell, cached>> /\ off.pc = "mark"
    BY <1>11 DEF set_tier
  <2>2. /\ row' \in Rows /\ row' # None /\ durable' \in Rows /\ off' \in OffType /\ off'.kind = off.kind
        /\ off'.vm = off.vm /\ off'.pc = IF off.kind \in {"frozen", "compacted"} THEN "unlink" ELSE "kill"
    BY <1>11, MarkEffect
  <2>3. OffShape'
    BY <1>1, <2>1, <2>2 DEF OffShape
  <2> QED
    BY <1>1, <1>2, <2>1, <2>2, <2>3 DEF Types
<1>12. CASE KillVM \/ Unlink
  <2>1. /\ UNCHANGED <<row, durable, map, cell, cached>> /\ Release
        /\ vm' = Kill(off.vm) \/ vm' = vm
        /\ copies' = copies \/ copies' = [copies EXCEPT ![off.kind] = None]
    BY <1>12 DEF KillVM, Unlink
  <2>2. off' = NoOff /\ vm' \in [VMs -> VmStates] /\ copies' \in [Files -> Contents \cup {None}]
    BY <1>1, <2>1 DEF Release, Kill, VmStates
  <2>3. OffShape'
    BY <1>4, <2>2 DEF OffShape
  <2> QED
    BY <1>1, <1>2, <1>4, <2>1, <2>2, <2>3 DEF Types
<1>13. CASE \E k \in AllKinds : Claim(k)
  <2>1. PICK k \in AllKinds : Claim(k)
    BY <1>13
  <2>2. /\ off' \in OffType /\ row # None
        /\ \/ off'.pc = "evict" /\ off'.kind = k /\ k # "promote"
           \/ off'.pc = "upload" /\ off'.kind \in {"frozen", "compacted"}
    BY <2>1, ClaimEffect
  <2>3. UNCHANGED <<vm, copies, row, durable, map, cell, cached>>
    BY <2>1 DEF Claim
  <2>4. OffShape'
    BY <2>2, <2>3 DEF OffShape
  <2> QED
    BY <1>1, <1>2, <2>2, <2>3, <2>4 DEF Types
<1> QED
  BY <1>5, <1>6, <1>7, <1>8, <1>9, <1>10, <1>11, <1>12, <1>13 DEF OffloadStep

\* The reapers, the purge, the registry file and a restart keep the shape.
LEMMA ShapeHost ==
    ASSUME Shape, \/ ReapIdle \/ ReapStop \/ UntrackedPass \/ \E v \in VMs : UntrackedStop(v)
                  \/ PurgeRead \/ PurgeKill \/ Flush \/ Crash \/ UNCHANGED vars
    PROVE  Shape'
<1>1. /\ Types /\ ClientShape /\ OffShape /\ cell \in [Cells -> Entries \cup {None}]
      /\ map \in Cells \cup {None} /\ vm \in [VMs -> VmStates]
  BY DEF Shape, Types
<1>2. CASE ReapIdle
  <2>1. UNCHANGED <<vm, disk, copies, row, durable, client, off, cached, suspects, confirmed, purging, acked>>
        /\ map # None /\ cell[map] # None /\ reaping' = cell[map].vm /\ map' = None /\ cell' = Held(client, map')
    BY <1>2 DEF ReapIdle, Warm
  <2>2. reaping' \in VMs /\ cell' \in [Cells -> Entries \cup {None}]
    BY <1>1, <2>1, EntryFields, HeldFields
  <2> QED
    BY <1>1, <2>1, <2>2 DEF Shape, Types, ClientShape, OffShape
<1>3. CASE ReapStop \/ \E v \in VMs : UntrackedStop(v)
  <2>1. /\ UNCHANGED <<disk, copies, row, durable, map, cell, client, off, cached, suspects, purging, acked>>
        /\ reaping' \in {reaping, None} /\ confirmed' \subseteq confirmed /\ \E v : checkpoint_and_stop(v)
    BY <1>3 DEF ReapStop, UntrackedStop
  <2>2. OnlyStops
    BY <1>1, <2>1, StopOnly
  <2> QED
    BY <1>1, <2>1, <2>2 DEF Shape, Types, ClientShape, OffShape, OnlyStops
<1>4. CASE UntrackedPass
  <2>1. /\ UNCHANGED <<vm, disk, copies, row, durable, map, cell, client, off, cached, reaping, purging, acked>>
        /\ suspects' = Untracked /\ confirmed' = suspects \cap Untracked
    BY <1>4 DEF UntrackedPass
  <2>2. Untracked \subseteq VMs
    BY DEF Untracked
  <2> QED
    BY <1>1, <2>1, <2>2 DEF Shape, Types, ClientShape, OffShape
<1>5. CASE PurgeRead
  <2>1. /\ UNCHANGED <<vm, disk, copies, row, durable, map, cell, client, off, cached, reaping, suspects, confirmed, acked>>
        /\ purging' \in VMs
    BY <1>5 DEF PurgeRead, Leftover
  <2> QED
    BY <1>1, <2>1 DEF Shape, Types, ClientShape, OffShape
<1>6. CASE PurgeKill
  <2>1. /\ UNCHANGED <<disk, copies, row, durable, map, cell, client, off, reaping, suspects, confirmed, acked>>
        /\ purging' = None /\ vm' \in {vm, Kill(purging)} /\ cached' \in {cached, None}
    BY <1>6 DEF PurgeKill
  <2>2. vm' \in [VMs -> VmStates]
    BY <1>1, <2>1 DEF Kill, VmStates
  <2> QED
    BY <1>1, <2>1, <2>2 DEF Shape, Types, ClientShape, OffShape
<1>7. CASE Flush \/ UNCHANGED vars
  <2>1. /\ UNCHANGED <<vm, disk, copies, row, map, cell, client, off, cached, reaping, suspects, confirmed, purging, acked>>
        /\ durable' \in {row, durable}
    BY <1>7 DEF Flush, vars
  <2> QED
    BY <1>1, <2>1 DEF Shape, Types, ClientShape, OffShape
<1>8. CASE Crash
  <2>1. /\ UNCHANGED <<disk, copies, durable, acked>> /\ row' = durable /\ map' = None
        /\ cell' = [k \in Cells |-> None] /\ client' = [c \in Clients |-> NoClient] /\ off' = NoOff
        /\ cached' = None /\ reaping' = None /\ purging' = None /\ suspects' = {} /\ confirmed' = {}
        /\ vm' = [v \in VMs |-> IF /\ v \in Spares /\ Exists(v)
                                   /\ durable = None \/ durable.id # v
                                THEN "spare" ELSE vm[v]]
    BY <1>8 DEF Crash
  <2>2. vm' \in [VMs -> VmStates]
    BY <1>1, <2>1 DEF VmStates
  <2>3. /\ cell' \in [Cells -> Entries \cup {None}] /\ client' \in [Clients -> ClientType] /\ off' \in OffType
        /\ \A c \in Clients : client'[c] = NoClient
    BY <2>1, NoClientFields
  <2>4. ClientShape' /\ OffShape'
    BY <2>1, <2>3, NoClientFields, Constants DEF ClientShape, OffShape, Outside, Promotes
  <2> QED
    BY <1>1, <2>1, <2>2, <2>3, <2>4 DEF Shape, Types
<1> QED
  BY <1>2, <1>3, <1>4, <1>5, <1>6, <1>7, <1>8

\* The shape holds at the start.
LEMMA ShapeInit == Init => Shape
<1> SUFFICES ASSUME Init PROVE Shape
  OBVIOUS
<1>1. client \in [Clients -> ClientType] /\ off = NoOff /\ off \in OffType /\ \A c \in Clients : client[c] = NoClient
  BY NoClientFields DEF Init
<1>2. ClientShape /\ OffShape
  BY <1>1, NoClientFields, Constants DEF ClientShape, OffShape, Outside, Promotes
<1>3. /\ vm \in [VMs -> VmStates] /\ disk \in [VMs -> Contents] /\ copies \in [Files -> Contents \cup {None}]
      /\ cell \in [Cells -> Entries \cup {None}]
  BY DEF Init, VmStates, Contents
<1>4. acked \in 0..MaxWrites /\ row \in Rows /\ durable \in Rows
  BY Constants DEF Init, Rows
<1> QED
  BY <1>1, <1>2, <1>3, <1>4 DEF Init, Shape, Types

\* Every step keeps the shape.
LEMMA ShapeNext ==
    ASSUME Shape, [Next]_vars
    PROVE  Shape'
<1>1. CASE \E c \in Clients : Checkout(c) \/ ClientStep(c) \/ Write(c) \/ Disconnect(c)
  BY <1>1, ShapeCheckout, ShapeBringUp DEF ClientStep
<1>2. CASE OffloadStep \/ \E k \in AllKinds : Claim(k)
  BY <1>2, ShapeOffload
<1>3. CASE \/ ReapIdle \/ ReapStop \/ UntrackedPass \/ \E v \in VMs : UntrackedStop(v)
           \/ PurgeRead \/ PurgeKill \/ Flush \/ Crash \/ UNCHANGED vars
  BY <1>3, ShapeHost
<1> QED
  BY <1>1, <1>2, <1>3 DEF Next

\* A race that was lost stays lost.
LEMMA RacesGrow ==
    ASSUME [Next]_vars
    PROVE  races \subseteq races' /\ (races \subseteq Races => races' \subseteq Races)
<1>1. CASE UNCHANGED races
  BY <1>1
<1>2. CASE \E n \in Races : \E lost \in BOOLEAN : Race(n, lost)
  BY <1>2 DEF Race
<1>3. UNCHANGED races \/ \E n \in Races : \E lost \in BOOLEAN : Race(n, lost)
  <2> USE DEF Races
  <2>1. CASE UNCHANGED vars
    BY <2>1 DEF vars
  <2>2. CASE \E c \in Clients : Checkout(c) \/ ClientStep(c) \/ Write(c) \/ Disconnect(c)
    BY <2>2 DEF ClientStep, Checkout, PassOffload, Lookup, Acquire, InitCell, Boot, BringUp, BringUpFails,
       Bind, Admit, Write, Disconnect
  <2>3. CASE \E k \in AllKinds : Claim(k)
    BY <2>3 DEF Claim
  <2>4. CASE OffBoot
    <3>1. UNCHANGED races \/ \E v : Race("reattach", PassedOver(off.vm, v))
      BY <2>4 DEF OffBoot
    <3> QED
      BY <3>1 DEF PassedOver
  <2>5. CASE \/ Evict \/ Dump \/ Image \/ Upload \/ DeleteStaleDump \/ set_tier \/ KillVM \/ Unlink
             \/ ReapIdle \/ ReapStop \/ UntrackedPass \/ (\E v \in VMs : UntrackedStop(v))
             \/ PurgeRead \/ Flush
    BY <2>5 DEF Evict, Dump, Image, Upload, DeleteStaleDump, set_tier, KillVM, Unlink,
       ReapIdle, ReapStop, UntrackedPass, UntrackedStop, PurgeRead, Flush
  <2>6. CASE PurgeKill
    <3>1. UNCHANGED races \/ Race("purge", Serves(purging))
      BY <2>6 DEF PurgeKill
    <3> QED
      BY <3>1 DEF Serves
  <2>7. CASE Crash
    <3>1. Race("restart", durable # row \/ \E c \in Clients : Unbound(c))
      BY <2>7 DEF Crash
    <3> QED
      BY <3>1
  <2> QED
    BY <2>1, <2>2, <2>3, <2>4, <2>5, <2>6, <2>7 DEF Next, OffloadStep
<1> QED
  BY <1>1, <1>2, <1>3

\* The state of the pooler, the daemon and the stores has its type, whatever
\* races are lost and whatever fails.
THEOREM TypeCorrect == Spec => []TypeOK
<1> DEFINE I == Shape /\ races \subseteq Races
<1>1. I /\ [Next]_vars => I'
  BY ShapeNext, RacesGrow
<1>2. I => TypeOK
  BY TypesOK DEF Shape
<1>3. Init => I
  BY ShapeInit DEF Init
<1> QED
  BY <1>1, <1>2, <1>3, PTL DEF Spec

-----------------------------------------------------------------------------
(* Before the first race: checkouts *)

\* While a checkout is on its way no offload holds the schema.
LEMMA NotArchiving ==
    ASSUME SerialInv, NEW c \in Clients, client[c].pc \notin {"idle", "start", "session"}
    PROVE  off.pc = "idle"
  BY DEF SerialInv, OffInv, Archiving, InFlight

\* Without an offload nothing is claimed of one.
LEMMA OffIdle == off'.pc = "idle" => OffInv'
  BY DEF OffInv, Archiving

\* An offload at work is undisturbed by what leaves its schema alone.
LEMMA OffKept ==
    ASSUME SerialInv, UNCHANGED <<off, row, map, copies, acked>>, InFlight' \subseteq InFlight
    PROVE  OffInv'
<1>1. \A f : Holds(f)' = Holds(f)
  BY DEF Holds
<1> QED
  BY <1>1 DEF SerialInv, OffInv, Archiving

\* No checkout binds its VM, or comes to the point where it will.
SameBinds ==
    /\ row' = row
    /\ \A d \in Clients : client'[d].pc = "bind" \/ client[d].pc = "bind" => client'[d] = client[d]

\* Then the bring-ups that are not recorded are the same.
LEMMA BindsSame ==
    ASSUME SameBinds
    PROVE  /\ \A d \in Clients : Unbound(d)' <=> Unbound(d)
           /\ \A d \in Clients : Unbound(d) => client'[d] = client[d]
           /\ \A k \in Cells : cell'[k].vm = cell[k].vm /\ Serving(k) => Serving(k)'
<1>1. \A d \in Clients : (Unbound(d)' <=> Unbound(d)) /\ (Unbound(d) => client'[d] = client[d])
  BY DEF SameBinds, Unbound
<1>2. ASSUME NEW k \in Cells, cell'[k].vm = cell[k].vm, Serving(k) PROVE Serving(k)'
  BY <1>1, <1>2 DEF Serving, SameBinds, LiveRow
<1> QED
  BY <1>1, <1>2

\* What is said of them is kept while their VMs are left alone.
LEMMA UnboundKept ==
    ASSUME SerialInv, SameBinds, UNCHANGED <<disk, acked>>,
           \A d \in Clients : Unbound(d) => vm'[client[d].vm] \in {"running", "stopped"},
           \A d, e \in Clients : Unbound(e) /\ Uninit(d)' => Uninit(d)
    PROVE  UnboundInv'
<1> SUFFICES ASSUME NEW c \in Clients, Unbound(c)'
             PROVE  /\ row' = None \/ row'.tier # "live"
                    /\ Exists(client[c].vm)' /\ 1..acked' \subseteq disk'[client'[c].vm]
                    /\ \A d \in Clients : ~Uninit(d)' /\ (Unbound(d)' => client'[d].cell = client'[c].cell)
  BY DEF UnboundInv
<1>1. Unbound(c) /\ client'[c] = client[c] /\ row' = row
  BY BindsSame DEF SameBinds
<1>2. \A d \in Clients : Unbound(d)' => Unbound(d) /\ client'[d] = client[d]
  BY BindsSame
<1> QED
  BY <1>1, <1>2 DEF SerialInv, UnboundInv, Exists

\* What the row says is kept while nothing it names is touched.
LEMMA PlaceKept ==
    ASSUME SerialInv, UNCHANGED <<row, disk, copies, acked>>,
           (\E d \in Clients : Unbound(d)) => \E d \in Clients : Unbound(d)',
           row # None /\ row.tier = "live" => vm'[row.id] \in {"running", "stopped"}
    PROVE  PlaceInv' /\ RestoreOf(row)' = RestoreOf(row)
<1>1. RestoreOf(row)' = RestoreOf(row)
  BY DEF RestoreOf, pick_restore
<1>2. Holds(RestoreOf(row))' = Holds(RestoreOf(row))
  BY <1>1 DEF Holds
<1> QED
  BY <1>1, <1>2 DEF SerialInv, PlaceInv, Exists

\* A client asks, and passes the offload check.
LEMMA StartInv ==
    ASSUME SerialInv, NEW c \in Clients, Checkout(c) \/ PassOffload(c)
    PROVE  SerialInv'
<1>1. /\ UNCHANGED <<vm, disk, copies, row, durable, map, cell, off, cached, reaping, suspects, confirmed, purging, acked>>
      /\ client[c].pc \in {"idle", "start"} /\ Shape /\ Shape'
      /\ PassOffload(c) => ~Archiving
  BY ShapeCheckout DEF SerialInv, Checkout, PassOffload
<1>2. /\ OnlyClient(c) /\ client'[c].cell = client[c].cell /\ client'[c].pc \in {"start", "checked"}
      /\ Checkout(c) => client'[c].pc = "start"
  BY <1>1, MoveEffect
<1>b. SameBinds
  BY <1>1, <1>2 DEF SameBinds, OnlyClient
<1>3. PlaceInv' /\ RestoreOf(row)' = RestoreOf(row)
  BY <1>1, <1>b, BindsSame, PlaceKept DEF SerialInv, PlaceInv, Exists
<1>u. UnboundInv'
  <2>1. \A d \in Clients : Uninit(d)' => Uninit(d)
    BY <1>1, <1>2 DEF Uninit, OnlyClient
  <2> QED
    BY <1>1, <1>b, <2>1, UnboundKept DEF SerialInv, UnboundInv, Exists
<1>4. \A k : Alive(k)' = Alive(k)
  BY <1>1 DEF Alive
<1>5. CellInv'
  <2>1. \A d \in Clients : client'[d].cell = client[d].cell
    BY <1>2 DEF OnlyClient
  <2>2. \A k \in Cells : Serving(k) => Serving(k)'
    BY <1>1, <1>b, BindsSame
  <2> QED
    BY <1>1, <1>4, <2>1, <2>2 DEF SerialInv, CellInv
<1>6. CheckoutInv'
  <2>1. \A k \in Cells : Serving(k) => Serving(k)'
    BY <1>1, <1>b, BindsSame
  <2>2. \A d \in Clients : client[d].pc \in {"init", "bind"} => client[d].cell \in Cells
    BY <1>1 DEF Shape, ClientShape, Outside
  <2> QED
    BY <1>1, <1>2, <1>3, <2>1, <2>2 DEF SerialInv, CheckoutInv, Uninit, OnlyClient
<1>7. BringUpInv'
  BY <1>1, <1>2 DEF SerialInv, BringUpInv, OnlyClient
<1>8. OffInv'
  <2>1. CASE Checkout(c)
    <3>1. InFlight' \subseteq InFlight
      BY <1>2, <2>1 DEF InFlight, OnlyClient
    <3> QED
      BY <1>1, <3>1, OffKept
  <2>2. CASE PassOffload(c)
    BY <1>1, <2>2, OffIdle DEF Archiving
  <2> QED
    BY <2>1, <2>2
<1> QED
  BY <1>1, <1>3, <1>u, <1>5, <1>6, <1>7, <1>8 DEF SerialInv

\* A checkout joins the current cell or makes a new one, and reads the row.
LEMMA LookupInv ==
    ASSUME races' = {}, SerialInv, NEW c \in Clients, Lookup(c)
    PROVE  SerialInv'
<1>1. /\ UNCHANGED <<vm, disk, copies, row, durable, cell, off, cached, reaping, suspects, confirmed, purging, acked>>
      /\ client[c].pc = "checked" /\ Shape /\ Shape' /\ client[c].cell \notin Cells
      /\ \A d \in Clients : client[d].pc \notin Outside => client[d].cell \in Cells
      /\ map \in Cells \cup {None}
  BY ShapeCheckout DEF SerialInv, Lookup, Shape, ClientShape, Outside, Types
<1>2. /\ OnlyClient(c) /\ map' \in Cells /\ client'[c].cell = map'
      /\ client'[c].vm = None /\ ~client'[c].made
      /\ map # None => map' = map
      /\ map = None => \A d \in Clients : client[d].cell # map'
      /\ Warm => client'[c].pc = "warm"
      /\ ~Warm => /\ client'[c].pc = "init" /\ client'[c].src = RestoreOf(row)
                  /\ client'[c].known = IF row = None THEN None ELSE row.id
  BY <1>1, LookupEffect
<1>b. SameBinds
  BY <1>1, <1>2 DEF SameBinds, OnlyClient
<1>r. Warm \/ \A d \in Clients : ~Unbound(d)
  <2>1. Race("rebind", ~Warm /\ \E d \in Clients : Unbound(d))
    BY DEF Lookup
  <2> QED
    BY <2>1 DEF Race
<1>3. PlaceInv' /\ RestoreOf(row)' = RestoreOf(row)
  BY <1>1, <1>b, BindsSame, PlaceKept DEF SerialInv, PlaceInv, Exists
<1>u. UnboundInv'
  <2>1. \A d, e \in Clients : Unbound(e) /\ Uninit(d)' => Uninit(d)
    BY <1>1, <1>2, <1>r DEF Uninit, OnlyClient
  <2> QED
    BY <1>1, <1>b, <2>1, UnboundKept DEF SerialInv, UnboundInv, Exists
<1>4. \A k : Alive(k)' = Alive(k)
  BY <1>1 DEF Alive
<1>5. map = None => cell[map'] = None
  BY <1>2, Constants DEF SerialInv, CellInv
<1>6. Warm => cell'[map'] # None
  BY <1>1, <1>2 DEF Warm
<1>7. ~Warm => cell'[map'] = None
  BY <1>1, <1>2, <1>5 DEF Warm
<1>8. CellInv'
  <2> SUFFICES ASSUME NEW k \in Cells, cell'[k] # None
               PROVE  /\ k = map' \/ \E d \in Clients : client'[d].cell = k
                      /\ Alive(k) => k = map' /\ Serving(k)'
    BY <1>4 DEF CellInv
  <2>1. /\ k = map \/ \E d \in Clients : client[d].cell = k
        /\ Alive(k) => k = map /\ Serving(k)
    BY <1>1 DEF SerialInv, CellInv
  <2>4. Serving(k) => Serving(k)'
    BY <1>1, <1>b, BindsSame
  <2>2. k = map => map' = k
    BY <1>2, Constants
  <2>3. \A d \in Clients : client[d].cell = k => client'[d].cell = k
    BY <1>1, <1>2 DEF OnlyClient
  <2> QED
    BY <1>1, <2>1, <2>2, <2>3, <2>4
<1>9. CheckoutInv'
  <2> SUFFICES ASSUME NEW d \in Clients
               PROVE  /\ client'[d].pc \in {"warm", "bind", "admit", "session"} => cell'[client'[d].cell] # None
                      /\ client'[d].pc \in {"boot", "ready"} => cell'[client'[d].cell] = None
                      /\ Uninit(d)' => /\ client'[d].cell = map' /\ client'[d].src = RestoreOf(row)
                                       /\ client'[d].known = IF row = None THEN None ELSE row.id
                      /\ client'[d].pc \in {"init", "bind"} /\ cell'[client'[d].cell] # None =>
                            Serving(client[d].cell)'
                      /\ client'[d].pc = "bind" => client'[d].vm = cell'[client'[d].cell].vm
    BY <1>1, <1>3 DEF CheckoutInv
  <2>1. CASE d = c
    BY <1>2, <1>6, <1>7, <2>1 DEF Uninit
  <2>2. CASE d # c
    <3>1. client'[d] = client[d]
      BY <1>2, <2>2 DEF OnlyClient
    <3>2. Uninit(d)' => Uninit(d) /\ client[d].cell = map
      BY <1>1, <3>1 DEF Uninit, SerialInv, CheckoutInv
    <3>3. Uninit(d) => client[d].cell \in Cells
      BY <1>1 DEF Uninit, Outside
    <3>4. Uninit(d)' => map' = map
      BY <1>2, <3>2, <3>3, Constants
    <3>5. client[d].pc \in {"init", "bind"} => (Serving(client[d].cell) => Serving(client[d].cell)')
      <4>1. client[d].pc \in {"init", "bind"} => client[d].cell \in Cells
        BY <1>1 DEF Outside
      <4> QED
        BY <1>1, <1>b, <3>1, <4>1, BindsSame
    <3> QED
      BY <1>1, <3>1, <3>2, <3>4, <3>5 DEF SerialInv, CheckoutInv
  <2> QED
    BY <2>1, <2>2
<1>10. BringUpInv'
  <2>1. client'[c].pc \in {"warm", "init"}
    BY <1>2
  <2> QED
    BY <1>1, <1>2, <2>1 DEF SerialInv, BringUpInv, OnlyClient
<1>11. OffInv'
  BY <1>1, NotArchiving, OffIdle
<1> QED
  BY <1>1, <1>3, <1>u, <1>8, <1>9, <1>10, <1>11 DEF SerialInv

\* A checkout ends, in a slot of its cell or without one, and a dead entry may be
\* evicted: the entries of the cells that are still held stay.
LEMMA LeaveInv ==
    ASSUME SerialInv, NEW c \in Clients, OnlyClient(c), cell' = Held(client', map'),
           UNCHANGED <<row, copies, disk, acked>>,
           \A v \in VMs : vm'[v] = "running" => vm[v] = "running",
           map' = map \/ (map' = None /\ map \in Cells /\ cell[map] # None /\ ~Alive(map)),
           \/ client'[c].pc \in {"idle", "start"}
           \/ client'[c].pc = "session" /\ client'[c].cell = client[c].cell /\ client[c].pc \in {"warm", "admit"},
           client[c].pc # "bind", \A d \in Clients : Unbound(d) => vm'[client[d].vm] \in {"running", "stopped"}
    PROVE  CellInv' /\ CheckoutInv' /\ BringUpInv' /\ UnboundInv' /\ \A d \in Clients : Unbound(d)' <=> Unbound(d)
<1>1. /\ Types /\ cell \in [Cells -> Entries \cup {None}]
      /\ \A d \in Clients : client[d].pc \notin Outside => client[d].cell \in Cells
  BY DEF SerialInv, Shape, ClientShape, Types
<1>2. /\ \A k \in Cells : /\ cell'[k] \in {cell[k], None}
                          /\ (\E d \in Clients : client'[d].cell = k) => cell'[k] = cell[k]
                          /\ cell'[k] # None => k = map' \/ \E d \in Clients : client'[d].cell = k
  BY <1>1, HeldFields
<1>3. RestoreOf(row)' = RestoreOf(row)
  BY DEF RestoreOf, pick_restore
<1>b. SameBinds
  BY DEF SameBinds, OnlyClient
<1>4. CellInv'
  <2> SUFFICES ASSUME NEW k \in Cells, cell'[k] # None
               PROVE  /\ k = map' \/ \E d \in Clients : client'[d].cell = k
                      /\ Alive(k)' => k = map' /\ Serving(k)'
    BY DEF CellInv
  <2>1. cell'[k] = cell[k] /\ cell[k].vm \in VMs
    BY <1>1, <1>2, EntryFields
  <2>2. Alive(k)' => Alive(k)
    BY <2>1 DEF Alive
  <2>3. Alive(k) => k = map /\ Serving(k)
    BY <2>1 DEF SerialInv, CellInv
  <2>4. Serving(k) => Serving(k)'
    BY <1>b, <2>1, BindsSame
  <2> QED
    BY <1>2, <2>1, <2>2, <2>3, <2>4
<1>5. CheckoutInv'
  <2> SUFFICES ASSUME NEW d \in Clients
               PROVE  /\ client'[d].pc \in {"warm", "bind", "admit", "session"} => cell'[client'[d].cell] # None
                      /\ client'[d].pc \in {"boot", "ready"} => cell'[client'[d].cell] = None
                      /\ Uninit(d)' => /\ client'[d].cell = map' /\ client'[d].src = RestoreOf(row)
                                       /\ client'[d].known = IF row = None THEN None ELSE row.id
                      /\ client'[d].pc \in {"init", "bind"} /\ cell'[client'[d].cell] # None =>
                            Serving(client[d].cell)'
                      /\ client'[d].pc = "bind" => client'[d].vm = cell'[client'[d].cell].vm
    BY <1>3 DEF CheckoutInv
  <2>1. CASE d = c
    <3>1. CASE client'[c].pc \in {"idle", "start"}
      BY <2>1, <3>1 DEF Uninit
    <3>2. CASE client'[c].pc = "session" /\ client'[c].cell = client[c].cell /\ client[c].pc \in {"warm", "admit"}
      <4>1. client[c].cell \in Cells /\ cell[client[c].cell] # None
        BY <1>1, <3>2 DEF Outside, SerialInv, CheckoutInv
      <4>2. cell'[client'[c].cell] # None
        BY <1>2, <3>2, <4>1
      <4> QED
        BY <2>1, <3>2, <4>2 DEF Uninit
    <3> QED
      BY <3>1, <3>2
  <2>2. CASE d # c
    <3>1. client'[d] = client[d]
      BY <2>2 DEF OnlyClient
    <3>2. client[d].pc \notin Outside => cell'[client[d].cell] = cell[client[d].cell]
      BY <1>1, <1>2, <3>1
    <3>3. Uninit(d)' => Uninit(d)
      BY <3>1, <3>2 DEF Uninit, Outside
    <3>4. Uninit(d) => client[d].cell = map /\ cell[map] = None
      BY DEF Uninit, SerialInv, CheckoutInv
    <3>5. Uninit(d)' => map' = map
      BY <3>3, <3>4
    <3>6. client[d].pc \in {"init", "bind"} => (Serving(client[d].cell) => Serving(client[d].cell)')
      <4>1. client[d].pc \in {"init", "bind"} => client[d].cell \in Cells /\ cell'[client[d].cell] = cell[client[d].cell]
        BY <1>1, <3>2 DEF Outside
      <4> QED
        BY <1>b, <3>1, <4>1, BindsSame
    <3> QED
      BY <3>1, <3>2, <3>3, <3>5, <3>6 DEF SerialInv, CheckoutInv, Outside
  <2> QED
    BY <2>1, <2>2
<1>6. BringUpInv'
  BY DEF SerialInv, BringUpInv, OnlyClient
<1>7. UnboundInv'
  <2>1. \A d \in Clients : Uninit(d)' => Uninit(d)
    <3>1. client'[c].pc \in {"idle", "start", "session"}
      OBVIOUS
    <3>2. \A d \in Clients \ {c} : client[d].pc \in {"init", "boot", "ready"} => cell'[client[d].cell] = cell[client[d].cell]
      BY <1>1, <1>2 DEF OnlyClient, Outside
    <3> QED
      BY <3>1, <3>2 DEF Uninit, OnlyClient
  <2> QED
    BY <1>b, <2>1, UnboundKept
<1> QED
  BY <1>4, <1>5, <1>6, <1>7, <1>b, BindsSame

\* A slot of a warm entry, or the eviction of a dead one.
LEMMA AcquireInv ==
    ASSUME SerialInv, NEW c \in Clients, Acquire(c)
    PROVE  SerialInv'
<1>1. /\ UNCHANGED <<vm, disk, copies, row, durable, off, cached, reaping, suspects, confirmed, purging, acked>>
      /\ client[c].pc = "warm" /\ Shape /\ Shape'
  BY ShapeCheckout DEF SerialInv, Acquire
<1>2. client[c].cell \in Cells /\ cell[client[c].cell] # None
  BY <1>1 DEF SerialInv, CheckoutInv, Shape, ClientShape, Outside
<1>3. /\ OnlyClient(c) /\ cell' = Held(client', map')
      /\ \/ client'[c] = NoClient /\ map' = map
         \/ /\ map' = map /\ client'[c].pc = "session" /\ client'[c].cell = client[c].cell
         \/ /\ ~Alive(client[c].cell) /\ map' = IF map = client[c].cell THEN None ELSE map
            /\ client'[c].pc = "start"
  BY <1>1, AcquireEffect
<1>4. map' = map \/ (map' = None /\ map \in Cells /\ cell[map] # None /\ ~Alive(map))
  BY <1>2, <1>3
<1>5. \/ client'[c].pc \in {"idle", "start"}
      \/ client'[c].pc = "session" /\ client'[c].cell = client[c].cell /\ client[c].pc \in {"warm", "admit"}
  BY <1>1, <1>3, NoClientFields
<1>e. \A d \in Clients : Unbound(d) => vm'[client[d].vm] \in {"running", "stopped"}
  BY <1>1 DEF SerialInv, UnboundInv, Exists
<1>6. CellInv' /\ CheckoutInv' /\ BringUpInv' /\ UnboundInv' /\ \A d \in Clients : Unbound(d)' <=> Unbound(d)
  BY <1>1, <1>e, <1>3, <1>4, <1>5, LeaveInv
<1>7. PlaceInv'
  BY <1>1, <1>6, PlaceKept DEF SerialInv, PlaceInv, Exists
<1>8. OffInv'
  BY <1>1, NotArchiving, OffIdle
<1> QED
  BY <1>1, <1>6, <1>7, <1>8 DEF SerialInv

\* A slot after a bring-up, and the end of a session.
LEMMA AdmitInv ==
    ASSUME SerialInv, NEW c \in Clients, Admit(c) \/ Disconnect(c)
    PROVE  SerialInv'
<1>1. /\ UNCHANGED <<vm, disk, copies, row, durable, map, off, cached, reaping, suspects, confirmed, purging, acked>>
      /\ client[c].pc \in {"admit", "session"} /\ Shape /\ Shape' /\ (Admit(c) => client[c].pc = "admit")
      /\ (Disconnect(c) => client[c].pc = "session")
  BY ShapeBringUp DEF SerialInv, Admit, Disconnect
<1>2. /\ OnlyClient(c) /\ cell' = Held(client', map')
      /\ \/ client'[c] = NoClient
         \/ Admit(c) /\ client'[c].pc = "session" /\ client'[c].cell = client[c].cell
  BY <1>1, EndEffect
<1>3. \/ client'[c].pc \in {"idle", "start"}
      \/ client'[c].pc = "session" /\ client'[c].cell = client[c].cell /\ client[c].pc \in {"warm", "admit"}
  BY <1>1, <1>2, NoClientFields
<1>e. \A d \in Clients : Unbound(d) => vm'[client[d].vm] \in {"running", "stopped"}
  BY <1>1 DEF SerialInv, UnboundInv, Exists
<1>4. CellInv' /\ CheckoutInv' /\ BringUpInv' /\ UnboundInv' /\ \A d \in Clients : Unbound(d)' <=> Unbound(d)
  BY <1>1, <1>e, <1>2, <1>3, LeaveInv
<1>5. PlaceInv'
  BY <1>1, <1>4, PlaceKept DEF SerialInv, PlaceInv, Exists
<1>6. OffInv'
  <2>1. InFlight' \subseteq InFlight
    BY <1>2, <1>3 DEF InFlight, OnlyClient
  <2> QED
    BY <1>1, <2>1, OffKept
<1> QED
  BY <1>1, <1>4, <1>5, <1>6 DEF SerialInv

\* A checkout waits for the entry of its cell or takes its turn to make it.
LEMMA InitCellInv ==
    ASSUME SerialInv, NEW c \in Clients, InitCell(c)
    PROVE  SerialInv'
<1>1. /\ UNCHANGED <<vm, disk, copies, row, durable, map, cell, off, cached, reaping, suspects, confirmed, purging, acked>>
      /\ client[c].pc = "init" /\ Shape /\ Shape'
  BY ShapeCheckout DEF SerialInv, InitCell
<1>2. /\ OnlyClient(c) /\ client'[c].cell = client[c].cell /\ client'[c].src = client[c].src
      /\ client'[c].known = client[c].known /\ client'[c].made = client[c].made
      /\ \/ /\ cell[client[c].cell] # None
            /\ client'[c].pc = "bind" /\ client'[c].vm = cell[client[c].cell].vm
         \/ /\ cell[client[c].cell] = None /\ client'[c].pc = "boot"
            /\ ~\E d \in Clients : client[d].pc \in {"boot", "ready"} /\ client[d].cell = client[c].cell
  BY <1>1, InitEffect
<1>b. \A d \in Clients : Unbound(d) => Unbound(d)' /\ client'[d] = client[d]
  BY <1>1, <1>2 DEF Unbound, OnlyClient
<1>c. Unbound(c)' => /\ cell[client[c].cell] # None /\ client'[c].vm = cell[client[c].cell].vm
                     /\ \E e \in Clients : Unbound(e) /\ client[e].cell = client[c].cell
                                          /\ client[e].vm = cell[client[c].cell].vm
  <2> SUFFICES ASSUME Unbound(c)'
               PROVE  /\ cell[client[c].cell] # None /\ client'[c].vm = cell[client[c].cell].vm
                      /\ \E e \in Clients : Unbound(e) /\ client[e].cell = client[c].cell
                                           /\ client[e].vm = cell[client[c].cell].vm
    OBVIOUS
  <2>1. cell[client[c].cell] # None /\ client'[c].vm = cell[client[c].cell].vm /\ row # LiveRow(client'[c].vm)
    BY <1>1, <1>2 DEF Unbound, LiveRow
  <2>2. Serving(client[c].cell)
    BY <1>1, <2>1 DEF SerialInv, CheckoutInv
  <2>3. PICK e \in Clients : Unbound(e) /\ client[e].cell = client[c].cell
    BY <2>1, <2>2 DEF Serving
  <2>4. client[e].vm = cell[client[e].cell].vm
    BY <2>3 DEF Unbound, SerialInv, CheckoutInv
  <2> QED
    BY <2>1, <2>3, <2>4
<1>d. \A d \in Clients \ {c} : Unbound(d)' <=> Unbound(d)
  BY <1>1, <1>2 DEF Unbound, OnlyClient
<1>s. \A k \in Cells : Serving(k) => Serving(k)'
  BY <1>1, <1>b DEF Serving, LiveRow
<1>3. PlaceInv' /\ RestoreOf(row)' = RestoreOf(row)
  BY <1>1, <1>b, PlaceKept DEF SerialInv, PlaceInv, Exists
<1>u. UnboundInv'
  <2> SUFFICES ASSUME NEW d \in Clients, Unbound(d)'
               PROVE  /\ row' = None \/ row'.tier # "live"
                      /\ Exists(client[d].vm)' /\ 1..acked' \subseteq disk'[client'[d].vm]
                      /\ \A x \in Clients : ~Uninit(x)' /\ (Unbound(x)' => client'[x].cell = client'[d].cell)
    BY DEF UnboundInv
  <2>1. \A x \in Clients : Unbound(x)' => \E e \in Clients : Unbound(e) /\ client[e].cell = client'[x].cell
                                                         /\ client[e].vm = client'[x].vm
    BY <1>b, <1>c, <1>d, <1>2
  <2>2. PICK e \in Clients : Unbound(e) /\ client[e].cell = client'[d].cell /\ client[e].vm = client'[d].vm
    BY <2>1
  <2>3. /\ row = None \/ row.tier # "live"
        /\ Exists(client[e].vm) /\ 1..acked \subseteq disk[client[e].vm]
        /\ \A x \in Clients : ~Uninit(x) /\ (Unbound(x) => client[x].cell = client[e].cell)
    BY <2>2 DEF SerialInv, UnboundInv
  <2>4. \A x \in Clients : Uninit(x)' => Uninit(x)
    BY <1>1, <1>2 DEF Uninit, OnlyClient
  <2>5. \A x \in Clients : Unbound(x)' => client'[x].cell = client'[d].cell
    BY <2>1, <2>2, <2>3
  <2> QED
    BY <1>1, <2>2, <2>3, <2>4, <2>5 DEF Exists
<1>4. CellInv'
  <2>1. \A k : Alive(k)' = Alive(k)
    BY <1>1 DEF Alive
  <2>2. \A d \in Clients : client'[d].cell = client[d].cell
    BY <1>2 DEF OnlyClient
  <2> QED
    BY <1>1, <1>s, <2>1, <2>2 DEF SerialInv, CellInv
<1>5. CheckoutInv'
  <2>1. \A d \in Clients : client[d].pc \in {"init", "bind"} => client[d].cell \in Cells
    BY <1>1 DEF Shape, ClientShape, Outside
  <2>2. \A d \in Clients : client'[d].cell = client[d].cell
    BY <1>2 DEF OnlyClient
  <2> QED
    BY <1>1, <1>2, <1>3, <1>s, <2>1, <2>2 DEF SerialInv, CheckoutInv, Uninit, OnlyClient
<1>6. BringUpInv'
  <2>1. client'[c].pc = "boot" => \A d \in Clients : client[d].pc \notin {"boot", "ready"}
    <3>1. \A d \in Clients : client[d].pc \in {"boot", "ready"} => client[d].cell = map
      BY DEF SerialInv, CheckoutInv, Uninit
    <3>2. client'[c].pc = "boot" => client[c].cell = map
      BY <1>1, <1>2 DEF SerialInv, CheckoutInv, Uninit
    <3> QED
      BY <1>2, <3>1, <3>2
  <2> QED
    BY <1>1, <1>2, <2>1 DEF SerialInv, BringUpInv, OnlyClient
<1>7. OffInv'
  BY <1>1, NotArchiving, OffIdle
<1> QED
  BY <1>1, <1>3, <1>u, <1>4, <1>5, <1>6, <1>7 DEF SerialInv

\* During a bring-up nothing serves: its cell is the current one, without an entry.
LEMMA BringUpAlone ==
    ASSUME SerialInv, NEW c \in Clients, client[c].pc \in {"boot", "ready"}
    PROVE  /\ client[c].cell = map /\ map \in Cells /\ cell[map] = None
           /\ client[c].src = RestoreOf(row)
           /\ client[c].known = IF row = None THEN None ELSE row.id
           /\ \A k \in Cells : cell[k] # None => ~Alive(k)
           /\ \A d \in Clients \ {c} : client[d].pc \notin {"boot", "ready"}
           /\ \A d \in Clients : ~Unbound(d)
           /\ off.pc = "idle" /\ row \in Rows /\ Types
<1>1. client[c].cell = map /\ cell[map] = None /\ client[c].src = RestoreOf(row)
      /\ client[c].known = IF row = None THEN None ELSE row.id
  BY DEF SerialInv, CheckoutInv, Uninit
<1>2. map \in Cells /\ row \in Rows /\ Types
  BY <1>1 DEF SerialInv, Shape, ClientShape, Types, Outside
<1>3. \A k \in Cells : cell[k] # None => ~Alive(k)
  BY <1>1 DEF SerialInv, CellInv
<1>4. \A d \in Clients \ {c} : client[d].pc \notin {"boot", "ready"}
  BY DEF SerialInv, BringUpInv
<1>5. off.pc = "idle"
  BY NotArchiving
<1>6. \A d \in Clients : ~Unbound(d)
  <2>1. Uninit(c)
    BY DEF Uninit, SerialInv, CheckoutInv
  <2> QED
    BY <2>1 DEF SerialInv, UnboundInv
<1> QED
  BY <1>1, <1>2, <1>3, <1>4, <1>5, <1>6

\* The VM of the bring-up is the one of a live row.
LEMMA BootInv ==
    ASSUME races = {}, races' = {}, SerialInv, NEW c \in Clients, Boot(c)
    PROVE  SerialInv'
<1>1. /\ UNCHANGED <<copies, row, durable, map, off, reaping, suspects, confirmed, purging, acked>>
      /\ client[c].pc = "boot" /\ Shape /\ Shape'
  BY ShapeBringUp DEF SerialInv, Boot
<1>2. /\ client[c].cell = map /\ map \in Cells /\ cell[map] = None
      /\ client[c].src = RestoreOf(row)
      /\ client[c].known = IF row = None THEN None ELSE row.id
      /\ \A k \in Cells : cell[k] # None => ~Alive(k)
      /\ \A d \in Clients \ {c} : client[d].pc \notin {"boot", "ready"}
      /\ \A d \in Clients : ~Unbound(d)
      /\ off.pc = "idle" /\ row \in Rows /\ Types
  BY <1>1, BringUpAlone
<1>3. PICK b \in Candidates(c) :
          /\ b[1] \in VMs
          /\ vm' = [vm EXCEPT ![b[1]] = "running"]
          /\ disk' = IF client[c].src \in {"compacted", "image"}
                     THEN [disk EXCEPT ![b[1]] = copies[client[c].src]] ELSE disk
          /\ cell' = AfterStart(b[1])
          /\ OnlyClient(c) /\ client'[c].pc = "ready" /\ client'[c].vm = b[1]
          /\ client'[c].made = b[2] /\ client'[c].cell = client[c].cell
          /\ client'[c].src = client[c].src /\ client'[c].known = client[c].known
          /\ client[c].src = "none" => ~PassedOver(client[c].known, b[1])
  BY <1>1, BootEffect
<1> DEFINE v == b[1]
<1>b. SameBinds
  BY <1>1, <1>3 DEF SameBinds, OnlyClient
<1>u. UnboundInv' /\ \A d \in Clients : ~Unbound(d)'
  BY <1>2, <1>b, BindsSame DEF UnboundInv
<1>4. row # None /\ row.tier = "live" => v = row.id /\ b[2] = FALSE /\ disk' = disk
  <2> SUFFICES ASSUME row # None, row.tier = "live"
               PROVE  v = row.id /\ b[2] = FALSE /\ disk' = disk
    OBVIOUS
  <2>1. client[c].src = "none" /\ client[c].known = row.id /\ row.id \in VMs
    BY <1>2, RestoreFields, RowFields
  <2>2. Exists(row.id) /\ row.id # None
    BY <2>1, Constants DEF SerialInv, PlaceInv
  <2>3. b \in Resolved(row.id, TRUE)
    BY <1>3, <2>1 DEF Candidates
  <2>4. v = row.id
    BY <1>3, <2>1, <2>2 DEF PassedOver
  <2>5. disk' = disk
    BY <1>3, <2>1
  <2> QED
    BY <1>2, <2>1, <2>2, <2>3, <2>4, <2>5, ResolvedFields
<1>5. vm \in [VMs -> VmStates] /\ disk \in [VMs -> Contents] /\ client[c].src \in Sources
  BY <1>2, RestoreFields DEF Types
<1>6. /\ \A k \in Cells :
                 /\ cell'[k] = None <=> cell[k] = None
                 /\ cell[k] # None => cell'[k].vm = cell[k].vm /\ (cell'[k].up => cell[k].up)
                 /\ cell[k] # None /\ cell[k].vm = v /\ cell'[k].up => vm[v] = "running"
  BY <1>2, <1>3, AfterStartFields
<1>7. RestoreOf(row)' = RestoreOf(row)
  BY <1>1 DEF RestoreOf, pick_restore
<1>8. \A d \in Clients : client'[d].cell = client[d].cell
  BY <1>3 DEF OnlyClient
<1>9. CellInv'
  <2> SUFFICES ASSUME NEW k \in Cells, cell'[k] # None
               PROVE  (k = map \/ \E d \in Clients : client[d].cell = k) /\ ~Alive(k)'
    BY <1>1, <1>8 DEF CellInv
  <2>1. cell[k] # None /\ ~Alive(k) /\ cell[k].vm \in VMs
    BY <1>2, <1>6, EntryFields DEF Types
  <2>2. Alive(k)' => Alive(k)
    BY <1>3, <1>5, <1>6, <2>1 DEF Alive
  <2> QED
    BY <2>1, <2>2 DEF SerialInv, CellInv
<1>10. CheckoutInv'
  <2> SUFFICES ASSUME NEW d \in Clients
               PROVE  /\ client'[d].pc \in {"warm", "bind", "admit", "session"} => cell'[client'[d].cell] # None
                      /\ client'[d].pc \in {"boot", "ready"} => cell'[client'[d].cell] = None
                      /\ Uninit(d)' => /\ client'[d].cell = map' /\ client'[d].src = RestoreOf(row)
                                       /\ client'[d].known = IF row = None THEN None ELSE row.id
                      /\ client'[d].pc \in {"init", "bind"} /\ cell'[client'[d].cell] # None =>
                            Serving(client[d].cell)'
                      /\ client'[d].pc = "bind" => client'[d].vm = cell'[client'[d].cell].vm
    BY <1>1, <1>7, <1>8 DEF CheckoutInv
  <2>1. CASE d = c
    BY <1>1, <1>2, <1>3, <1>6, <2>1 DEF Uninit
  <2>2. CASE d # c
    <3>1. client'[d] = client[d] /\ (client[d].pc \notin Outside => client[d].cell \in Cells)
      BY <1>3, <2>2 DEF OnlyClient, SerialInv, Shape, ClientShape
    <3>2. client[d].pc \notin Outside =>
            /\ cell'[client[d].cell] = None <=> cell[client[d].cell] = None
            /\ cell[client[d].cell] # None => cell'[client[d].cell].vm = cell[client[d].cell].vm
      BY <1>6, <3>1
    <3>3. Uninit(d)' => Uninit(d)
      BY <3>1, <3>2 DEF Uninit, Outside
    <3>4. client[d].pc \in {"init", "bind"} /\ cell[client[d].cell] # None => Serving(client[d].cell)'
      BY <1>b, <3>1, <3>2, BindsSame DEF SerialInv, CheckoutInv, Outside
    <3> QED
      BY <1>1, <3>1, <3>2, <3>3, <3>4 DEF SerialInv, CheckoutInv, Outside
  <2> QED
    BY <2>1, <2>2
<1>11. BringUpInv'
  <2>1. client[c].src \in {"compacted", "image"} => 1..acked \subseteq disk'[v]
    <3> SUFFICES ASSUME client[c].src \in {"compacted", "image"} PROVE 1..acked \subseteq disk'[v]
      OBVIOUS
    <3>1. row # None /\ row.tier # "live"
      BY <1>2, RestoreFields
    <3>2. 1..acked \subseteq copies[client[c].src]
      BY <1>2, <3>1 DEF SerialInv, PlaceInv, Holds
    <3>3. disk'[v] = copies[client[c].src]
      BY <1>3, <1>5
    <3> QED
      BY <3>2, <3>3
  <2>2. \A d \in Clients : client'[d].pc \in {"boot", "ready"} => d = c
    BY <1>2, <1>3 DEF OnlyClient
  <2> QED
    BY <1>1, <1>3, <1>4, <2>1, <2>2 DEF BringUpInv
<1>12. PlaceInv'
  <2>1. Holds(RestoreOf(row))' = Holds(RestoreOf(row))
    BY <1>1, <1>7 DEF Holds
  <2>2. row # None /\ row.tier = "live" => vm'[row.id] = "running"
    BY <1>3, <1>4, <1>5
  <2> QED
    BY <1>1, <1>2, <1>4, <2>1, <2>2 DEF SerialInv, PlaceInv, Exists
<1>13. OffInv'
  BY <1>1, <1>2, OffIdle
<1> QED
  BY <1>1, <1>u, <1>9, <1>10, <1>11, <1>12, <1>13 DEF SerialInv

\* The bring-up fails: what it made is killed, and that is not the VM of a live row.
LEMMA FailsInv ==
    ASSUME SerialInv, NEW c \in Clients, BringUpFails(c)
    PROVE  SerialInv'
<1>1. /\ UNCHANGED <<disk, copies, row, durable, map, off, reaping, suspects, confirmed, purging, acked>>
      /\ client[c].pc \in {"boot", "ready"} /\ Shape /\ Shape'
  BY ShapeBringUp DEF SerialInv, BringUpFails
<1>2. off.pc = "idle" /\ (\A d \in Clients : ~Unbound(d)) /\ Types /\ row \in Rows
  BY <1>1, BringUpAlone
<1> DEFINE S == Stop(StoppedAfterFailure(client[c].known))
           made == IF client[c].made THEN {client[c].vm} ELSE {}
<1>3. vm' = [v \in VMs |-> IF v \in made THEN "gone" ELSE S[v]]
  BY DEF BringUpFails
<1>4. \A v \in VMs : (S[v] \in {"running", "stopped"} <=> Exists(v)) /\ (S[v] = "running" => vm[v] = "running")
  BY <1>2, StopFields
<1>5. row # None /\ row.tier = "live" => ~client[c].made
  BY <1>1 DEF SerialInv, BringUpInv, Shape, ClientShape
<1> HIDE DEF S
<1>6. \A v \in VMs : vm'[v] = "running" => vm[v] = "running"
  BY <1>3, <1>4
<1>7. row # None /\ row.tier = "live" => vm'[row.id] \in {"running", "stopped"}
  <2>1. row # None => row.id \in VMs
    BY <1>2, RowFields
  <2>2. row # None /\ row.tier = "live" => Exists(row.id)
    BY DEF SerialInv, PlaceInv
  <2> QED
    BY <1>3, <1>4, <1>5, <2>1, <2>2
<1>8. OnlyClient(c) /\ cell' = Held(client', map') /\ client'[c].pc = "idle"
  <2>1. client[c].pc # "admit"
    BY <1>1
  <2> QED
    BY <1>1, <2>1, EndEffect, NoClientFields DEF Admit
<1>9. CellInv' /\ CheckoutInv' /\ BringUpInv' /\ UnboundInv'
  BY <1>1, <1>2, <1>6, <1>8, LeaveInv
<1>10. PlaceInv' /\ OffInv'
  BY <1>1, <1>2, <1>7, PlaceKept, OffIdle
<1> QED
  BY <1>1, <1>9, <1>10 DEF SerialInv

\* The bring-up is done: its VM holds every write, and the row names it or will.
LEMMA BringUpDone ==
    ASSUME races = {}, races' = {}, SerialInv, NEW c \in Clients, BringUp(c)
    PROVE  SerialInv'
<1>1. /\ UNCHANGED <<vm, copies, row, durable, map, off, cached, reaping, suspects, confirmed, purging, acked>>
      /\ client[c].pc = "ready" /\ Shape /\ Shape' /\ vm[client[c].vm] = "running"
      /\ disk' = IF client[c].src \in {"frozen", "dump"}
                 THEN [disk EXCEPT ![client[c].vm] = copies[client[c].src]] ELSE disk
      /\ cell' = [cell EXCEPT ![client[c].cell] = [vm |-> client[c].vm, up |-> TRUE]]
  BY ShapeBringUp DEF SerialInv, BringUp
<1>2. /\ client[c].cell = map /\ map \in Cells /\ cell[map] = None
      /\ client[c].src = RestoreOf(row)
      /\ \A k \in Cells : cell[k] # None => ~Alive(k)
      /\ \A d \in Clients \ {c} : client[d].pc \notin {"boot", "ready"}
      /\ \A d \in Clients : ~Unbound(d)
      /\ off.pc = "idle" /\ row \in Rows /\ Types
  BY <1>1, BringUpAlone
<1>3. client[c].vm \in VMs /\ cell \in [Cells -> Entries \cup {None}] /\ disk \in [VMs -> Contents]
  BY <1>1 DEF Shape, ClientShape, Types
<1> DEFINE v == client[c].vm
           x == [vm |-> v, up |-> TRUE]
<1>5. /\ cell'[map] = x /\ x # None /\ x.vm = v
      /\ \A k \in Cells \ {map} : cell'[k] = cell[k]
  BY <1>1, <1>2, <1>3, EntryFields
<1>6. OnlyClient(c) /\ client'[c].pc = "bind" /\ client'[c].vm = v /\ client'[c].cell = map
  BY <1>1, <1>2, MoveEffect
<1>7. row # None /\ row.tier = "live" => v = row.id /\ row = LiveRow(v)
  <2>1. row # None /\ row.tier = "live" => v = row.id
    BY <1>1 DEF SerialInv, BringUpInv
  <2>2. row # None /\ row.tier = "live" => row = LiveRow(row.id)
    BY <1>2, RowFields DEF LiveRow
  <2> QED
    BY <2>1, <2>2
<1>b. (Unbound(c)' <=> row # LiveRow(v)) /\ \A d \in Clients \ {c} : ~Unbound(d)'
  BY <1>1, <1>2, <1>6 DEF Unbound, LiveRow, OnlyClient
<1>s. \A k \in Cells : k = map \/ Serving(k) => Serving(k)'
  <2>1. CASE row = LiveRow(v)
    BY <1>1, <1>2, <1>5, <2>1 DEF Serving, LiveRow
  <2>2. CASE row # LiveRow(v)
    BY <1>1, <1>2, <1>5, <1>6, <1>b, <2>2 DEF Serving, LiveRow
  <2> QED
    BY <2>1, <2>2
<1>c. \A d \in Clients : client'[d].cell = client[d].cell
  BY <1>2, <1>6 DEF OnlyClient
<1>8. CellInv'
  <2> SUFFICES ASSUME NEW k \in Cells, cell'[k] # None
               PROVE  /\ k = map' \/ \E d \in Clients : client'[d].cell = k
                      /\ Alive(k)' => k = map' /\ Serving(k)'
    BY DEF CellInv
  <2>1. CASE k = map
    BY <1>1, <1>s, <2>1
  <2>2. CASE k # map
    <3>1. cell'[k] = cell[k] /\ ~Alive(k)'
      BY <1>1, <1>2, <1>5, <2>2 DEF Alive
    <3>2. PICK d \in Clients : client[d].cell = k
      BY <2>2, <3>1 DEF SerialInv, CellInv
    <3>3. client'[d].cell = k
      BY <1>2, <1>6, <2>2, <3>2 DEF OnlyClient
    <3> QED
      BY <3>1, <3>3
  <2> QED
    BY <2>1, <2>2
<1>9. CheckoutInv'
  <2> SUFFICES ASSUME NEW d \in Clients
               PROVE  /\ client'[d].pc \in {"warm", "bind", "admit", "session"} => cell'[client'[d].cell] # None
                      /\ client'[d].pc \in {"boot", "ready"} => cell'[client'[d].cell] = None
                      /\ ~Uninit(d)'
                      /\ client'[d].pc \in {"init", "bind"} /\ cell'[client'[d].cell] # None =>
                            Serving(client[d].cell)'
                      /\ client'[d].pc = "bind" => client'[d].vm = cell'[client'[d].cell].vm
    BY <1>c DEF CheckoutInv
  <2>1. CASE d = c
    BY <1>2, <1>5, <1>6, <1>c, <1>s, <2>1 DEF Uninit
  <2>2. CASE d # c
    <3>1. client'[d] = client[d] /\ (client[d].pc \notin Outside => client[d].cell \in Cells)
          /\ client[d].pc \notin {"boot", "ready"}
      BY <1>2, <1>6, <2>2 DEF OnlyClient, SerialInv, Shape, ClientShape
    <3>2. CASE client[d].cell = map
      <4>1. client[d].pc \notin {"warm", "bind", "admit", "session"}
        BY <1>2, <3>2 DEF SerialInv, CheckoutInv
      <4> QED
        BY <1>2, <1>5, <1>c, <1>s, <3>1, <3>2, <4>1 DEF Uninit
    <3>3. CASE client[d].cell # map /\ client[d].pc \notin Outside
      <4>1. cell'[client[d].cell] = cell[client[d].cell]
        BY <1>5, <3>1, <3>3
      <4>2. cell[client[d].cell] # None
        BY <3>1, <3>3 DEF SerialInv, CheckoutInv, Uninit, Outside, Shape, Types, ClientType, ClientPcs
      <4>6. client[d].pc \in {"init", "bind"} => Serving(client[d].cell)'
        BY <1>s, <3>1, <3>3, <4>2 DEF SerialInv, CheckoutInv
      <4>7. client[d].pc = "bind" => client[d].vm = cell[client[d].cell].vm
        BY DEF SerialInv, CheckoutInv
      <4> QED
        BY <3>1, <4>1, <4>2, <4>6, <4>7 DEF Uninit
    <3>4. CASE client[d].pc \in Outside
      BY <3>1, <3>4 DEF Outside, Uninit
    <3> QED
      BY <3>2, <3>3, <3>4
  <2> QED
    BY <2>1, <2>2
<1>10. BringUpInv'
  <2>1. \A d \in Clients : client'[d].pc \notin {"boot", "ready"}
    BY <1>2, <1>6 DEF OnlyClient
  <2> QED
    BY <2>1 DEF BringUpInv
<1>11. 1..acked \subseteq disk'[v]
  <2>1. CASE row = None
    <3>1. 1..acked = {}
      BY <1>2, <2>1 DEF SerialInv, PlaceInv
    <3> QED
      BY <3>1
  <2>2. CASE row # None /\ row.tier = "live"
    <3>1. disk' = disk
      BY <1>1, <1>2, <2>2, RestoreFields
    <3> QED
      BY <1>7, <2>2, <3>1 DEF SerialInv, PlaceInv
  <2>3. CASE row # None /\ row.tier # "live"
    <3>1. client[c].src \in Files /\ 1..acked \subseteq copies[client[c].src]
      BY <1>2, <2>3, RestoreFields DEF SerialInv, PlaceInv, Holds
    <3>2. CASE client[c].src \in {"frozen", "dump"}
      BY <1>1, <1>3, <3>1, <3>2
    <3>3. CASE client[c].src \in {"compacted", "image"}
      BY <1>1, <3>3 DEF SerialInv, BringUpInv
    <3> QED
      BY <3>1, <3>2, <3>3 DEF Files
  <2> QED
    BY <2>1, <2>2, <2>3
<1>u. UnboundInv'
  <2>1. \A d \in Clients : ~Uninit(d)'
    <3>1. \A d \in Clients \ {c} : client[d].pc = "init" => cell'[client[d].cell] # None
      <4> SUFFICES ASSUME NEW d \in Clients \ {c}, client[d].pc = "init" PROVE cell'[client[d].cell] # None
        OBVIOUS
      <4>1. client[d].cell \in Cells /\ (cell[client[d].cell] = None => client[d].cell = map)
        BY DEF SerialInv, CheckoutInv, Uninit, Shape, ClientShape, Outside
      <4> QED
        BY <1>5, <4>1
    <3> QED
      BY <1>2, <1>6, <3>1 DEF Uninit, OnlyClient
  <2>2. Unbound(c)' => row = None \/ row.tier # "live"
    BY <1>7, <1>b
  <2>3. Exists(client[c].vm)' /\ client'[c].vm = v
    BY <1>1, <1>6 DEF Exists
  <2> QED
    BY <1>1, <1>b, <1>11, <2>1, <2>2, <2>3 DEF UnboundInv
<1>12. PlaceInv'
  <2>1. (\A d \in Clients : ~Unbound(d)') => row # None /\ row.tier = "live"
    BY <1>3, <1>b, RowFields
  <2> QED
    BY <1>1, <1>7, <1>11, <2>1 DEF PlaceInv, Exists
<1>13. OffInv'
  BY <1>1, <1>2, OffIdle
<1> QED
  BY <1>1, <1>u, <1>8, <1>9, <1>10, <1>12, <1>13 DEF SerialInv

\* The binding is recorded, perhaps again, and the local file that was restored is
\* removed: every entry that serves is of the recorded VM.
LEMMA BindInv ==
    ASSUME SerialInv, NEW c \in Clients, Bind(c)
    PROVE  SerialInv'
<1> DEFINE v == client[c].vm
<1>1. /\ UNCHANGED <<vm, disk, map, cell, off, cached, reaping, suspects, confirmed, purging, acked>>
      /\ client[c].pc = "bind" /\ Shape /\ Shape' /\ put(v)
  BY ShapeBringUp DEF SerialInv, Bind
<1>2. /\ v \in VMs /\ Types /\ cell \in [Cells -> Entries \cup {None}]
      /\ \A d \in Clients : client[d].pc \notin Outside => client[d].cell \in Cells
  BY <1>1 DEF Shape, ClientShape, Types
<1>3. row' = LiveRow(v) /\ row' # None /\ row'.tier = "live" /\ row'.id = v
  BY <1>1, <1>2, PutFields, RowFields
<1>4. OnlyClient(c) /\ client'[c].pc = "admit" /\ client'[c].cell = client[c].cell
  BY <1>1, MoveEffect
<1>5. row = LiveRow(v) \/ Unbound(c)
  BY <1>1 DEF Unbound, LiveRow
<1>6. row = LiveRow(v) => \A d \in Clients : ~Unbound(d)
  BY <1>2, RowFields DEF SerialInv, UnboundInv
<1>7. Unbound(c) => /\ row = None \/ row.tier # "live"
                    /\ \A d \in Clients : ~Uninit(d) /\ (Unbound(d) => client[d].cell = client[c].cell)
  BY DEF SerialInv, UnboundInv
<1>8. ASSUME NEW k \in Cells, cell[k] # None, Serving(k)
      PROVE  cell[k].vm = v
  <2>1. cell[k].vm \in VMs
    BY <1>2, <1>8, EntryFields
  <2>2. CASE row = LiveRow(v)
    <3>1. LiveRow(v) = LiveRow(cell[k].vm)
      BY <1>6, <1>8, <2>2 DEF Serving
    <3> QED
      BY <1>2, <2>1, <3>1, RowFields
  <2>3. CASE Unbound(c)
    <3>1. row # LiveRow(cell[k].vm)
      BY <1>7, <2>1, <2>3, RowFields
    <3>2. k = client[c].cell
      BY <1>7, <1>8, <2>3, <3>1 DEF Serving
    <3> QED
      BY <1>1, <3>2 DEF SerialInv, CheckoutInv
  <2> QED
    BY <1>5, <2>2, <2>3
<1>s. \A k \in Cells : cell[k] # None /\ Serving(k) => Serving(k)'
  BY <1>1, <1>3, <1>8 DEF Serving, LiveRow
<1>9. \A d \in Clients : client[d].pc = "bind" => client[d].vm = v
  <2> SUFFICES ASSUME NEW d \in Clients, client[d].pc = "bind" PROVE client[d].vm = v
    OBVIOUS
  <2>1. /\ client[d].cell \in Cells /\ cell[client[d].cell] # None /\ Serving(client[d].cell)
        /\ client[d].vm = cell[client[d].cell].vm
    BY <1>2 DEF SerialInv, CheckoutInv, Outside
  <2> QED
    BY <1>8, <2>1
<1>u. UnboundInv' /\ \A d \in Clients : ~Unbound(d)'
  <2>1. \A d \in Clients : ~Unbound(d)'
    BY <1>3, <1>4, <1>9 DEF Unbound, LiveRow, OnlyClient
  <2> QED
    BY <2>1 DEF UnboundInv
<1>10. \A d \in Clients : Uninit(d)' => Uninit(d) /\ client'[d] = client[d] /\ row' = row /\ RestoreOf(row)' = RestoreOf(row)
  <2>1. \A d \in Clients : Uninit(d)' => Uninit(d) /\ client'[d] = client[d]
    BY <1>1, <1>4 DEF Uninit, OnlyClient
  <2>2. row = LiveRow(v) => row' = row /\ RestoreOf(row)' = RestoreOf(row)
    BY <1>2, <1>3, RowFields DEF RestoreOf
  <2> QED
    BY <1>5, <1>7, <2>1, <2>2
<1>11. CellInv'
  <2>1. \A k : Alive(k)' = Alive(k)
    BY <1>1 DEF Alive
  <2>2. \A d \in Clients : client'[d].cell = client[d].cell
    BY <1>4 DEF OnlyClient
  <2> QED
    BY <1>1, <1>s, <2>1, <2>2 DEF SerialInv, CellInv
<1>12. CheckoutInv'
  <2>1. \A d \in Clients : client'[d].cell = client[d].cell
    BY <1>4 DEF OnlyClient
  <2> SUFFICES ASSUME NEW d \in Clients
               PROVE  /\ client'[d].pc \in {"warm", "bind", "admit", "session"} => cell'[client'[d].cell] # None
                      /\ client'[d].pc \in {"boot", "ready"} => cell'[client'[d].cell] = None
                      /\ Uninit(d)' => /\ client'[d].cell = map' /\ client'[d].src = RestoreOf(row)'
                                       /\ client'[d].known = IF row' = None THEN None ELSE row'.id
                      /\ client'[d].pc \in {"init", "bind"} /\ cell'[client'[d].cell] # None =>
                            Serving(client[d].cell)'
                      /\ client'[d].pc = "bind" => client'[d].vm = cell'[client'[d].cell].vm
    BY DEF CheckoutInv
  <2>2. CASE d = c
    BY <1>1, <1>4, <2>2 DEF Uninit, SerialInv, CheckoutInv
  <2>3. CASE d # c
    <3>1. client'[d] = client[d]
      BY <1>4, <2>3 DEF OnlyClient
    <3>2. client[d].pc \in {"init", "bind"} /\ cell[client[d].cell] # None => Serving(client[d].cell)'
      BY <1>2, <1>s, <2>1 DEF SerialInv, CheckoutInv, Outside
    <3>3. Uninit(d)' => /\ client'[d].cell = map' /\ client'[d].src = RestoreOf(row)'
                        /\ client'[d].known = IF row' = None THEN None ELSE row'.id
      BY <1>1, <1>10 DEF SerialInv, CheckoutInv
    <3> QED
      BY <1>1, <3>1, <3>2, <3>3 DEF SerialInv, CheckoutInv
  <2> QED
    BY <2>2, <2>3
<1>13. BringUpInv'
  <2>1. \A d \in Clients : client'[d].pc \in {"boot", "ready"} => client'[d] = client[d] /\ row' = row
    <3>1. \A d \in Clients : client'[d].pc \in {"boot", "ready"} => client'[d] = client[d]
      BY <1>4 DEF OnlyClient
    <3>2. \A d \in Clients : client[d].pc \in {"boot", "ready"} => Uninit(d)
      BY DEF Uninit, SerialInv, CheckoutInv
    <3> QED
      BY <1>3, <1>5, <1>7, <3>1, <3>2
  <2> QED
    BY <1>1, <2>1 DEF SerialInv, BringUpInv
<1>14. PlaceInv'
  <2>1. Exists(v) /\ 1..acked \subseteq disk[v]
    BY <1>2, <1>5, RowFields DEF SerialInv, UnboundInv, PlaceInv
  <2> QED
    BY <1>1, <1>3, <1>u, <2>1 DEF PlaceInv, Exists
<1>15. OffInv'
  BY <1>1, NotArchiving, OffIdle
<1> QED
  BY <1>1, <1>u, <1>11, <1>12, <1>13, <1>14, <1>15 DEF SerialInv

\* A write goes to the VM that the live row names or will name.
LEMMA WriteInv ==
    ASSUME SerialInv, NEW c \in Clients, Write(c)
    PROVE  SerialInv'
<1> DEFINE k == client[c].cell
           v == cell[k].vm
<1>1. /\ UNCHANGED <<vm, copies, row, durable, map, cell, client, off, cached, reaping, suspects, confirmed, purging>>
      /\ acked' = acked + 1 /\ disk' = [disk EXCEPT ![v] = @ \cup {acked + 1}]
      /\ client[c].pc = "session" /\ Alive(k) /\ Shape /\ Shape'
  BY ShapeBringUp DEF SerialInv, Write
<1>2. k \in Cells /\ cell[k] # None /\ Types /\ acked \in Nat
  BY <1>1, Constants DEF SerialInv, CheckoutInv, Shape, ClientShape, Outside, Types
<1>3. v \in VMs /\ k = map /\ map # None /\ Serving(k)
  BY <1>1, <1>2, EntryFields, Constants DEF SerialInv, CellInv, Types
<1>a. \A d \in Clients : Unbound(d) => client[d].vm = v /\ (row = None \/ row.tier # "live")
  <2> SUFFICES ASSUME NEW d \in Clients, Unbound(d)
               PROVE  client[d].vm = v /\ (row = None \/ row.tier # "live")
    OBVIOUS
  <2>1. /\ row = None \/ row.tier # "live"
        /\ \A e \in Clients : Unbound(e) => client[e].cell = client[d].cell
    BY DEF SerialInv, UnboundInv
  <2>2. client[d].cell = k
    BY <1>3, <2>1, RowFields DEF Serving
  <2> QED
    BY <2>1, <2>2 DEF Unbound, SerialInv, CheckoutInv
<1>4. \/ row # None /\ row.tier = "live" /\ row.id = v
      \/ (row = None \/ row.tier # "live") /\ \E d \in Clients : Unbound(d)
  <2>1. CASE row = LiveRow(v)
    BY <1>3, <2>1, RowFields
  <2>2. CASE \E d \in Clients : Unbound(d)
    BY <1>a, <2>2
  <2> QED
    BY <1>3, <2>1, <2>2 DEF Serving
<1>b. SameBinds
  BY <1>1 DEF SameBinds
<1>5. 1..acked' \subseteq disk'[v] /\ \A u \in VMs \ {v} : disk'[u] = disk[u]
  <2>1. 1..acked \subseteq disk[v] /\ disk \in [VMs -> Contents]
    BY <1>2, <1>4, <1>a DEF SerialInv, PlaceInv, UnboundInv, Types
  <2>2. disk'[v] = disk[v] \cup {acked + 1}
    BY <1>1, <1>3, <2>1
  <2>3. 1..(acked + 1) = (1..acked) \cup {acked + 1}
    BY <1>2
  <2> QED
    BY <1>1, <2>1, <2>2, <2>3
<1>6. RestoreOf(row)' = RestoreOf(row)
  BY <1>1 DEF RestoreOf, pick_restore
<1>s. \A j \in Cells : Serving(j) => Serving(j)'
  BY <1>1, <1>b, BindsSame
<1>7. CellInv'
  <2>1. \A j : Alive(j)' = Alive(j)
    BY <1>1 DEF Alive
  <2> QED
    BY <1>1, <1>s, <2>1 DEF SerialInv, CellInv
<1>8. CheckoutInv'
  <2>1. \A d \in Clients : client[d].pc \in {"init", "bind"} => client[d].cell \in Cells
    BY <1>1 DEF Shape, ClientShape, Outside
  <2> QED
    BY <1>1, <1>6, <1>s, <2>1 DEF SerialInv, CheckoutInv, Uninit
<1>9. BringUpInv'
  <2>1. \A d \in Clients : client[d].pc # "ready"
    BY <1>1, <1>2, <1>3, BringUpAlone
  <2> QED
    BY <1>1, <2>1 DEF SerialInv, BringUpInv
<1>u. UnboundInv'
  <2>1. \A d \in Clients : Unbound(d)' <=> Unbound(d)
    BY <1>b, BindsSame
  <2>2. \A d \in Clients : Uninit(d)' <=> Uninit(d)
    BY <1>1 DEF Uninit
  <2> QED
    BY <1>1, <1>a, <1>5, <2>1, <2>2 DEF SerialInv, UnboundInv, Exists
<1>10. PlaceInv'
  <2>1. \A d \in Clients : Unbound(d)' <=> Unbound(d)
    BY <1>b, BindsSame
  <2> QED
    BY <1>1, <1>4, <1>5, <2>1 DEF SerialInv, PlaceInv, Exists
<1>11. OffInv'
  <2>1. off.pc \in {"idle", "evict"}
    <3>1. CASE row # None /\ row.tier = "live" /\ row.id = v
      BY <1>3, <3>1, TypeFields DEF SerialInv, OffInv, Shape, Types, OffShape, OffPcs, Promotes
    <3>2. CASE \E d \in Clients : Unbound(d)
      BY <3>2, NotArchiving DEF Unbound
    <3> QED
      BY <1>4, <3>1, <3>2
  <2>2. InFlight' = InFlight
    BY <1>1 DEF InFlight
  <2> QED
    BY <1>1, <2>1, <2>2 DEF SerialInv, OffInv, Archiving
<1> QED
  BY <1>1, <1>u, <1>7, <1>8, <1>9, <1>10, <1>11 DEF SerialInv

-----------------------------------------------------------------------------
(* Before the first race: reapers, offloads, purge, restart *)

\* Without active clients a cell has no session.
LEMMA ActiveZero ==
    ASSUME NEW k
    PROVE  /\ Active(k) \in Nat
           /\ Active(k) = 0 => \A c \in Clients : ~(client[c].pc = "session" /\ client[c].cell = k)
<1> DEFINE S == {c \in Clients : client[c].pc = "session" /\ client[c].cell = k}
<1>1. IsFiniteSet(Clients) /\ S \in SUBSET Clients
  BY Constants
<1>2. IsFiniteSet(S)
  BY <1>1, FS_Subset
<1>3. Cardinality(S) \in Nat /\ (Cardinality(S) = 0 => S = {})
  BY <1>2, FS_CardinalityType, FS_EmptySet
<1>4. Active(k) = Cardinality(S)
  BY DEF Active
<1> QED
  BY <1>3, <1>4

\* The current cell is evicted when nobody is on it: its entry goes, and no other
\* cell has one that is alive.
LEMMA EvictedInv ==
    ASSUME SerialInv, map' = None, cell' = Held(client, map'),
           UNCHANGED <<client, row, copies, disk, acked>>,
           \A v \in VMs : vm'[v] = "running" => vm[v] = "running",
           map # None => \A c \in Clients : client[c].cell # map,
           \A d \in Clients : Unbound(d) => vm'[client[d].vm] \in {"running", "stopped"}
    PROVE  CellInv' /\ CheckoutInv' /\ BringUpInv' /\ UnboundInv'
<1>1. /\ Types /\ map \in Cells \cup {None} /\ cell \in [Cells -> Entries \cup {None}]
      /\ \A d \in Clients : client[d].pc \notin Outside => client[d].cell \in Cells
  BY DEF SerialInv, Shape, ClientShape, Types
<1>2. /\ \A k \in Cells : /\ cell'[k] \in {cell[k], None}
                          /\ (\E d \in Clients : client[d].cell = k) => cell'[k] = cell[k]
                          /\ cell'[k] # None => k = map' \/ \E d \in Clients : client[d].cell = k
  BY <1>1, HeldFields
<1>3. RestoreOf(row)' = RestoreOf(row)
  BY DEF RestoreOf, pick_restore
<1>b. SameBinds
  BY DEF SameBinds
<1>4. CellInv'
  <2> SUFFICES ASSUME NEW k \in Cells, cell'[k] # None
               PROVE  (\E d \in Clients : client[d].cell = k) /\ ~Alive(k)'
    BY DEF CellInv
  <2>1. cell'[k] = cell[k] /\ cell[k].vm \in VMs /\ \E d \in Clients : client[d].cell = k
    BY <1>1, <1>2, EntryFields, Constants
  <2>2. Alive(k)' => Alive(k)
    BY <2>1 DEF Alive
  <2>3. Alive(k) => k = map
    BY <2>1 DEF SerialInv, CellInv
  <2> QED
    BY <2>1, <2>2, <2>3, Constants
<1>5. CheckoutInv'
  <2> SUFFICES ASSUME NEW d \in Clients
               PROVE  /\ client[d].pc \in {"warm", "bind", "admit", "session"} => cell'[client[d].cell] # None
                      /\ client[d].pc \in {"boot", "ready"} => cell'[client[d].cell] = None
                      /\ ~Uninit(d)'
                      /\ client[d].pc \in {"init", "bind"} /\ cell'[client[d].cell] # None =>
                            Serving(client[d].cell)'
                      /\ client[d].pc = "bind" => client[d].vm = cell'[client[d].cell].vm
    BY DEF CheckoutInv
  <2>1. client[d].pc \notin Outside => cell'[client[d].cell] = cell[client[d].cell]
    BY <1>1, <1>2
  <2>2. ~Uninit(d)
    <3>1. Uninit(d) => client[d].cell = map /\ client[d].cell \in Cells
      BY <1>1 DEF Uninit, SerialInv, CheckoutInv, Outside
    <3> QED
      BY <3>1, Constants
  <2>3. ~Uninit(d)'
    BY <2>1, <2>2 DEF Uninit, Outside
  <2>4. client[d].pc \in {"init", "bind"} /\ cell[client[d].cell] # None => Serving(client[d].cell)'
    BY <1>1, <1>b, <2>1, BindsSame DEF SerialInv, CheckoutInv, Outside
  <2> QED
    BY <2>1, <2>3, <2>4 DEF SerialInv, CheckoutInv, Outside
<1>6. BringUpInv'
  BY DEF SerialInv, BringUpInv
<1>7. UnboundInv'
  <2>1. \A d \in Clients : client[d].pc \in {"init", "boot", "ready"} => cell'[client[d].cell] = cell[client[d].cell]
    BY <1>1, <1>2 DEF Outside
  <2>2. \A d \in Clients : Uninit(d)' => Uninit(d)
    BY <2>1 DEF Uninit
  <2> QED
    BY <1>b, <2>2, UnboundKept
<1> QED
  BY <1>4, <1>5, <1>6, <1>7

\* The idle reaper evicts an entry that nobody uses.
LEMMA ReapIdleInv ==
    ASSUME SerialInv, ReapIdle
    PROVE  SerialInv'
<1>1. /\ UNCHANGED <<vm, disk, copies, row, durable, client, off, cached, suspects, confirmed, purging, acked>>
      /\ map' = None /\ cell' = Held(client, map') /\ map # None /\ is_idle(map) /\ Shape /\ Shape'
  BY ShapeHost DEF SerialInv, ReapIdle, Warm
<1>2. \A c \in Clients : client[c].cell # map
  <2> SUFFICES ASSUME NEW c \in Clients, client[c].cell = map PROVE FALSE
    OBVIOUS
  <2>1. client[c].pc \notin Outside
    BY <1>1 DEF Shape, ClientShape, Types
  <2>2. client[c].pc # "session"
    BY <1>1, ActiveZero DEF is_idle
  <2>3. c \in InFlight
    BY <2>1, <2>2 DEF InFlight, Outside
  <2> QED
    BY <1>1, <2>3 DEF is_idle
<1>b. SameBinds
  BY <1>1 DEF SameBinds
<1>3. CellInv' /\ CheckoutInv' /\ BringUpInv' /\ UnboundInv'
  BY <1>1, <1>2, EvictedInv DEF SerialInv, UnboundInv, Exists
<1>4. PlaceInv'
  BY <1>1, <1>b, BindsSame, PlaceKept DEF SerialInv, PlaceInv, Exists
<1>5. OffInv'
  <2>1. \A f : Holds(f)' = Holds(f)
    BY <1>1 DEF Holds
  <2>2. InFlight' = InFlight
    BY <1>1 DEF InFlight
  <2> QED
    BY <1>1, <2>1, <2>2 DEF SerialInv, OffInv, Archiving
<1> QED
  BY <1>1, <1>3, <1>4, <1>5 DEF SerialInv

\* The cells and the checkouts do not depend on what is stopped, started or killed
\* elsewhere.
LEMMA CellsKept ==
    ASSUME SerialInv, UNCHANGED <<row, copies, map, cell, client, disk, acked>>,
           \A k \in Cells : cell[k] # None => (Alive(k)' => Alive(k)),
           \A d \in Clients : Unbound(d) => vm'[client[d].vm] \in {"running", "stopped"}
    PROVE  CellInv' /\ CheckoutInv' /\ BringUpInv' /\ UnboundInv' /\ \A d \in Clients : Unbound(d)' <=> Unbound(d)
<1>1. RestoreOf(row)' = RestoreOf(row)
  BY DEF RestoreOf, pick_restore
<1>b. SameBinds
  BY DEF SameBinds
<1>s. \A k \in Cells : Serving(k) => Serving(k)'
  BY <1>b, BindsSame
<1>2. CellInv'
  BY <1>s DEF SerialInv, CellInv
<1>3. CheckoutInv'
  <2>1. \A d \in Clients : client[d].pc \in {"init", "bind"} => client[d].cell \in Cells
    BY DEF SerialInv, Shape, ClientShape, Outside
  <2> QED
    BY <1>1, <1>s, <2>1 DEF SerialInv, CheckoutInv, Uninit
<1>4. BringUpInv'
  BY DEF SerialInv, BringUpInv
<1>5. UnboundInv'
  <2>1. \A d \in Clients : Uninit(d)' => Uninit(d)
    BY DEF Uninit
  <2> QED
    BY <1>b, <2>1, UnboundKept
<1> QED
  BY <1>2, <1>3, <1>4, <1>5, <1>b, BindsSame

\* VMs are stopped, whichever.
LEMMA StopInv ==
    ASSUME SerialInv, OnlyStops, Shape',
           UNCHANGED <<disk, copies, row, map, cell, client, off, acked>>
    PROVE  SerialInv'
<1>1. /\ row # None /\ row.tier = "live" => vm'[row.id] \in {"running", "stopped"}
      /\ \A k \in Cells : cell[k] # None => (Alive(k)' => Alive(k))
      /\ \A d \in Clients : Unbound(d) => vm'[client[d].vm] \in {"running", "stopped"}
  <2>1. row # None => row.id \in VMs
    BY RowFields DEF SerialInv, Shape, Types
  <2>2. \A k \in Cells : cell[k] # None => cell[k].vm \in VMs
    BY EntryFields DEF SerialInv, Shape, Types
  <2>3. \A d \in Clients : Unbound(d) => client[d].vm \in VMs /\ Exists(client[d].vm)
    BY DEF SerialInv, UnboundInv, Unbound, Shape, ClientShape
  <2> QED
    BY <2>1, <2>2, <2>3 DEF SerialInv, PlaceInv, OnlyStops, Alive
<1>2. InFlight' \subseteq InFlight
  BY DEF InFlight
<1> QED
  BY <1>1, <1>2, CellsKept, PlaceKept, OffKept DEF SerialInv

\* The reapers' stops, the untracked pass, the purge and the registry file.
LEMMA HostInv ==
    ASSUME races = {}, races' = {}, SerialInv, \/ ReapStop \/ UntrackedPass \/ \E v \in VMs : UntrackedStop(v)
                                  \/ PurgeRead \/ PurgeKill \/ Flush \/ UNCHANGED vars
    PROVE  SerialInv'
<1>1. Shape /\ Shape' /\ Types
  BY ShapeHost DEF SerialInv, Shape
<1>2. CASE ReapStop \/ UntrackedPass \/ (\E v \in VMs : UntrackedStop(v)) \/ UNCHANGED vars
  <2>1. UNCHANGED <<disk, copies, row, durable, map, cell, client, off, acked>>
    BY <1>2 DEF ReapStop, UntrackedPass, UntrackedStop, vars
  <2>2. vm' = vm \/ \E v : checkpoint_and_stop(v)
    BY <1>2 DEF ReapStop, UntrackedPass, UntrackedStop, vars
  <2>3. OnlyStops
    BY <1>1, <2>2, StopOnly
  <2> QED
    BY <1>1, <2>1, <2>3, StopInv
<1>3. CASE PurgeRead \/ Flush \/ (PurgeKill /\ vm' = vm)
  <2>1. UNCHANGED <<vm, disk, copies, row, map, cell, client, off, acked>>
    BY <1>3 DEF PurgeRead, Flush, PurgeKill
  <2>2. OnlyStops
    BY <1>1, <2>1, StopOnly
  <2> QED
    BY <1>1, <2>1, <2>2, StopInv
<1>4. CASE PurgeKill /\ vm' # vm
  <2>1. /\ UNCHANGED <<disk, copies, row, durable, map, cell, client, off, acked>>
        /\ vm' = Kill(purging) /\ ~Serves(purging) /\ purging \in VMs
    BY <1>1, <1>4 DEF PurgeKill, Race, Types
  <2>2. /\ row # None /\ row.tier = "live" => vm'[row.id] \in {"running", "stopped"}
        /\ \A d \in Clients : Unbound(d) => vm'[client[d].vm] \in {"running", "stopped"}
    <3>1. \A v \in VMs \ {purging} : Exists(v) => vm'[v] \in {"running", "stopped"}
      BY <1>1, <2>1 DEF Kill, Types, Exists
    <3>2. row # None /\ row.tier = "live" => row.id \in VMs \ {purging}
      BY <1>1, <2>1, RowFields DEF Serves, Types
    <3>3. \A d \in Clients : Unbound(d) => client[d].vm \in VMs \ {purging}
      BY <1>1, <2>1 DEF Serves, Unbound, Shape, ClientShape
    <3> QED
      BY <3>1, <3>2, <3>3 DEF SerialInv, UnboundInv, PlaceInv
  <2>3. \A k \in Cells : cell[k] # None => (Alive(k)' => Alive(k))
    <3>1. \A k \in Cells : cell[k] # None => cell[k].vm \in VMs
      BY <1>1, EntryFields DEF Types
    <3>2. \A u \in VMs : vm'[u] = "running" => vm[u] = "running"
      BY <1>1, <2>1 DEF Kill, Types
    <3> QED
      BY <2>1, <3>1, <3>2 DEF Alive
  <2>4. InFlight' \subseteq InFlight
    BY <2>1 DEF InFlight
  <2> QED
    BY <1>1, <2>1, <2>2, <2>3, <2>4, CellsKept, PlaceKept, OffKept DEF SerialInv
<1> QED
  BY <1>2, <1>3, <1>4

\* A restart forgets the cells and the checkouts; the file has the row, unless
\* that is a race.
LEMMA CrashInv ==
    ASSUME races' = {}, SerialInv, Crash
    PROVE  SerialInv'
<1>1. /\ UNCHANGED <<disk, copies, durable, acked>> /\ row' = durable /\ map' = None
      /\ cell' = [k \in Cells |-> None] /\ client' = [c \in Clients |-> NoClient] /\ off' = NoOff
      /\ vm' = [v \in VMs |-> IF /\ v \in Spares /\ Exists(v)
                                 /\ durable = None \/ durable.id # v
                              THEN "spare" ELSE vm[v]]
  BY DEF Crash
<1>2. Shape' /\ row' = row /\ durable = row /\ row \in Rows /\ \A c \in Clients : ~Unbound(c)
  BY <1>1, ShapeHost DEF SerialInv, Crash, Race, Shape, Types
<1>3. \A c \in Clients : client'[c].pc = "idle"
  BY <1>1, NoClientFields
<1>4. CellInv' /\ CheckoutInv' /\ BringUpInv' /\ UnboundInv'
  BY <1>1, <1>3 DEF CellInv, CheckoutInv, BringUpInv, UnboundInv, Unbound, Uninit
<1>5. OffInv'
  BY <1>1, NoClientFields, OffIdle
<1>6. row # None /\ row.tier = "live" => vm'[row.id] \in {"running", "stopped"}
  <2>1. row # None => row.id \in VMs
    BY <1>2, RowFields
  <2> QED
    BY <1>1, <1>2, <2>1 DEF SerialInv, PlaceInv, Exists
<1>7. PlaceInv'
  BY <1>1, <1>2, <1>6, PlaceKept
<1> QED
  BY <1>2, <1>4, <1>5, <1>7 DEF SerialInv

\* While an offload holds the schema only sessions are there, and what it does not
\* wake up stays as it was.
LEMMA QuietCells ==
    ASSUME SerialInv, off.pc # "idle", UNCHANGED <<map, client>>,
           \A k \in Cells : (cell'[k] = None <=> cell[k] = None) /\ (cell[k] # None => cell'[k].vm = cell[k].vm),
           \A k \in Cells : cell[k] # None /\ Alive(k)' => Alive(k) /\ row' = row
    PROVE  CellInv' /\ CheckoutInv' /\ BringUpInv' /\ UnboundInv'
<1>1. \A c \in Clients : client[c].pc \in {"idle", "start", "session"}
  BY DEF SerialInv, OffInv, Archiving, InFlight
<1>b. \A c \in Clients : ~Unbound(c) /\ ~Unbound(c)'
  BY <1>1 DEF Unbound
<1>2. CellInv'
  <2>1. \A k \in Cells : Serving(k) => row = LiveRow(cell[k].vm)
    BY <1>b DEF Serving
  <2>2. \A k \in Cells : row' = LiveRow(cell'[k].vm) => Serving(k)'
    BY DEF Serving, LiveRow
  <2> QED
    BY <2>1, <2>2 DEF SerialInv, CellInv
<1>3. \A c \in Clients : client[c].pc = "session" => client[c].cell \in Cells
  BY DEF SerialInv, Shape, ClientShape, Outside
<1>4. CheckoutInv'
  BY <1>1, <1>3 DEF SerialInv, CheckoutInv, Uninit
<1>5. BringUpInv'
  BY <1>1 DEF BringUpInv
<1>6. UnboundInv'
  BY <1>b DEF UnboundInv
<1> QED
  BY <1>2, <1>4, <1>5, <1>6

\* The claim; with a checkout on its way it is a race.
LEMMA ClaimInv ==
    ASSUME races = {}, races' = {}, SerialInv, NEW k \in AllKinds, Claim(k)
    PROVE  SerialInv'
<1>1. /\ UNCHANGED <<vm, disk, copies, row, durable, map, cell, client, cached, reaping, suspects, confirmed, purging, acked>>
      /\ InFlight = {} /\ Shape /\ Shape'
  BY ShapeOffload DEF SerialInv, Claim, Race
<1>2. \/ off'.pc = "evict" /\ off'.kind = k /\ k # "promote" /\ row.tier = "live"
      \/ off'.pc = "upload" /\ off'.kind = row.tier /\ row.tier \in {"frozen", "compacted"}
  BY <1>1, ClaimEffect
<1>3. \A j : Alive(j)' = Alive(j)
  BY <1>1 DEF Alive
<1>b. \A d \in Clients : ~Unbound(d)
  BY <1>1 DEF InFlight, Unbound
<1>4. CellInv' /\ CheckoutInv' /\ BringUpInv' /\ UnboundInv'
  BY <1>1, <1>3, <1>b, CellsKept
<1>5. PlaceInv'
  BY <1>1, <1>b, PlaceKept DEF SerialInv, PlaceInv, Exists
<1>6. InFlight' = {}
  BY <1>1 DEF InFlight
<1>7. OffInv'
  BY <1>1, <1>2, <1>6 DEF OffInv, Promotes
<1> QED
  BY <1>1, <1>4, <1>5, <1>7 DEF SerialInv

\* What every step of an offload finds.
LEMMA OffFacts ==
    ASSUME SerialInv, OffloadStep
    PROVE  /\ off.pc # "idle" /\ InFlight = {} /\ InFlight' = {} /\ Shape /\ Shape' /\ Types
           /\ row # None /\ row \in Rows /\ row.id \in VMs /\ row.tier \in Tiers /\ row = [id |-> row.id, tier |-> row.tier]
           /\ UNCHANGED <<disk, client, acked>> /\ \A d \in Clients : ~Unbound(d) /\ ~Unbound(d)'
           /\ off.kind \in {"archive", "freeze", "compact", "image", "frozen", "compacted"}
           /\ \A k \in Cells : cell[k] # None => cell[k].vm \in VMs
           /\ \A k \in Cells : cell[k] # None /\ Alive(k) => map = k /\ row.tier = "live"
<1>1. off.pc # "idle" /\ UNCHANGED <<disk, client, acked>>
  BY DEF OffloadStep, Evict, OffBoot, Dump, Image, Upload, DeleteStaleDump, set_tier, KillVM, Unlink
<1>2. InFlight = {} /\ Shape /\ Shape' /\ Types
  BY <1>1, ShapeOffload DEF SerialInv, OffInv, Archiving, Shape
<1>3. InFlight' = {}
  BY <1>1, <1>2 DEF InFlight
<1>4. row # None /\ row \in Rows
  BY <1>1, <1>2 DEF Shape, OffShape, Types
<1>5. row.id \in VMs /\ row.tier \in Tiers /\ row = [id |-> row.id, tier |-> row.tier]
  BY <1>4, RowFields
<1>6. off.kind \in {"archive", "freeze", "compact", "image", "frozen", "compacted"}
  BY <1>2, TypeFields DEF Shape, OffShape, Types, AllKinds, Promotes
<1>7. \A k \in Cells : cell[k] # None => cell[k].vm \in VMs
  BY <1>2, EntryFields DEF Types
<1>9. \A d \in Clients : ~Unbound(d) /\ ~Unbound(d)'
  BY <1>1, <1>2 DEF InFlight, Unbound
<1>8. \A k \in Cells : cell[k] # None /\ Alive(k) => map = k /\ row.tier = "live"
  BY <1>7, <1>9, RowFields DEF SerialInv, CellInv, Serving
<1> QED
  BY <1>1, <1>2, <1>3, <1>4, <1>5, <1>6, <1>7, <1>8, <1>9

\* The eviction.
LEMMA EvictInv ==
    ASSUME SerialInv, Evict
    PROVE  SerialInv'
<1>1. /\ off.pc # "idle" /\ InFlight = {} /\ InFlight' = {} /\ Shape /\ Shape' /\ Types
      /\ row # None /\ row.id \in VMs /\ UNCHANGED <<disk, client, acked>>
      /\ \A k \in Cells : cell[k] # None => cell[k].vm \in VMs
      /\ \A d \in Clients : ~Unbound(d)
  BY OffFacts DEF OffloadStep
<1>2. UNCHANGED <<copies, row, durable>> /\ off.pc = "evict"
  BY DEF Evict
<1>3. /\ OnlyStops /\ cell' = Held(client, map')
      /\ \/ off' = NoOff /\ map' = map /\ vm' = vm
         \/ /\ map' = None /\ off'.vm = row.id /\ off'.kind = off.kind
            /\ ~(Warm /\ Active(map) > 0)
            /\ \/ off'.pc = "boot" /\ off.kind \in {"archive", "freeze"}
               \/ off'.pc = "image" /\ off.kind \in {"compact", "image"}
  BY <1>1, EvictEffect
<1>4. PlaceInv'
  BY <1>1, <1>2, <1>3, PlaceKept DEF SerialInv, PlaceInv, OnlyStops
<1>5. CASE off' = NoOff /\ map' = map /\ vm' = vm
  <2>1. \A k \in Cells : cell'[k] = cell[k]
    BY <1>1, <1>3, <1>5, HeldFields DEF SerialInv, CellInv
  <2>2. \A k \in Cells : Alive(k)' = Alive(k)
    BY <1>5, <2>1 DEF Alive
  <2>3. CellInv' /\ CheckoutInv' /\ BringUpInv' /\ UnboundInv'
    BY <1>1, <1>2, <1>5, <2>1, <2>2, QuietCells
  <2> QED
    BY <1>1, <1>4, <1>5, <2>3, OffIdle, NoClientFields DEF SerialInv
<1>6. CASE /\ map' = None /\ off'.vm = row.id /\ off'.kind = off.kind
           /\ ~(Warm /\ Active(map) > 0)
           /\ \/ off'.pc = "boot" /\ off.kind \in {"archive", "freeze"}
              \/ off'.pc = "image" /\ off.kind \in {"compact", "image"}
  <2>1. map # None => \A c \in Clients : client[c].cell # map
    <3> SUFFICES ASSUME map # None, NEW c \in Clients, client[c].cell = map PROVE FALSE
      OBVIOUS
    <3>1. client[c].pc \notin Outside
      BY <1>1 DEF Shape, ClientShape, Types
    <3>2. client[c].pc = "session"
      BY <1>1, <3>1 DEF InFlight, Outside
    <3>3. Warm
      BY <3>2 DEF Warm, SerialInv, CheckoutInv
    <3>4. Active(map) = 0
      BY <1>6, <3>3, ActiveZero
    <3> QED
      BY <3>2, <3>4, ActiveZero
  <2>2. \A v \in VMs : vm'[v] = "running" => vm[v] = "running"
    BY <1>3 DEF OnlyStops
  <2>3. CellInv' /\ CheckoutInv' /\ BringUpInv' /\ UnboundInv'
    BY <1>1, <1>2, <1>3, <1>6, <2>1, <2>2, EvictedInv
  <2>4. row.tier = "live"
    BY <1>2, <1>6 DEF SerialInv, OffInv, Promotes
  <2>5. OffInv'
    BY <1>1, <1>2, <1>6, <2>4 DEF OffInv, Promotes
  <2> QED
    BY <1>1, <1>4, <2>3, <2>5 DEF SerialInv
<1> QED
  BY <1>3, <1>5, <1>6

\* The VM that is dumped is the one of the row.
LEMMA OffBootInv ==
    ASSUME races = {}, races' = {}, SerialInv, OffBoot
    PROVE  SerialInv'
<1>1. /\ off.pc # "idle" /\ InFlight = {} /\ InFlight' = {} /\ Shape /\ Shape' /\ Types
      /\ row # None /\ row.id \in VMs /\ UNCHANGED <<disk, client, acked>>
      /\ \A k \in Cells : cell[k] # None => cell[k].vm \in VMs
      /\ \A d \in Clients : ~Unbound(d)
      /\ \A k \in Cells : cell[k] # None /\ Alive(k) => map = k /\ row.tier = "live"
  BY OffFacts DEF OffloadStep
<1>2. UNCHANGED <<copies, row, durable, map>> /\ off.pc = "boot" /\ off.kind \in {"archive", "freeze"}
  BY <1>1 DEF OffBoot, Shape, OffShape
<1>3. row.tier = "live" /\ off.vm = row.id /\ map = None
  BY <1>2 DEF SerialInv, OffInv, Promotes
<1>4. Exists(row.id) /\ row.id # None
  BY <1>1, <1>3, Constants DEF SerialInv, PlaceInv
<1>5. \A k \in Cells : cell[k] # None => ~Alive(k)
  BY <1>1, <1>3, Constants
<1>6. CASE \E b \in Resolved(off.vm, FALSE) :
                   /\ b[1] \in VMs /\ vm' = [vm EXCEPT ![b[1]] = "running"]
                   /\ cached' = b[1] /\ cell' = AfterStart(b[1])
                   /\ off'.vm = b[1] /\ off'.pc = "dump" /\ off'.kind = off.kind
                   /\ ~PassedOver(off.vm, b[1])
  <2>1. PICK b \in Resolved(off.vm, FALSE) :
                   /\ b[1] \in VMs /\ vm' = [vm EXCEPT ![b[1]] = "running"]
                   /\ cached' = b[1] /\ cell' = AfterStart(b[1])
                   /\ off'.vm = b[1] /\ off'.pc = "dump" /\ off'.kind = off.kind
                   /\ ~PassedOver(off.vm, b[1])
    BY <1>6
  <2>2. b[1] = row.id
    BY <1>1, <1>3, <1>4, <2>1 DEF PassedOver
  <2>3. vm \in [VMs -> VmStates]
    BY <1>1 DEF Types
  <2>4. /\ \A k \in Cells :
                 /\ cell'[k] = None <=> cell[k] = None
                 /\ cell[k] # None => cell'[k].vm = cell[k].vm /\ (cell'[k].up => cell[k].up)
                 /\ cell[k] # None /\ cell[k].vm = row.id /\ cell'[k].up => vm[row.id] = "running"
    BY <1>1, <2>1, <2>2, AfterStartFields
  <2>5. \A k \in Cells : cell[k] # None => ~Alive(k)'
    <3> SUFFICES ASSUME NEW k \in Cells, cell[k] # None, Alive(k)' PROVE FALSE
      OBVIOUS
    <3>1. Alive(k)
      BY <1>1, <2>1, <2>2, <2>3, <2>4 DEF Alive
    <3> QED
      BY <1>5, <3>1
  <2>6. CellInv' /\ CheckoutInv' /\ BringUpInv' /\ UnboundInv'
    BY <1>1, <1>2, <2>4, <2>5, QuietCells
  <2>7. PlaceInv'
    BY <1>1, <1>2, <2>1, <2>2, <2>3, PlaceKept
  <2>8. OffInv'
    BY <1>1, <1>2, <1>3, <2>1, <2>2 DEF OffInv, Promotes
  <2> QED
    BY <1>1, <2>6, <2>7, <2>8 DEF SerialInv
<1>7. CASE /\ OnlyStops /\ cached' = cached /\ cell' = cell
           /\ \/ off' = NoOff
              \/ off'.kind = "image" /\ off'.pc = "image" /\ off'.vm = off.vm
  <2>1. \A k \in Cells : cell[k] # None => ~Alive(k)'
    BY <1>1, <1>5, <1>7 DEF Alive, OnlyStops
  <2>2. CellInv' /\ CheckoutInv' /\ BringUpInv' /\ UnboundInv'
    BY <1>1, <1>2, <1>7, <2>1, QuietCells
  <2>3. PlaceInv'
    BY <1>1, <1>2, <1>4, <1>7, PlaceKept DEF OnlyStops
  <2>4. OffInv'
    <3>1. CASE off' = NoOff
      BY <3>1, OffIdle, NoClientFields
    <3>2. CASE off'.kind = "image" /\ off'.pc = "image" /\ off'.vm = off.vm
      BY <1>1, <1>2, <1>3, <3>2 DEF OffInv, Promotes
    <3> QED
      BY <1>7, <3>1, <3>2
  <2> QED
    BY <1>1, <2>2, <2>3, <2>4 DEF SerialInv
<1> QED
  BY <1>1, <1>6, <1>7, OffBootEffect

\* A copy that the row does not name is free to change.
LEMMA PlaceLive ==
    ASSUME SerialInv, OffloadStep, row.tier = "live", row' = row, OnlyStops
    PROVE  PlaceInv'
<1>1. row # None /\ row.id \in VMs /\ UNCHANGED <<disk, acked>>
  BY OffFacts
<1>2. vm'[row.id] \in {"running", "stopped"} /\ 1..acked \subseteq disk[row.id]
  BY <1>1 DEF SerialInv, PlaceInv, OnlyStops
<1> QED
  BY <1>1, <1>2 DEF PlaceInv, Exists

\* A step of an offload that stops VMs only keeps the cells.
LEMMA StoppedCells ==
    ASSUME SerialInv, OffloadStep, UNCHANGED <<row, map, cell>>,
           \A v \in VMs : vm'[v] = "running" => vm[v] = "running"
    PROVE  CellInv' /\ CheckoutInv' /\ BringUpInv' /\ UnboundInv'
<1>1. off.pc # "idle" /\ client' = client /\ \A k \in Cells : cell[k] # None => cell[k].vm \in VMs
  BY OffFacts
<1>2. \A k \in Cells : cell[k] # None /\ Alive(k)' => Alive(k) /\ row' = row
  BY <1>1 DEF Alive
<1> QED
  BY <1>1, <1>2, QuietCells

\* The dump holds what the VM of the row holds.
LEMMA DumpInv ==
    ASSUME SerialInv, Dump
    PROVE  SerialInv'
<1>0. OffloadStep
  BY DEF OffloadStep
<1>1. /\ InFlight' = {} /\ Shape /\ Shape' /\ row # None /\ row.id \in VMs /\ UNCHANGED <<disk, client, acked>>
      /\ copies \in [Files -> Contents \cup {None}]
  BY <1>0, OffFacts DEF Types
<1>2. UNCHANGED <<row, durable, map, cell>> /\ off.pc = "dump" /\ off.kind \in {"archive", "freeze"}
  BY <1>1 DEF Dump, Shape, OffShape
<1>3. row.tier = "live" /\ off.vm = row.id /\ map = None
  BY <1>2 DEF SerialInv, OffInv, Promotes
<1>4. OnlyStops
  BY <1>1, DumpEffect
<1>5. CellInv' /\ CheckoutInv' /\ BringUpInv' /\ UnboundInv'
  BY <1>0, <1>2, <1>4, StoppedCells DEF OnlyStops
<1>6. PlaceInv'
  BY <1>0, <1>2, <1>3, <1>4, PlaceLive
<1>7. OffInv'
  <2>1. CASE /\ off'.pc = "mark" /\ off'.kind = off.kind /\ off'.vm = off.vm
             /\ copies' = [copies EXCEPT ![DumpFile] = disk[off.vm]] /\ disk[off.vm] \in Contents
    <3>1. 1..acked \subseteq disk[off.vm] /\ disk[off.vm] # None
      BY <1>1, <1>3, <2>1, Constants DEF SerialInv, PlaceInv
    <3>2. /\ off.kind = "archive" => copies'["dump"] = disk[off.vm]
          /\ off.kind = "freeze" => copies'["frozen"] = disk[off.vm]
      BY <1>1, <2>1 DEF DumpFile, Files
    <3> QED
      BY <1>1, <1>2, <1>3, <2>1, <3>1, <3>2 DEF OffInv, Promotes, Holds
  <2>2. CASE off' = NoOff
    BY <2>2, OffIdle, NoClientFields
  <2>3. CASE off'.kind = "image" /\ off'.pc = "image" /\ off'.vm = off.vm
    BY <1>1, <1>2, <1>3, <2>3 DEF OffInv, Promotes
  <2> QED
    BY <1>1, <2>1, <2>2, <2>3, DumpEffect
<1> QED
  BY <1>1, <1>5, <1>6, <1>7 DEF SerialInv

\* The image is of the disk of the row's VM.
LEMMA ImageInv ==
    ASSUME SerialInv, Image
    PROVE  SerialInv'
<1>0. OffloadStep
  BY DEF OffloadStep
<1>1. /\ InFlight' = {} /\ Shape /\ Shape' /\ row # None /\ row.id \in VMs /\ UNCHANGED <<disk, client, acked>>
      /\ copies \in [Files -> Contents \cup {None}] /\ Types
  BY <1>0, OffFacts DEF Types
<1>2. UNCHANGED <<vm, row, durable, map, cell>> /\ off.pc = "image" /\ off.kind \in {"compact", "image"}
  BY <1>1 DEF Image, Shape, OffShape
<1>3. row.tier = "live" /\ off.vm = row.id /\ map = None
  BY <1>2 DEF SerialInv, OffInv, Promotes
<1>4. OnlyStops
  BY <1>1, <1>2, StopOnly
<1>5. CellInv' /\ CheckoutInv' /\ BringUpInv' /\ UnboundInv'
  BY <1>0, <1>2, <1>4, StoppedCells DEF OnlyStops
<1>6. PlaceInv'
  BY <1>0, <1>2, <1>3, <1>4, PlaceLive
<1>7. OffInv'
  <2>1. 1..acked \subseteq disk[off.vm]
    BY <1>1, <1>3 DEF SerialInv, PlaceInv
  <2>2. CASE /\ off.kind = "compact" /\ off'.pc = "mark" /\ off'.kind = off.kind /\ off'.vm = off.vm
             /\ copies' = [copies EXCEPT !["compacted"] = disk[off.vm]] /\ disk[off.vm] \in Contents
    <3>1. copies'["compacted"] = disk[off.vm] /\ disk[off.vm] # None
      BY <1>1, <2>2, Constants DEF Files
    <3> QED
      BY <1>1, <1>2, <1>3, <2>1, <2>2, <3>1 DEF OffInv, Promotes, Holds
  <2>3. CASE /\ off.kind = "image" /\ off'.pc = "undump" /\ off'.kind = off.kind /\ off'.vm = off.vm
             /\ copies' = [copies EXCEPT !["image"] = disk[off.vm]] /\ disk[off.vm] \in Contents
    <3>1. copies'["image"] = disk[off.vm] /\ disk[off.vm] # None
      BY <1>1, <2>3, Constants DEF Files
    <3> QED
      BY <1>1, <1>2, <1>3, <2>1, <2>3, <3>1 DEF OffInv, Promotes, Holds
  <2>4. CASE off' = NoOff
    BY <2>4, OffIdle, NoClientFields
  <2> QED
    BY <1>1, <2>2, <2>3, <2>4, ImageEffect
<1> QED
  BY <1>1, <1>5, <1>6, <1>7 DEF SerialInv

\* A promotion copies the file that the row names, and leaves it.
LEMMA UploadInv ==
    ASSUME SerialInv, Upload
    PROVE  SerialInv'
<1>0. OffloadStep
  BY DEF OffloadStep
<1>1. /\ InFlight' = {} /\ Shape /\ Shape' /\ row # None /\ UNCHANGED <<disk, client, acked>>
      /\ \A d \in Clients : ~Unbound(d)
      /\ copies \in [Files -> Contents \cup {None}]
  BY <1>0, OffFacts DEF Types
<1>2. UNCHANGED <<vm, row, durable, map, cell>> /\ off.pc = "upload" /\ off.kind \in {"frozen", "compacted"}
  BY <1>1 DEF Upload, Shape, OffShape, Promotes
<1>3. row.tier = off.kind
  BY <1>2 DEF SerialInv, OffInv, Promotes
<1>4. RestoreOf(row) = off.kind /\ RestoreOf(row)' = off.kind
  BY <1>1, <1>2, <1>3 DEF RestoreOf
<1>5. copies[off.kind] # None /\ 1..acked \subseteq copies[off.kind]
  BY <1>1, <1>2, <1>3, <1>4 DEF SerialInv, PlaceInv, Holds
<1>6. CellInv' /\ CheckoutInv' /\ BringUpInv' /\ UnboundInv'
  BY <1>0, <1>2, StoppedCells
<1>7. copies'[off.kind] = copies[off.kind]
  BY <1>1, <1>2, UploadEffect DEF Files
<1>8. PlaceInv'
  BY <1>1, <1>2, <1>3, <1>4, <1>5, <1>7 DEF PlaceInv, Holds
<1>9. OffInv'
  <2>1. CASE /\ off.kind = "frozen" /\ off'.pc = "mark" /\ off'.kind = off.kind
             /\ copies' = [copies EXCEPT !["dump"] = copies["frozen"]]
    <3>1. copies'["dump"] = copies["frozen"]
      BY <1>1, <2>1 DEF Files
    <3> QED
      BY <1>1, <1>2, <1>3, <1>5, <2>1, <3>1 DEF OffInv, Promotes, Holds
  <2>2. CASE /\ off.kind = "compacted" /\ off'.pc = "undump" /\ off'.kind = off.kind
             /\ copies' = [copies EXCEPT !["image"] = copies["compacted"]]
    <3>1. copies'["image"] = copies["compacted"]
      BY <1>1, <2>2 DEF Files
    <3> QED
      BY <1>1, <1>2, <1>3, <1>5, <2>2, <3>1 DEF OffInv, Promotes, Holds
  <2>3. CASE off' = NoOff
    BY <2>3, OffIdle, NoClientFields
  <2> QED
    BY <1>1, <2>1, <2>2, <2>3, UploadEffect
<1> QED
  BY <1>1, <1>6, <1>8, <1>9 DEF SerialInv

\* The stale dump is deleted while the row still names another place.
LEMMA UndumpInv ==
    ASSUME SerialInv, DeleteStaleDump
    PROVE  SerialInv'
<1>0. OffloadStep
  BY DEF OffloadStep
<1>1. /\ InFlight' = {} /\ Shape /\ Shape' /\ row # None /\ UNCHANGED <<disk, client, acked>>
      /\ \A d \in Clients : ~Unbound(d)
      /\ copies \in [Files -> Contents \cup {None}] /\ Types
  BY <1>0, OffFacts DEF Types
<1>2. /\ UNCHANGED <<vm, row, durable, map, cell>> /\ off.pc = "undump" /\ off.kind \in {"image", "compacted"}
      /\ copies' = [copies EXCEPT !["dump"] = None] /\ Offload("mark") /\ "mark" \in OffPcs
  BY <1>1 DEF DeleteStaleDump, Shape, OffShape, OffPcs
<1>3. off'.pc = "mark" /\ off'.kind = off.kind /\ off'.vm = off.vm
  BY <1>1, <1>2, OffMoves
<1>4. CellInv' /\ CheckoutInv' /\ BringUpInv' /\ UnboundInv'
  BY <1>0, <1>2, StoppedCells
<1>5. copies'["dump"] = None /\ copies'["image"] = copies["image"] /\ copies'["compacted"] = copies["compacted"]
  BY <1>1, <1>2 DEF Files
<1>6. Holds("image")
  BY <1>2 DEF SerialInv, OffInv
<1>7. PlaceInv'
  <2>1. CASE off.kind = "image"
    <3>1. row.tier = "live"
      BY <1>2, <2>1 DEF SerialInv, OffInv, Promotes
    <3>2. OnlyStops
      BY <1>1, <1>2, StopOnly
    <3> QED
      BY <1>0, <1>2, <3>1, <3>2, PlaceLive
  <2>2. CASE off.kind = "compacted"
    <3>1. row.tier = "compacted"
      BY <1>2, <2>2 DEF SerialInv, OffInv, Promotes
    <3>2. RestoreOf(row) = "compacted" /\ RestoreOf(row)' = "compacted"
      BY <1>1, <1>2, <3>1 DEF RestoreOf
    <3>3. copies["compacted"] # None /\ 1..acked \subseteq copies["compacted"]
      BY <1>1, <3>1, <3>2 DEF SerialInv, PlaceInv, Holds
    <3> QED
      BY <1>1, <1>2, <1>5, <3>1, <3>2, <3>3 DEF PlaceInv, Holds
  <2> QED
    BY <1>2, <2>1, <2>2
<1>8. OffInv'
  BY <1>1, <1>2, <1>3, <1>5, <1>6 DEF SerialInv, OffInv, Promotes, Holds
<1> QED
  BY <1>1, <1>4, <1>7, <1>8 DEF SerialInv

\* The tier is written once the copy it names is complete.
LEMMA MarkInv ==
    ASSUME SerialInv, set_tier
    PROVE  SerialInv'
<1>0. OffloadStep
  BY DEF OffloadStep
<1>1. /\ off.pc # "idle" /\ InFlight' = {} /\ Shape /\ Shape' /\ row # None /\ UNCHANGED <<disk, client, acked>>
      /\ off.kind \in {"archive", "freeze", "compact", "image", "frozen", "compacted"}
      /\ \A k \in Cells : cell[k] # None /\ Alive(k) => map = k /\ row.tier = "live"
  BY <1>0, OffFacts
<1>2. UNCHANGED <<vm, copies, map, cell>> /\ off.pc = "mark"
  BY DEF set_tier
<1>3. /\ row' # None /\ row'.tier = TierOf /\ TierOf # "live" /\ off'.kind = off.kind
      /\ off'.pc = IF off.kind \in {"frozen", "compacted"} THEN "unlink" ELSE "kill"
  BY <1>1, MarkEffect
<1>4. CellInv' /\ CheckoutInv' /\ BringUpInv' /\ UnboundInv'
  <2>1. \A k \in Cells : cell[k] # None => ~Alive(k)
    BY <1>1, <1>2, Constants DEF SerialInv, OffInv, Promotes
  <2>2. \A k \in Cells : cell[k] # None => ~Alive(k)'
    BY <1>2, <2>1 DEF Alive
  <2> QED
    BY <1>1, <1>2, <2>2, QuietCells
<1>5. PlaceInv'
  <2>1. CASE off.kind = "freeze"
    <3>1. row'.tier = "frozen" /\ Holds("frozen")
      BY <1>2, <1>3, <2>1 DEF SerialInv, OffInv, TierOf
    <3>2. RestoreOf(row)' = "frozen"
      BY <1>3, <3>1 DEF RestoreOf
    <3> QED
      BY <1>1, <1>2, <1>3, <3>1, <3>2 DEF PlaceInv, Holds
  <2>2. CASE off.kind = "compact"
    <3>1. row'.tier = "compacted" /\ Holds("compacted")
      BY <1>2, <1>3, <2>2 DEF SerialInv, OffInv, TierOf
    <3>2. RestoreOf(row)' = "compacted"
      BY <1>3, <3>1 DEF RestoreOf
    <3> QED
      BY <1>1, <1>2, <1>3, <3>1, <3>2 DEF PlaceInv, Holds
  <2>3. CASE off.kind \in {"archive", "frozen"}
    <3>1. row'.tier = "archived" /\ Holds("dump")
      BY <1>2, <1>3, <2>3 DEF SerialInv, OffInv, TierOf
    <3>2. RestoreOf(row)' = "dump"
      BY <1>2, <1>3, <3>1 DEF RestoreOf, pick_restore, Holds
    <3> QED
      BY <1>1, <1>2, <1>3, <3>1, <3>2 DEF PlaceInv, Holds
  <2>4. CASE off.kind \in {"image", "compacted"}
    <3>1. row'.tier = "archived" /\ Holds("image") /\ copies["dump"] = None
      BY <1>2, <1>3, <2>4 DEF SerialInv, OffInv, TierOf
    <3>2. RestoreOf(row)' = "image"
      BY <1>2, <1>3, <3>1 DEF RestoreOf, pick_restore, Holds
    <3> QED
      BY <1>1, <1>2, <1>3, <3>1, <3>2 DEF PlaceInv, Holds
  <2> QED
    BY <1>1, <2>1, <2>2, <2>3, <2>4
<1>6. OffInv'
  BY <1>1, <1>3 DEF OffInv, Promotes, TierOf
<1> QED
  BY <1>1, <1>4, <1>5, <1>6 DEF SerialInv

\* What the job removes last, the VM or the local file, is not what the row names.
LEMMA CleanupInv ==
    ASSUME SerialInv, KillVM \/ Unlink
    PROVE  SerialInv'
<1>0. OffloadStep
  BY DEF OffloadStep
<1>1. /\ Shape /\ Shape' /\ Types /\ row # None /\ UNCHANGED <<disk, client, acked>>
      /\ \A d \in Clients : ~Unbound(d)
      /\ copies \in [Files -> Contents \cup {None}] /\ vm \in [VMs -> VmStates]
  BY <1>0, OffFacts DEF Types
<1>2. /\ UNCHANGED <<row, durable, map, cell>> /\ off' = NoOff
      /\ \/ off.pc = "kill" /\ copies' = copies /\ vm' \in {Kill(off.vm), vm}
         \/ off.pc = "unlink" /\ vm' = vm /\ copies' = [copies EXCEPT ![off.kind] = None] /\ off.kind \in Promotes
  BY <1>1 DEF KillVM, Unlink, Release, Shape, OffShape
<1>3. OffInv'
  BY <1>2, OffIdle, NoClientFields
<1>4. CellInv' /\ CheckoutInv' /\ BringUpInv' /\ UnboundInv'
  <2>1. \A v \in VMs : vm'[v] = "running" => vm[v] = "running"
    BY <1>1, <1>2 DEF Kill
  <2> QED
    BY <1>0, <1>2, <2>1, StoppedCells
<1>5. row.tier # "live" /\ Holds(RestoreOf(row))
  BY <1>1, <1>2 DEF SerialInv, OffInv, PlaceInv
<1>6. PlaceInv'
  <2>1. CASE off.pc = "kill" /\ copies' = copies
    <3>1. RestoreOf(row)' = RestoreOf(row)
      BY <1>2, <2>1 DEF RestoreOf, pick_restore
    <3> QED
      BY <1>1, <1>2, <1>5, <2>1, <3>1 DEF PlaceInv, Holds
  <2>2. CASE off.pc = "unlink" /\ copies' = [copies EXCEPT ![off.kind] = None] /\ off.kind \in Promotes
    <3>1. row.tier = "archived"
      BY <2>2 DEF SerialInv, OffInv
    <3>2. copies'["dump"] = copies["dump"] /\ copies'["image"] = copies["image"]
      BY <1>1, <2>2 DEF Files, Promotes
    <3>3. RestoreOf(row)' = RestoreOf(row) /\ RestoreOf(row) \in {"dump", "image"}
      BY <1>1, <1>2, <3>1, <3>2 DEF RestoreOf, pick_restore
    <3> QED
      BY <1>1, <1>2, <1>5, <3>2, <3>3 DEF PlaceInv, Holds
  <2> QED
    BY <1>2, <2>1, <2>2
<1> QED
  BY <1>1, <1>3, <1>4, <1>6 DEF SerialInv

-----------------------------------------------------------------------------
(* Before the first race: the results *)

\* Nothing is stored and nobody is connected.
LEMMA SerialInit == Init => SerialInv
<1> SUFFICES ASSUME Init PROVE SerialInv
  OBVIOUS
<1>1. /\ row = None /\ durable = None /\ acked = 0 /\ off.pc = "idle" /\ \A k \in Cells : cell[k] = None
      /\ \A c \in Clients : client[c].pc = "idle"
  BY NoClientFields DEF Init
<1>2. CellInv /\ CheckoutInv /\ BringUpInv /\ UnboundInv
  BY <1>1 DEF CellInv, CheckoutInv, BringUpInv, UnboundInv, Unbound, Uninit
<1>3. OffInv /\ PlaceInv
  BY <1>1 DEF OffInv, PlaceInv, Archiving
<1> QED
  BY <1>2, <1>3, ShapeInit DEF SerialInv

\* Every step that is no race keeps the invariant.
LEMMA SerialNext ==
    ASSUME races = {}, races' = {}, SerialInv, [Next]_vars
    PROVE  SerialInv'
<1>1. CASE \E c \in Clients : Checkout(c) \/ ClientStep(c) \/ Write(c) \/ Disconnect(c)
  <2>1. PICK c \in Clients : Checkout(c) \/ ClientStep(c) \/ Write(c) \/ Disconnect(c)
    BY <1>1
  <2>2. CASE Checkout(c) \/ PassOffload(c)
    BY <2>2, StartInv
  <2>3. CASE Lookup(c)
    BY <2>3, LookupInv
  <2>4. CASE Acquire(c)
    BY <2>4, AcquireInv
  <2>5. CASE InitCell(c)
    BY <2>5, InitCellInv
  <2>6. CASE Boot(c)
    BY <2>6, BootInv
  <2>7. CASE BringUp(c)
    BY <2>7, BringUpDone
  <2>8. CASE BringUpFails(c)
    BY <2>8, FailsInv
  <2>9. CASE Bind(c)
    BY <2>9, BindInv
  <2>10. CASE Admit(c) \/ Disconnect(c)
    BY <2>10, AdmitInv
  <2>11. CASE Write(c)
    BY <2>11, WriteInv
  <2> QED
    BY <2>1, <2>2, <2>3, <2>4, <2>5, <2>6, <2>7, <2>8, <2>9, <2>10, <2>11 DEF ClientStep
<1>2. CASE ReapIdle
  BY <1>2, ReapIdleInv
<1>3. CASE \/ ReapStop \/ UntrackedPass \/ \E v \in VMs : UntrackedStop(v)
           \/ PurgeRead \/ PurgeKill \/ Flush \/ UNCHANGED vars
  BY <1>3, HostInv
<1>4. CASE \E k \in AllKinds : Claim(k)
  BY <1>4, ClaimInv
<1>5. CASE OffloadStep
  <2>1. CASE Evict
    BY <2>1, EvictInv
  <2>2. CASE OffBoot
    BY <2>2, OffBootInv
  <2>3. CASE Dump
    BY <2>3, DumpInv
  <2>4. CASE Image
    BY <2>4, ImageInv
  <2>5. CASE Upload
    BY <2>5, UploadInv
  <2>6. CASE DeleteStaleDump
    BY <2>6, UndumpInv
  <2>7. CASE set_tier
    BY <2>7, MarkInv
  <2>8. CASE KillVM \/ Unlink
    BY <2>8, CleanupInv
  <2> QED
    BY <1>5, <2>1, <2>2, <2>3, <2>4, <2>5, <2>6, <2>7, <2>8 DEF OffloadStep
<1>6. CASE Crash
  BY <1>6, CrashInv
<1> QED
  BY <1>1, <1>2, <1>3, <1>4, <1>5, <1>6 DEF Next

\* Up to the first race: an entry that reaches a running VM is the current one and
\* of the VM that a live row names or a bring-up is about to record, one bring-up
\* runs at a time, an offload has the schema to itself, and the place that the row
\* names or is about to name has every acknowledged write.
THEOREM SerialInvariant == Spec => [](races = {} => SerialInv)
<1>1. Init => (races = {} => SerialInv)
  BY SerialInit
<1>2. (races = {} => SerialInv) /\ [Next]_vars => (races = {} => SerialInv)'
  BY SerialNext, RacesGrow
<1> QED
  BY <1>1, <1>2, PTL DEF Spec

\* Unless a race was lost, every acknowledged write is in the place that the
\* registry row names or on the VM that a bring-up is about to record, through
\* every offload, restore, failure and restart.
THEOREM WritesKept == Spec => []AckedKept
<1>1. (races = {} => SerialInv) => AckedKept
  <2> SUFFICES ASSUME SerialInv PROVE Kept
    BY DEF AckedKept
  <2>1. acked \in Nat
    BY LifecycleAssumption DEF SerialInv, Shape, Types
  <2>2. CASE \E c \in Clients : Unbound(c)
    BY <2>2 DEF Kept, SerialInv, UnboundInv
  <2>3. CASE \A c \in Clients : ~Unbound(c)
    <3>1. row = None => 1..acked = {}
      BY <2>1, <2>3 DEF SerialInv, PlaceInv
    <3>2. row # None /\ row.tier = "live" => Exists(row.id) /\ 1..acked \subseteq disk[row.id]
      BY DEF SerialInv, PlaceInv
    <3>3. row # None /\ row.tier # "live" =>
             copies[RestoreOf(row)] # None /\ 1..acked \subseteq copies[RestoreOf(row)]
      BY <2>3 DEF SerialInv, PlaceInv, Holds
    <3>4. 1..acked \subseteq Served(row)
      BY <3>1, <3>2, <3>3 DEF Served
    <3> QED
      BY <3>4 DEF Kept
  <2> QED
    BY <2>2, <2>3
<1> QED
  BY <1>1, SerialInvariant, PTL

\* What an entry that is alive serves from: the VM of a live row, or the one of a
\* bring-up that is not recorded yet.
LEMMA AliveServes ==
    ASSUME SerialInv, NEW k \in Cells, cell[k] # None, Alive(k)
    PROVE  /\ cell[k].vm \in VMs /\ Serves(cell[k].vm)
           /\ 1..acked \subseteq disk[cell[k].vm]
<1>1. cell[k].vm \in VMs
  BY EntryFields DEF SerialInv, Shape, Types
<1>2. Serving(k)
  BY DEF SerialInv, CellInv
<1>3. CASE row = LiveRow(cell[k].vm)
  <2>1. row # None /\ row.tier = "live" /\ row.id = cell[k].vm
    BY <1>1, <1>3, RowFields
  <2> QED
    BY <1>1, <1>3, <2>1 DEF SerialInv, PlaceInv, Serves, LiveRow
<1>4. CASE \E c \in Clients : Unbound(c) /\ client[c].cell = k
  <2>1. PICK c \in Clients : Unbound(c) /\ client[c].cell = k
    BY <1>4
  <2>2. client[c].vm = cell[k].vm
    BY <2>1 DEF Unbound, SerialInv, CheckoutInv
  <2>3. 1..acked \subseteq disk[client[c].vm]
    BY <2>1 DEF SerialInv, UnboundInv
  <2> QED
    BY <1>1, <2>1, <2>2, <2>3 DEF Serves
<1> QED
  BY <1>2, <1>3, <1>4 DEF Serving

\* Unless a race was lost, a client that a VM is serving sees every acknowledged
\* write of every client.
THEOREM SessionsSeeAll == Spec => []SessionSeesAcked
<1>1. (races = {} => SerialInv) => SessionSeesAcked
  <2> SUFFICES ASSUME SerialInv, NEW c \in Clients, client[c].pc = "session", Alive(client[c].cell)
               PROVE  1..acked \subseteq disk[cell[client[c].cell].vm]
    BY DEF SessionSeesAcked
  <2>1. client[c].cell \in Cells /\ cell[client[c].cell] # None
    BY DEF SerialInv, Shape, ClientShape, Outside, CheckoutInv
  <2> QED
    BY <2>1, AliveServes
<1> QED
  BY <1>1, SerialInvariant, PTL

\* The VM of an entry that is alive is not what a step kills.
LEMMA AliveSpared ==
    ASSUME races = {}, races' = {}, SerialInv, [Next]_vars, NEW k \in Cells, cell[k] # None, Alive(k)
    PROVE  vm'[cell[k].vm] # "gone"
<1> DEFINE v == cell[k].vm
<1>1. Shape /\ Types /\ v \in VMs /\ vm \in [VMs -> VmStates] /\ vm[v] = "running"
  BY EntryFields DEF SerialInv, Shape, Types, Alive
<1>2. Serves(v)
  BY AliveServes
<1> HIDE DEF v
<1>4. CASE \E c \in Clients : BringUpFails(c)
  <2>1. PICK c \in Clients : client[c].pc \in {"boot", "ready"}
    BY <1>4 DEF BringUpFails
  <2> QED
    BY <2>1, BringUpAlone
<1>5. CASE \E c \in Clients : Boot(c)
  <2>1. PICK c \in Clients : client[c].pc = "boot"
    BY <1>5 DEF Boot
  <2> QED
    BY <2>1, BringUpAlone
<1>6. CASE vm' = vm
  BY <1>1, <1>6 DEF v
<1>7. CASE OnlyStops
  BY <1>1, <1>7 DEF OnlyStops, v
<1>8. CASE ReapStop \/ \E u \in VMs : UntrackedStop(u)
  <2>1. \E u : checkpoint_and_stop(u)
    BY <1>8 DEF ReapStop, UntrackedStop
  <2> QED
    BY <1>1, <1>7, <2>1, StopOnly
<1>9. CASE Evict
  BY <1>1, <1>7, <1>9, EvictEffect
<1>10. CASE Dump
  BY <1>1, <1>7, <1>10, DumpEffect
<1>11. CASE OffBoot
  <2>1. CASE \E b : vm' = [vm EXCEPT ![b] = "running"]
    BY <1>1, <2>1 DEF v
  <2> QED
    BY <1>1, <1>7, <1>11, <2>1, OffBootEffect
<1>12. CASE KillVM
  <2>1. off.pc = "kill" /\ row.tier # "live"
    BY <1>12 DEF KillVM, SerialInv, OffInv
  <2>2. row # LiveRow(v)
    BY <1>1, <2>1, RowFields
  <2>3. PICK c \in Clients : Unbound(c)
    BY <1>2, <2>2 DEF Serves, LiveRow
  <2> QED
    BY <2>1, <2>3, NotArchiving DEF Unbound
<1>13. CASE PurgeKill
  <2>1. CASE vm' = Kill(purging) /\ ~Serves(purging)
    <3>1. purging # v
      BY <1>2, <2>1
    <3> QED
      BY <1>1, <2>1, <3>1 DEF Kill, v
  <2> QED
    BY <1>6, <1>13, <2>1 DEF PurgeKill, Race
<1>14. CASE Crash
  BY <1>1, <1>14 DEF Crash, v
<1>15. CASE \E c \in Clients : \/ Checkout(c) \/ PassOffload(c) \/ Lookup(c) \/ Acquire(c) \/ InitCell(c)
                               \/ BringUp(c) \/ Bind(c) \/ Admit(c) \/ Write(c) \/ Disconnect(c)
  BY <1>6, <1>15 DEF Checkout, PassOffload, Lookup, Acquire, InitCell, BringUp, Bind, Admit, Write, Disconnect
<1>16. CASE \/ ReapIdle \/ UntrackedPass \/ (\E j \in AllKinds : Claim(j)) \/ Image \/ Upload
            \/ DeleteStaleDump \/ set_tier \/ Unlink \/ PurgeRead \/ Flush \/ UNCHANGED vars
  BY <1>6, <1>16 DEF ReapIdle, UntrackedPass, Claim, Image, Upload, DeleteStaleDump, set_tier, Unlink,
                     PurgeRead, Flush, vars
<1> QED
  BY <1>4, <1>5, <1>8, <1>9, <1>10, <1>11, <1>12, <1>13, <1>14, <1>15, <1>16
     DEF Next, ClientStep, OffloadStep

\* Unless a race was lost, no step kills a VM that is serving a session.
THEOREM ServingKept == Spec => ServingNeverKilled
<1>1. (races = {} => SerialInv) /\ [Next]_vars =>
         [races' = {} => \A c \in Clients : client[c].pc = "session" /\ Alive(client[c].cell)
              => vm'[cell[client[c].cell].vm] # "gone"]_vars
  <2> SUFFICES ASSUME races = {} => SerialInv, [Next]_vars, races' = {},
                      NEW c \in Clients, client[c].pc = "session", Alive(client[c].cell)
               PROVE  vm'[cell[client[c].cell].vm] # "gone"
    OBVIOUS
  <2>1. races = {} /\ SerialInv
    BY RacesGrow
  <2>2. client[c].cell \in Cells /\ cell[client[c].cell] # None
    BY <2>1 DEF SerialInv, Shape, ClientShape, Outside, CheckoutInv
  <2> QED
    BY <2>1, <2>2, AliveSpared
<1> QED
  BY <1>1, SerialInvariant, PTL DEF ServingNeverKilled, Spec

=============================================================================
