-------------------------- MODULE SchemaLifecycle --------------------------
(***************************************************************************)
(* The life of one tenant database ("schema") on a pg-fc host: checkouts   *)
(* that attach to a warm VM or bring one up, the idle and untracked        *)
(* reapers that stop VMs, the offload ladder that moves the data to a      *)
(* local file or to S3 and kills the VM, the purge, and the restart of the *)
(* pooler (src/pg-fc/src/registry.rs, store.rs, vm.rs, imgarchive.rs).     *)
(*                                                                         *)
(* A database's contents are the set of acknowledged writes it holds.  A   *)
(* sandbox id is never reused.  A VM of Spares came from the warm pool and *)
(* keeps its spare name, so a lookup by name does not find it.             *)
(***************************************************************************)
EXTENDS Naturals, FiniteSets

CONSTANTS None,
          Clients,     \* client connections
          MaxVMs,      \* bound: sandbox ids the daemon hands out
          Spares,      \* ids of warm spares that exist at the start
          MaxWrites,   \* bound: acknowledged writes
          Slots,       \* client slots of one VM's Postgres
          Kinds,       \* offload jobs configured on this host
          Reapers,     \* the reapers configured on it
          Faults       \* failures that may happen

(***************************************************************************)
(* races names the unguarded races of the code that a behaviour has been   *)
(* through.  Nothing excludes them, so they are steps like any other; the  *)
(* ghost lets a property say what holds as long as none was lost:          *)
(*   "overlap"   an offload claims the schema while a checkout is past its *)
(*               look at the claim and without a slot                      *)
(*   "purge"     the purge kills a VM that a bring-up has adopted since    *)
(*   "rebind"    a cold checkout reads the row of a bring-up before the    *)
(*               bring-up has recorded its VM in it                        *)
(*   "reattach"  a bring-up passes over the VM of the row, which exists    *)
(*   "restart"   the pooler dies while registry.tsv is behind the row: a   *)
(*               binding not written yet, or a tier whose write failed     *)
(***************************************************************************)
Races == {"overlap", "purge", "rebind", "reattach", "restart"}
AllKinds == {"archive", "freeze", "compact", "image", "promote"}
AllReapers == {"idle", "untracked"}
AllFaults == {"crash", "bringup", "dump", "kill", "stop", "reattach", "write"}

VMs == 1..MaxVMs
Writes == 1..MaxWrites
Contents == SUBSET Writes
Cells == 1..(Cardinality(Clients) + 1)
Tiers == {"live", "frozen", "compacted", "archived"}

ASSUME LifecycleAssumption ==
    /\ MaxVMs \in Nat \ {0} /\ MaxWrites \in Nat \ {0} /\ Slots \in Nat \ {0}
    /\ Spares \subseteq VMs
    /\ IsFiniteSet(Clients)
    /\ Kinds \subseteq AllKinds /\ Reapers \subseteq AllReapers /\ Faults \subseteq AllFaults
    /\ None \notin VMs \cup Cells /\ \A s \in Contents : s # None
    /\ \A r \in [id : VMs, tier : Tiers] \cup [vm : VMs, up : BOOLEAN] : r # None

VARIABLES
    vm,        \* the daemon's sandboxes
    disk,      \* what each VM's data disk holds
    copies,    \* the offloaded copies: two local files, two S3 objects
    row,       \* the registry row in memory: None or [id, tier]
    durable,   \* the same row in registry.tsv
    map,       \* `entries`: the schema's current cell
    cell,      \* each cell's entry: the VM it serves, None until initialised
    client,    \* each connection's checkout
    off,       \* the offload that holds the schema's ArchivingGuard
    cached,    \* inventory: the id last resolved under the schema's name
    reaping,   \* the VM an idle-reaper pass evicted and has not stopped yet
    suspects,  \* the untracked reaper: VMs of its last pass
    confirmed, \*   and the ones it is about to stop
    purging,   \* the VM a purge pass has selected
    acked,     \* ghost: how many writes were acknowledged
    races      \* ghost: the races this behaviour has been through

vars == <<vm, disk, copies, row, durable, map, cell, client, off, cached,
          reaping, suspects, confirmed, purging, acked, races>>

-----------------------------------------------------------------------------
Files == {"frozen", "compacted", "dump", "image"}
Sources == Files \cup {"none"}
Rows == [id : VMs, tier : Tiers] \cup {None}
NoClient == [pc |-> "idle", cell |-> None, src |-> "none",
             known |-> None, vm |-> None, made |-> FALSE]
NoOff == [pc |-> "idle", kind |-> "archive", vm |-> None]

Exists(v) == vm[v] \in {"running", "stopped"}
Archiving == off.pc # "idle"

(* pick_restore: of the two S3 objects a plausible dump is preferred.      *)
pick_restore == IF copies["dump"] # None THEN "dump"
                ELSE IF copies["image"] # None THEN "image" ELSE "dump"

(* The restore source of the row's tier (checkout_inner).                  *)
RestoreOf(r) ==
    IF r = None \/ r.tier = "live" THEN "none"
    ELSE IF r.tier = "archived" THEN pick_restore ELSE r.tier

Active(k) == Cardinality({c \in Clients :
                client[c].pc = "session" /\ client[c].cell = k})

(* A checkout past its archiving check that holds no slot yet.             *)
InFlight == {c \in Clients : client[c].pc \notin {"idle", "start", "session"}}

(* A bring-up whose VM the row does not name yet.                          *)
Unbound(c) == client[c].pc = "bind" /\ row # [id |-> client[c].vm, tier |-> "live"]

(* Step through a race, if it is one.                                      *)
Race(name, lost) == races' = races \cup {r \in {name} : lost}

(* No session, and idle_timeout since the last touch: the entry was        *)
(* touched when a checkout in flight on its cell claimed it (or was new),  *)
(* and idle_timeout outlasts the way from there to the slot.               *)
is_idle(k) == Active(k) = 0 /\ \A c \in InFlight : client[c].cell # k

(* The entry of cell k still reaches a running VM.                         *)
Alive(k) == cell[k].up /\ vm[cell[k].vm] = "running"

Warm == map # None /\ cell[map] # None

(* The cells someone still holds; the last Arc to go takes the entry along. *)
Held(cl, m) == [k \in Cells |-> IF k = m \/ \E c \in Clients : cl[c].cell = k
                                THEN cell[k] ELSE None]

-----------------------------------------------------------------------------
Init ==
    /\ vm = [v \in VMs |-> IF v \in Spares THEN "spare" ELSE "unborn"]
    /\ disk = [v \in VMs |-> {}]
    /\ copies = [f \in Files |-> None]
    /\ row = None /\ durable = None
    /\ map = None
    /\ cell = [k \in Cells |-> None]
    /\ client = [c \in Clients |-> NoClient]
    /\ off = NoOff
    /\ cached = None /\ reaping = None /\ purging = None
    /\ suspects = {} /\ confirmed = {}
    /\ acked = 0 /\ races = {}

-----------------------------------------------------------------------------
(* vm.rs: finding, starting, creating and disposing of sandboxes.          *)

(* The VMs of this schema's name.  heyvmd does not make names unique.      *)
Named == {v \in VMs \ Spares : Exists(v)}

Unborn == {v \in VMs : vm[v] = "unborn"}
Fresh == {v \in Unborn : \A w \in Unborn : v <= w}
Warmed == {v \in Spares : vm[v] = "spare"}

(* The known id whose reattach fails with an error is passed over, like    *)
(* one that is gone: resolve_sandbox then asks by name.                    *)
Reattached(known) == {v \in {known} \ {None} : Exists(v)}
ByName == IF cached # None /\ Exists(cached) THEN {cached} ELSE Named

(* resolve_sandbox: by the known id, by name, a spare (when the caller     *)
(* offers the pool), a new VM.  The result is <<VM, made by this call>>.   *)
Resolved(known, pool) ==
    LET later == IF ByName # {} THEN ByName \X {FALSE}
                 ELSE (Fresh \cup IF pool THEN Warmed ELSE {}) \X {TRUE}
        first == Reattached(known) \X {FALSE}
    IN  IF first = {} THEN later
        ELSE first \cup IF "reattach" \in Faults /\ cached # known THEN later ELSE {}

PassedOver(known, v) == known # None /\ Exists(known) /\ v # known

(* claim_restore_vehicle: a spare or a new VM whose disk the image becomes. *)
Vehicles == (Fresh \cup Warmed) \X {TRUE}

(* stop_after_failed_bringup: the known VM, else the one of that name.     *)
StoppedAfterFailure(known) ==
    IF known # None THEN {known} ELSE ByName

Stop(s) == [v \in VMs |-> IF v \in s /\ vm[v] = "running" THEN "stopped" ELSE vm[v]]

Kill(v) == [vm EXCEPT ![v] = "gone"]

(* An entry reaches the VM it was made on: its tunnel does not survive a   *)
(* stop, so a VM that is started again needs a new one.                    *)
AfterStart(v) ==
    [k \in Cells |-> IF cell[k] # None /\ cell[k].vm = v /\ vm[v] # "running"
                     THEN [cell[k] EXCEPT !.up = FALSE] ELSE cell[k]]

-----------------------------------------------------------------------------
(* checkout_inner, one action per stretch between two suspensions.         *)

Step(c, pc) == client' = [client EXCEPT ![c].pc = pc]

Checkout(c) ==
    /\ client[c].pc = "idle"
    /\ Step(c, "start")
    /\ UNCHANGED <<vm, disk, copies, row, durable, map, cell, off, cached,
                   reaping, suspects, confirmed, purging, acked, races>>

(* Poll until no offload of this schema is in flight.                      *)
PassOffload(c) ==
    /\ client[c].pc = "start"
    /\ ~Archiving
    /\ Step(c, "checked")
    /\ UNCHANGED <<vm, disk, copies, row, durable, map, cell, off, cached,
                   reaping, suspects, confirmed, purging, acked, races>>

(* Under the map lock: claim the warm entry, or join or insert a cell; a   *)
(* cold start goes on to read the row.                                     *)
Lookup(c) ==
    /\ client[c].pc = "checked"
    /\ LET used == {client[d].cell : d \in Clients} \cup {map}
           free == CHOOSE k \in Cells : k \notin used
           mine == IF map = None THEN free ELSE map
       IN  /\ map' = mine
           /\ client' = [client EXCEPT ![c] =
                IF Warm THEN [NoClient EXCEPT !.pc = "warm", !.cell = mine]
                ELSE [NoClient EXCEPT !.pc = "init", !.cell = mine, !.src = RestoreOf(row),
                                      !.known = IF row = None THEN None ELSE row.id]]
    /\ Race("rebind", ~Warm /\ \E d \in Clients : Unbound(d))
    /\ UNCHANGED <<vm, disk, copies, row, durable, cell, off, cached,
                   reaping, suspects, confirmed, purging, acked>>

(* ConnGuard::acquire on a warm entry, or the admission timeout; then      *)
(* entry_alive: serve, or give the slot back, evict and start over.        *)
Acquire(c) ==
    /\ client[c].pc = "warm"
    /\ IF Active(client[c].cell) = Slots
       THEN client' = [client EXCEPT ![c] = NoClient] /\ UNCHANGED map
       ELSE IF Alive(client[c].cell)
       THEN Step(c, "session") /\ UNCHANGED map
       ELSE /\ client' = [client EXCEPT ![c] = [NoClient EXCEPT !.pc = "start"]]
            /\ map' = IF map = client[c].cell THEN None ELSE map
    /\ cell' = Held(client', map')
    /\ UNCHANGED <<vm, disk, copies, row, durable, off, cached,
                   reaping, suspects, confirmed, purging, acked, races>>

(* get_or_try_init: one caller of a cell runs ensure_vm, the others wait   *)
(* for its entry or, when it fails, for their turn.                        *)
InitCell(c) ==
    /\ client[c].pc = "init"
    /\ \/ /\ cell[client[c].cell] # None
          /\ client' = [client EXCEPT ![c].pc = "bind", ![c].vm = cell[client[c].cell].vm]
       \/ /\ cell[client[c].cell] = None
          /\ ~\E d \in Clients : client[d].pc \in {"boot", "ready"} /\ client[d].cell = client[c].cell
          /\ Step(c, "boot")
    /\ UNCHANGED <<vm, disk, copies, row, durable, map, cell, off, cached,
                   reaping, suspects, confirmed, purging, acked, races>>

(* The sandboxes client c's bring-up can end up on.                        *)
Candidates(c) ==
    IF client[c].src \in {"compacted", "image"} THEN Vehicles
    ELSE Resolved(IF client[c].src = "none" THEN client[c].known ELSE None, TRUE)

(* The sandbox of the bring-up is running.  An image restore has put the   *)
(* image in place of the vehicle's disk before that boot.                  *)
Boot(c) ==
    /\ client[c].pc = "boot"
    /\ LET s == client[c].src
           image == s \in {"compacted", "image"}
       IN  \E b \in Candidates(c) :
              /\ image => copies[s] # None
              /\ vm' = [vm EXCEPT ![b[1]] = "running"]
              /\ disk' = IF image THEN [disk EXCEPT ![b[1]] = copies[s]] ELSE disk
              /\ cached' = b[1]
              /\ cell' = AfterStart(b[1])
              /\ client' = [client EXCEPT ![c].pc = "ready", ![c].vm = b[1], ![c].made = b[2]]
              /\ Race("reattach", s = "none" /\ PassedOver(client[c].known, b[1]))
    /\ UNCHANGED <<copies, row, durable, map, off,
                   reaping, suspects, confirmed, purging, acked>>

(* As put, but a row that exists keeps its binding.                        *)
PutOnce(id) ==
    /\ row' = IF row = None THEN [id |-> id, tier |-> "live"] ELSE row
    /\ UNCHANGED durable

(* Store::put: the memory row at once, the file by a detached write (Flush). *)
put(id) ==
    /\ row' = [id |-> id, tier |-> "live"]
    /\ UNCHANGED durable

(* Postgres answers, the database exists, a dump is loaded into it; the    *)
(* cell's entry is there for every checkout from here on.                  *)
BringUp(c) ==
    /\ client[c].pc = "ready"
    /\ vm[client[c].vm] = "running"
    /\ LET s == client[c].src IN
         /\ s \in {"frozen", "dump"} => copies[s] # None
         /\ disk' = IF s \in {"frozen", "dump"}
                    THEN [disk EXCEPT ![client[c].vm] = copies[s]] ELSE disk
    /\ cell' = [cell EXCEPT ![client[c].cell] = [vm |-> client[c].vm, up |-> TRUE]]
    /\ Step(c, "bind")
    /\ UNCHANGED <<vm, copies, row, durable, map, off, cached,
                   reaping, suspects, confirmed, purging, acked, races>>

(* ensure_vm fails: no copy to restore, no sandbox, a VM that went away,   *)
(* or an error of its own.  What it made is killed, the known VM stopped.  *)
BringUpFails(c) ==
    /\ client[c].pc \in {"boot", "ready"}
    /\ \/ "bringup" \in Faults
       \/ client[c].src \in Files /\ copies[client[c].src] = None
       \/ client[c].pc = "boot" /\ Candidates(c) = {}
       \/ client[c].pc = "ready" /\ vm[client[c].vm] # "running"
    /\ LET made == IF client[c].made THEN {client[c].vm} ELSE {}
       IN  vm' = [v \in VMs |-> IF v \in made THEN "gone"
                                ELSE Stop(StoppedAfterFailure(client[c].known))[v]]
    /\ client' = [client EXCEPT ![c] = NoClient]
    /\ cached' = IF client[c].made /\ cached = client[c].vm THEN None ELSE cached
    /\ cell' = Held(client', map)
    /\ UNCHANGED <<disk, copies, row, durable, map, off,
                   reaping, suspects, confirmed, purging, acked, races>>

(* Record the binding, then remove the local file a thaw restored from.    *)
Bind(c) ==
    /\ client[c].pc = "bind"
    /\ put(client[c].vm)
    /\ copies' = IF client[c].src \in {"frozen", "compacted"}
                 THEN [copies EXCEPT ![client[c].src] = None] ELSE copies
    /\ Step(c, "admit")
    /\ UNCHANGED <<vm, disk, map, cell, off, cached,
                   reaping, suspects, confirmed, purging, acked, races>>

(* ConnGuard::acquire after a bring-up: no probe follows.                  *)
Admit(c) ==
    /\ client[c].pc = "admit"
    /\ client' = [client EXCEPT ![c] =
         IF Active(client[c].cell) < Slots
         THEN [NoClient EXCEPT !.pc = "session", !.cell = client[c].cell] ELSE NoClient]
    /\ cell' = Held(client', map)
    /\ UNCHANGED <<vm, disk, copies, row, durable, map, off, cached,
                   reaping, suspects, confirmed, purging, acked, races>>

(* An acknowledged write through a session.                                *)
Write(c) ==
    /\ client[c].pc = "session"
    /\ Alive(client[c].cell)
    /\ acked < MaxWrites
    /\ acked' = acked + 1
    /\ disk' = [disk EXCEPT ![cell[client[c].cell].vm] = @ \cup {acked + 1}]
    /\ UNCHANGED <<vm, copies, row, durable, map, cell, client, off, cached,
                   reaping, suspects, confirmed, purging, races>>

(* ConnGuard's Drop.                                                       *)
Disconnect(c) ==
    /\ client[c].pc = "session"
    /\ client' = [client EXCEPT ![c] = NoClient]
    /\ cell' = Held(client', map)
    /\ UNCHANGED <<vm, disk, copies, row, durable, map, off, cached,
                   reaping, suspects, confirmed, purging, acked, races>>

-----------------------------------------------------------------------------
(* The idle and the untracked reaper.                                      *)

(* reap_idle: evict under the map lock, ...                                *)
ReapIdle ==
    /\ "idle" \in Reapers
    /\ reaping = None
    /\ Warm /\ is_idle(map)
    /\ reaping' = cell[map].vm
    /\ map' = None
    /\ cell' = Held(client, map')
    /\ UNCHANGED <<vm, disk, copies, row, durable, client, off, cached,
                   suspects, confirmed, purging, acked, races>>

(* ... checkpoint and stop after it is released.  A stop may time out.     *)
checkpoint_and_stop(v) ==
    vm' \in {Stop({v})} \cup IF "stop" \in Faults THEN {vm} ELSE {}

ReapStop ==
    /\ reaping # None
    /\ checkpoint_and_stop(reaping)
    /\ reaping' = None
    /\ UNCHANGED <<disk, copies, row, durable, map, cell, client, off, cached,
                   suspects, confirmed, purging, acked, races>>

(* A VM the pending ledger names: made by a bring-up that is not bound.    *)
Pending(v) == \E c \in Clients :
                 client[c].vm = v /\ client[c].made /\ client[c].pc \in {"ready", "bind"}

(* As Untracked, but the VM a live row names counts as tracked without a   *)
(* cell.                                                                   *)
UntrackedSuperseded == {v \in VMs \ Spares :
                          vm[v] = "running" /\ row # None /\ row.id # v
                          /\ ~Archiving /\ ~Pending(v)}

(* Running, not spare-named, and either the live binding with no cell or   *)
(* a superseded VM of the schema's name.                                   *)
Untracked == {v \in VMs \ Spares :
                /\ vm[v] = "running" /\ row # None
                /\ \/ row.id = v /\ row.tier = "live" /\ map = None
                   \/ row.id # v
                /\ ~Archiving /\ ~Pending(v)}

(* reap_untracked: what two consecutive passes saw is stopped.             *)
UntrackedPass ==
    /\ "untracked" \in Reapers
    /\ confirmed = {}
    /\ suspects' = Untracked
    /\ confirmed' = suspects \cap Untracked
    /\ UNCHANGED <<vm, disk, copies, row, durable, map, cell, client, off, cached,
                   reaping, purging, acked, races>>

UntrackedStop(v) ==
    /\ v \in confirmed
    /\ checkpoint_and_stop(v)
    /\ confirmed' = confirmed \ {v}
    /\ UNCHANGED <<disk, copies, row, durable, map, cell, client, off, cached,
                   reaping, suspects, purging, acked, races>>

-----------------------------------------------------------------------------
(* The offload ladder.  The claim is held from the tier check to the end.  *)

Release == off' = NoOff
Offload(pc) == off' = [off EXCEPT !.pc = pc]

(* The tier check and ArchivingGuard::claim.                               *)
Claim(k) ==
    /\ off.pc = "idle"
    /\ k \in Kinds
    /\ row # None
    /\ \/ /\ k # "promote" /\ row.tier = "live"
          /\ off' = [pc |-> "evict", kind |-> k, vm |-> None]
       \/ /\ k = "promote" /\ row.tier \in {"frozen", "compacted"}
          /\ off' = [pc |-> "upload", kind |-> row.tier, vm |-> None]
    /\ Race("overlap", InFlight # {})
    /\ UNCHANGED <<vm, disk, copies, row, durable, map, cell, client, cached,
                   reaping, suspects, confirmed, purging, acked>>

(* As Evict, but the entry is dropped whatever sessions it has.            *)
EvictBusy ==
    /\ off.pc = "evict"
    /\ map' = None
    /\ off' = [off EXCEPT !.vm = row.id,
         !.pc = IF off.kind \in {"archive", "freeze"} THEN "boot" ELSE "image"]
    /\ cell' = Held(client, map')
    /\ UNCHANGED <<vm, disk, copies, row, durable, client, cached,
                   reaping, suspects, confirmed, purging, acked, races>>

(* Under the map lock: refuse live sessions (compaction any warm entry),   *)
(* drop the entry.  The image job stops the VM before it goes on.          *)
Evict ==
    /\ off.pc = "evict"
    /\ IF Warm /\ (off.kind = "compact" \/ Active(map) > 0)
       THEN Release /\ UNCHANGED <<vm, map>>
       ELSE /\ map' = None
            /\ off' = [off EXCEPT !.vm = row.id,
                 !.pc = IF off.kind \in {"archive", "freeze"} THEN "boot" ELSE "image"]
            /\ IF off.kind = "image"
               THEN checkpoint_and_stop(IF Warm THEN cell[map].vm ELSE row.id)
               ELSE UNCHANGED vm
    /\ cell' = Held(client, map')
    /\ UNCHANGED <<disk, copies, row, durable, client, cached,
                   reaping, suspects, confirmed, purging, acked, races>>

(* image_archive_fallback: a failed dump archive images the disk instead.  *)
Fallback == IF off.kind = "archive" /\ "image" \in Kinds
            THEN off' = [off EXCEPT !.kind = "image", !.pc = "image"] ELSE Release

(* Bring the VM up to dump it; no spare can stand in for it.               *)
OffBoot ==
    /\ off.pc = "boot"
    /\ \/ \E b \in Resolved(off.vm, FALSE) :
            /\ vm' = [vm EXCEPT ![b[1]] = "running"]
            /\ cached' = b[1]
            /\ cell' = AfterStart(b[1])
            /\ off' = [off EXCEPT !.vm = b[1], !.pc = "dump"]
            /\ Race("reattach", PassedOver(off.vm, b[1]))
       \/ /\ "bringup" \in Faults \/ Resolved(off.vm, FALSE) = {}
          /\ vm' = Stop({off.vm})
          /\ Fallback
          /\ UNCHANGED <<cached, cell, races>>
    /\ UNCHANGED <<disk, copies, row, durable, map, client,
                   reaping, suspects, confirmed, purging, acked>>

DumpFile == IF off.kind = "archive" THEN "dump" ELSE "frozen"

(* Dump to S3 or to the local store.  S3 refuses an empty database.        *)
Dump ==
    /\ off.pc = "dump"
    /\ \/ /\ vm[off.vm] = "running"
          /\ off.kind = "freeze" \/ disk[off.vm] # {}
          /\ copies' = [copies EXCEPT ![DumpFile] = disk[off.vm]]
          /\ Offload("mark")
          /\ UNCHANGED vm
       \/ /\ vm[off.vm] = "running" /\ off.kind = "archive" /\ disk[off.vm] = {}
          /\ vm' = Stop({off.vm})
          /\ Release
          /\ UNCHANGED copies
       \/ /\ vm[off.vm] # "running" \/ "dump" \in Faults
          /\ vm' = Stop({off.vm})
          /\ Fallback
          /\ UNCHANGED copies
    /\ UNCHANGED <<disk, row, durable, map, cell, client, cached,
                   reaping, suspects, confirmed, purging, acked, races>>

(* compact_disk, archive_disk: image a released disk, or give up.          *)
Image ==
    /\ off.pc = "image"
    /\ \/ /\ vm[off.vm] = "stopped"
          /\ off.kind = "compact" \/ disk[off.vm] # {}
          /\ LET f == IF off.kind = "compact" THEN "compacted" ELSE "image"
             IN  copies' = [copies EXCEPT ![f] = disk[off.vm]]
          /\ Offload(IF off.kind = "compact" THEN "mark" ELSE "undump")
       \/ /\ \/ vm[off.vm] # "stopped"
             \/ off.kind = "image" /\ disk[off.vm] = {}
          /\ Release
          /\ UNCHANGED copies
    /\ UNCHANGED <<vm, disk, row, durable, map, cell, client, cached,
                   reaping, suspects, confirmed, purging, acked, races>>

(* Promote a local file to S3; the marker of an empty one refuses it.      *)
Upload ==
    /\ off.pc = "upload"
    /\ LET f == off.kind IN
         IF copies[f] \in {None, {}}
         THEN Release /\ UNCHANGED copies
         ELSE /\ copies' = [copies EXCEPT ![IF f = "frozen" THEN "dump" ELSE "image"] = copies[f]]
              /\ Offload(IF f = "frozen" THEN "mark" ELSE "undump")
    /\ UNCHANGED <<vm, disk, row, durable, map, cell, client, cached,
                   reaping, suspects, confirmed, purging, acked, races>>

(* As DeleteStaleDump, but the dump of an earlier archive stays.           *)
KeepStaleDump ==
    /\ off.pc = "undump"
    /\ Offload("mark")
    /\ UNCHANGED <<vm, disk, copies, row, durable, map, cell, client, cached,
                   reaping, suspects, confirmed, purging, acked, races>>

(* An image archive deletes the dump that would shadow it at restore.      *)
DeleteStaleDump ==
    /\ off.pc = "undump"
    /\ copies' = [copies EXCEPT !["dump"] = None]
    /\ Offload("mark")
    /\ UNCHANGED <<vm, disk, row, durable, map, cell, client, cached,
                   reaping, suspects, confirmed, purging, acked, races>>

(* As TierOf, but the job's kind is written as the tier.                   *)
TierByKind == off.kind

TierOf == IF off.kind = "freeze" THEN "frozen"
          ELSE IF off.kind = "compact" THEN "compacted" ELSE "archived"

(* Store::set_tier waits for the write; one that fails is only logged.     *)
set_tier ==
    /\ off.pc = "mark"
    /\ row' = IF row = None THEN None ELSE [row EXCEPT !.tier = TierOf]
    /\ durable' \in {row'} \cup IF "write" \in Faults THEN {durable} ELSE {}
    /\ Offload(IF off.kind \in {"frozen", "compacted"} THEN "unlink" ELSE "kill")
    /\ UNCHANGED <<vm, disk, copies, map, cell, client, cached,
                   reaping, suspects, confirmed, purging, acked, races>>

(* As KillVM, but the claim outlives the job.                              *)
KillKeepsClaim ==
    /\ off.pc = "kill"
    /\ vm' = Kill(off.vm)
    /\ UNCHANGED <<off, disk, copies, row, durable, map, cell, client, cached,
                   reaping, suspects, confirmed, purging, acked, races>>

(* kill_and_reclaim: a kill that fails orphans the VM.                     *)
KillVM ==
    /\ off.pc = "kill"
    /\ \/ vm' = Kill(off.vm)
       \/ "kill" \in Faults /\ UNCHANGED vm
    /\ Release
    /\ UNCHANGED <<disk, copies, row, durable, map, cell, client, cached,
                   reaping, suspects, confirmed, purging, acked, races>>

Unlink ==
    /\ off.pc = "unlink"
    /\ copies' = [copies EXCEPT ![off.kind] = None]
    /\ Release
    /\ UNCHANGED <<vm, disk, row, durable, map, cell, client, cached,
                   reaping, suspects, confirmed, purging, acked, races>>

OffloadStep == \/ Evict \/ OffBoot \/ Dump \/ Image \/ Upload \/ DeleteStaleDump
               \/ set_tier \/ KillVM \/ Unlink

-----------------------------------------------------------------------------
(* purge_pass: the VM a row of an offloaded tier still names is deleted.   *)
Leftover == {v \in VMs : row # None /\ row.id = v /\ row.tier # "live" /\ Exists(v)}

PurgeRead ==
    /\ purging = None
    /\ purging' \in Leftover
    /\ UNCHANGED <<vm, disk, copies, row, durable, map, cell, client, off, cached,
                   reaping, suspects, confirmed, acked, races>>

(* The database is served from v, or is about to be.                       *)
Serves(v) == \/ row = [id |-> v, tier |-> "live"]
             \/ \E c \in Clients : Unbound(c) /\ client[c].vm = v

(* The kill does not look at the row again.                                *)
PurgeKill ==
    /\ purging # None
    /\ \/ /\ vm' = Kill(purging)
          /\ cached' = IF cached = purging THEN None ELSE cached
          /\ Race("purge", Serves(purging))
       \/ "kill" \in Faults /\ UNCHANGED <<vm, cached, races>>
    /\ purging' = None
    /\ UNCHANGED <<disk, copies, row, durable, map, cell, client, off,
                   reaping, suspects, confirmed, acked>>

-----------------------------------------------------------------------------
(* The detached registry write lands; generations never regress.           *)
Flush ==
    /\ durable # row
    /\ durable' = row
    /\ UNCHANGED <<vm, disk, copies, row, map, cell, client, off, cached,
                   reaping, suspects, confirmed, purging, acked, races>>

(* The pooler restarts: memory is lost, the daemon's VMs live on, and a    *)
(* spare-named VM no row binds is inventory of the pool again.             *)
Crash ==
    /\ "crash" \in Faults
    /\ row' = durable
    /\ vm' = [v \in VMs |-> IF /\ v \in Spares /\ Exists(v)
                               /\ durable = None \/ durable.id # v
                            THEN "spare" ELSE vm[v]]
    /\ map' = None
    /\ cell' = [k \in Cells |-> None]
    /\ client' = [c \in Clients |-> NoClient]
    /\ off' = NoOff
    /\ cached' = None /\ reaping' = None /\ purging' = None
    /\ suspects' = {} /\ confirmed' = {}
    /\ Race("restart", durable # row \/ \E c \in Clients : Unbound(c))
    /\ UNCHANGED <<disk, copies, durable, acked>>

ClientStep(c) ==
    \/ PassOffload(c) \/ Lookup(c) \/ Acquire(c)
    \/ InitCell(c) \/ Boot(c) \/ BringUp(c) \/ BringUpFails(c)
    \/ Bind(c) \/ Admit(c)

Next ==
    \/ \E c \in Clients : Checkout(c) \/ ClientStep(c) \/ Write(c) \/ Disconnect(c)
    \/ ReapIdle \/ ReapStop \/ UntrackedPass \/ \E v \in VMs : UntrackedStop(v)
    \/ \E k \in AllKinds : Claim(k)
    \/ OffloadStep
    \/ PurgeRead \/ PurgeKill
    \/ Flush \/ Crash

Spec == Init /\ [][Next]_vars

(***************************************************************************)
(* Fairness: the tasks of the process are scheduled and the timers of its  *)
(* loops fire; a session may stay open and no client has to connect.  The  *)
(* poll of a waiting checkout is strongly fair: an offload that is refused *)
(* is not tried again for the backoff, which is many polls long.           *)
(***************************************************************************)
FairSpec ==
    /\ Spec
    /\ \A c \in Clients : WF_vars(ClientStep(c)) /\ SF_vars(PassOffload(c))
    /\ WF_vars(OffloadStep)
    /\ WF_vars(ReapIdle) /\ WF_vars(ReapStop)
    /\ WF_vars(UntrackedPass)
    /\ \A v \in VMs : WF_vars(UntrackedStop(v))
    /\ WF_vars(Flush)

-----------------------------------------------------------------------------
(* The state of the pooler, the daemon and the stores has its type.        *)
TypeOK ==
    /\ vm \in [VMs -> {"unborn", "spare", "running", "stopped", "gone"}]
    /\ disk \in [VMs -> Contents]
    /\ copies \in [Files -> Contents \cup {None}]
    /\ row \in Rows /\ durable \in Rows
    /\ map \in Cells \cup {None}
    /\ cell \in [Cells -> [vm : VMs, up : BOOLEAN] \cup {None}]
    /\ client \in [Clients ->
         [pc : {"idle", "start", "checked", "warm", "init", "boot", "ready",
                "bind", "admit", "session"},
          cell : Cells \cup {None}, src : Sources, known : VMs \cup {None},
          vm : VMs \cup {None}, made : BOOLEAN]]
    /\ off \in [pc : {"idle", "evict", "boot", "dump", "image", "upload", "undump",
                      "mark", "kill", "unlink"},
                kind : AllKinds \cup {"frozen", "compacted"}, vm : VMs \cup {None}]
    /\ cached \in VMs \cup {None}
    /\ reaping \in VMs \cup {None} /\ purging \in VMs \cup {None}
    /\ suspects \subseteq VMs /\ confirmed \subseteq VMs
    /\ acked \in 0..MaxWrites
    /\ races \subseteq Races

(* What a checkout that reads row r is served.                             *)
Served(r) ==
    IF r = None THEN {}
    ELSE IF r.tier = "live" THEN IF Exists(r.id) THEN disk[r.id] ELSE {}
    ELSE IF copies[RestoreOf(r)] = None THEN {} ELSE copies[RestoreOf(r)]

(* Every acknowledged write is where the row says, or on the VM that a     *)
(* bring-up is about to record.                                            *)
Kept == \/ 1..acked \subseteq Served(row)
        \/ \E c \in Clients : /\ Unbound(c) /\ Exists(client[c].vm)
                              /\ 1..acked \subseteq disk[client[c].vm]

(* Unless one of the races was lost, no acknowledged write is: a checkout  *)
(* now, or after a restart at any step of an offload, is served it.        *)
AckedKept == races = {} => Kept

(* An offload that overlaps a checkout does no harm by itself: the checkout *)
(* "either grabbed the entry first (active > 0 -> we refuse) or will see   *)
(* the set and wait" (registry.rs:3854).                                   *)
OverlapHarmless == races \subseteq {"overlap"} => Kept

(* Unless a race was lost, a client that a VM is serving sees every        *)
(* acknowledged write of every client: no second VM or older copy answers  *)
(* for the schema meanwhile.                                               *)
SessionSeesAcked ==
    races = {} => \A c \in Clients :
        client[c].pc = "session" /\ Alive(client[c].cell)
            => 1..acked \subseteq disk[cell[client[c].cell].vm]

(* A step that kills the VM of a session is one of the races, or comes     *)
(* after one: an offload refuses a session it can see, and the failure     *)
(* paths only kill what they made.                                         *)
ServingNeverKilled ==
    [][races' = {} => \A c \in Clients :
          client[c].pc = "session" /\ Alive(client[c].cell)
              => vm'[cell[client[c].cell].vm] # "gone"]_vars

(* Every checkout ends, in a session or with an error: it does not wait    *)
(* forever for an offload, another client's bring-up or a dead entry.      *)
CheckoutEnds ==
    \A c \in Clients : client[c].pc = "start" ~> client[c].pc \in {"session", "idle"}

(* Once the clients stay away and the pooler stays up, the VM a live row   *)
(* names is stopped, whatever an earlier restart left running, when it has *)
(* the schema's name: the reapers skip the name of a spare.  (What an      *)
(* offload could not kill is left to the purge.)                           *)
UnusedStops ==
    <>[](\A c \in Clients : client[c].pc = "idle") /\ <>[][~Crash]_vars
        => []<>(row # None /\ row.tier = "live" => vm[row.id] # "running")

=============================================================================
