--------------------------- MODULE ProcessSyscalls ---------------------------
(***************************************************************************)
(* The process syscalls of src/os/src/syscall/process.rs, on the state of *)
(* the task control blocks they read and change: each task's status, its  *)
(* parent and children list, exit code, priority, and the mmap areas of   *)
(* its memory set.  Each syscall runs on the current task without         *)
(* preemption, so it is one step; any live task may be the current one.  *)
(*                                                                         *)
(* Several callees are not in the repository; they are modelled from the  *)
(* rCore task and memory code the syscalls are written against:           *)
(*  - fork copies the memory set (mmap areas included) and pushes the      *)
(*    child on the parent's children; spawn and exec start from a fresh    *)
(*    memory set with no mmap areas; a new task takes the least free pid;  *)
(*  - exit_current_and_run_next makes the task a zombie with its exit      *)
(*    code, hands its children to initproc (pid 0), frees its user pages   *)
(*    and drops every other Arc of it, so a zombie is held only by its     *)
(*    parent's children list;                                              *)
(*  - VirtAddr::from keeps the low VA_WIDTH bits; check_maparea tells      *)
(*    whether a page of [floor(start), ceil(end)) is mapped, add_maparea    *)
(*    maps those pages, remove_maparea unmaps them if all are mapped and   *)
(*    returns -1 otherwise;                                                *)
(*  - usize arithmetic wraps (release build).                              *)
(***************************************************************************)
EXTENDS Integers, Sequences, SequencesExt, FiniteSetsExt

CONSTANTS Pids,        \* task slots; 0 is initproc
          ExitCodes,
          Prios,       \* priorities user code passes to set_priority
          PAGE_SIZE,
          VA_WIDTH,    \* bits VirtAddr keeps
          USIZE_BITS,  \* width of usize
          Ports,       \* port arguments user code passes to mmap
          Starts,      \* start addresses user code passes to mmap/munmap
          Lens         \* lengths user code passes to mmap/munmap

ASSUME Starts \cup Lens \subseteq 0..(2^USIZE_BITS - 1)   \* usize arguments

INITPROC == 0
NoPerm   == 0
VPNs     == 0..(2^VA_WIDTH \div PAGE_SIZE - 1)
U        == 16                             \* MapPermission::U (1 << 4)

VARIABLES status,    \* status[p]: "unused", "alive" or "zombie"
          parent,
          children,  \* children[p]: the Vec of child pids, in order
          code,      \* exit code of a zombie
          prio,      \* pro_lev
          mapped     \* mapped[p][v]: MapPermission bits of page v, or NoPerm

vars == <<status, parent, children, code, prio, mapped>>

Live == {p \in Pids : status[p] = "alive"}
NoMaps == [v \in VPNs |-> NoPerm]

\* VirtAddr::from: the address modulo the VA space (usize wrap included).
VA(x) == x % 2^VA_WIDTH
Floor(a) == a \div PAGE_SIZE
Ceil(a) == (a + PAGE_SIZE - 1) \div PAGE_SIZE
\* The pages of an area [s, e), empty when e lies below s.
AreaPages(s, e) == {v \in VPNs : Floor(s) <= v /\ v < Ceil(e)}

\* Mutant: the port bits used as MapPermission bits without the shift.
MapPermOfUnshifted(port) == U + port

\* The MapPermission sys_mmap builds from port: U, then R, W, X for bits
\* 0, 1, 2.
MapPermOf(port) ==
    U + (IF port % 2 = 1 THEN 2 ELSE 0) + (IF (port \div 2) % 2 = 1 THEN 4 ELSE 0)
      + (IF (port \div 4) % 2 = 1 THEN 8 ELSE 0)

Init == /\ status = [p \in Pids |-> IF p = INITPROC THEN "alive" ELSE "unused"]
        /\ parent = [p \in Pids |-> INITPROC]
        /\ children = [p \in Pids |-> <<>>]
        /\ code = [p \in Pids |-> 0]
        /\ prio = [p \in Pids |-> 16]
        /\ mapped = [p \in Pids |-> NoMaps]

\* A new task in the least free slot, child of p with memory m.
NewChild(p, m) ==
    LET c == Min({q \in Pids : status[q] = "unused"}) IN
    /\ status' = [status EXCEPT ![c] = "alive"]
    /\ parent' = [parent EXCEPT ![c] = p]
    /\ children' = [children EXCEPT ![p] = Append(@, c), ![c] = <<>>]
    /\ prio' = [prio EXCEPT ![c] = 16]
    /\ mapped' = [mapped EXCEPT ![c] = m]

Full == \A q \in Pids : status[q] # "unused"

\* sys_fork: the child gets a copy of the parent's memory set.
Fork(p) == /\ p \in Live /\ ~Full
           /\ NewChild(p, mapped[p])
           /\ UNCHANGED code

\* sys_spawn when open_file finds the image: a child runs it.  (When it
\* does not, -1 is returned and nothing changes.)
Spawn(p) == /\ p \in Live /\ ~Full
            /\ NewChild(p, NoMaps)
            /\ UNCHANGED code

\* sys_exec when open_file finds the image: the memory set is replaced.
Exec(p) ==
    /\ p \in Live
    /\ mapped' = [mapped EXCEPT ![p] = NoMaps]
    /\ UNCHANGED <<status, parent, children, code, prio>>

\* sys_exit through exit_current_and_run_next.
Exit(p, c) ==
    /\ p \in Live /\ p # INITPROC
    /\ status' = [status EXCEPT ![p] = "zombie"]
    /\ code' = [code EXCEPT ![p] = c]
    /\ parent' = [q \in Pids |-> IF q \in ToSet(children[p]) THEN INITPROC ELSE parent[q]]
    /\ children' = [children EXCEPT ![INITPROC] = @ \o children[p], ![p] = <<>>]
    /\ mapped' = [mapped EXCEPT ![p] = NoMaps]
    /\ UNCHANGED <<prio>>

Matches(pid, c) == pid = -1 \/ pid = c

\* Mutant: the child removed is the first that matches pid, zombie or not.
WaitpidIdxAnyMatch(p, pid) ==
    SelectInSeq(children[p], LAMBDA c : Matches(pid, c))

\* The index sys_waitpid's find returns: the first zombie child matching.
WaitpidIdx(p, pid) ==
    SelectInSeq(children[p], LAMBDA c : status[c] = "zombie" /\ Matches(pid, c))

\* sys_waitpid: -1 when no child matches, -2 when none of those is a
\* zombie; otherwise the child is removed and, its last Arc gone, its slot
\* is free again.
Waitpid(p, pid) ==
    /\ p \in Live
    /\ \E i \in 1..Len(children[p]) : Matches(pid, children[p][i])
    /\ \E i \in 1..Len(children[p]) : status[children[p][i]] = "zombie" /\ Matches(pid, children[p][i])
    /\ LET idx == WaitpidIdx(p, pid)
           c   == children[p][idx]
       IN /\ children' = [children EXCEPT ![p] = RemoveAt(@, idx)]
          /\ status' = [status EXCEPT ![c] = IF @ = "zombie" THEN "unused" ELSE @]
    /\ UNCHANGED <<parent, code, prio, mapped>>

\* sys_set_priority: below 2 is refused.
SetPriority(p, n) == /\ p \in Live /\ n >= 2
                     /\ prio' = [prio EXCEPT ![p] = n]
                     /\ UNCHANGED <<status, parent, children, code, mapped>>

\* What sys_mmap returns, in the order of its checks.
MmapResult(p, start, len, port) ==
    LET s == VA(start)
        e == VA(start + len)
    IN IF len = 0 THEN 0
       ELSE IF port \div 8 # 0 \/ port % 8 = 0 THEN -1
       ELSE IF s % PAGE_SIZE # 0 THEN -1
       ELSE IF \E v \in AreaPages(s, e) : mapped[p][v] # NoPerm THEN -1
       ELSE 0

\* sys_mmap on the current task p.
Mmap(p, start, len, port) ==
    LET r == MmapResult(p, start, len, port)
        s == VA(start)
        e == VA(start + len)
    IN /\ p \in Live
       /\ mapped' = IF r = 0 /\ len # 0
                      THEN [mapped EXCEPT ![p] = [v \in VPNs |->
                               IF v \in AreaPages(s, e) THEN MapPermOf(port) ELSE @[v]]]
                      ELSE mapped
       /\ UNCHANGED <<status, parent, children, code, prio>>

\* sys_munmap on the current task p.
Munmap(p, start, len) ==
    LET s == VA(start)
        e == VA(start + len)
        pages == AreaPages(s, e)
    IN /\ p \in Live
       /\ s % PAGE_SIZE = 0
       /\ \A v \in pages : mapped[p][v] # NoPerm
       /\ mapped' = [mapped EXCEPT ![p] = [v \in VPNs |-> IF v \in pages THEN NoPerm ELSE @[v]]]
       /\ UNCHANGED <<status, parent, children, code, prio>>

Next ==
    \E p \in Pids :
       \/ Fork(p)
       \/ Spawn(p) \/ Exec(p)
       \/ \E c \in ExitCodes : Exit(p, c)
       \/ \E pid \in {-1} \cup Pids : Waitpid(p, pid)
       \/ \E n \in Prios : SetPriority(p, n)
       \/ \E start \in Starts, len \in Lens : \/ \E port \in Ports : Mmap(p, start, len, port)
                                    \/ Munmap(p, start, len)

Spec == Init /\ [][Next]_vars
-----------------------------------------------------------------------------
TypeOK ==
    /\ status \in [Pids -> {"unused", "alive", "zombie"}]
    /\ parent \in [Pids -> Pids] /\ children \in [Pids -> Seq(Pids)]
    /\ code \in [Pids -> ExitCodes \cup {0}] /\ prio \in [Pids -> Prios \cup {16}]
    /\ mapped \in [Pids -> [VPNs -> {NoPerm} \cup {U + 2 * x : x \in 1..7}]]

(* The process tree stays whole through fork, spawn, exit's hand-over to  *)
(* initproc and waitpid's removal: every task but initproc is in exactly  *)
(* one children list, its parent's, and that parent is alive; a freed     *)
(* slot is in none.  A child dropped from the list while it runs could    *)
(* never be reaped; a freed slot still listed would be reaped twice.      *)
TreeConsistent ==
    \A c \in Pids \ {INITPROC} :
        LET n == Cardinality({<<p, i>> \in Pids \X (1..Cardinality(Pids)) :
                                i <= Len(children[p]) /\ children[p][i] = c})
        IN IF status[c] = "unused" THEN n = 0
           ELSE n = 1 /\ c \in ToSet(children[parent[c]]) /\ status[parent[c]] = "alive"

(* A sys_mmap(start, len, port) that returns 0 has mapped every page of   *)
(* [start, start + len) with the permissions port asks for (the contract  *)
(* of the mmap exercise: map the range, or fail with -1).                  *)
MmapMapsRequestedRange ==
    [][\A p \in Pids, start \in Starts, len \in Lens, port \in Ports :
         Mmap(p, start, len, port) /\ MmapResult(p, start, len, port) = 0 =>
           \A a \in start..(start + len - 1) :
              a < 2^VA_WIDTH /\ mapped'[p][Floor(a)] = MapPermOf(port)]_vars
=============================================================================
