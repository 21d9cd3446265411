---------------------------- MODULE MemoryManager ----------------------------
(***************************************************************************)
(* The page allocator and the page tables of user tasks                    *)
(* (kernel/MemoryManager.cpp), with the callers that drive them: Scheduler *)
(* MoveToUserMode and CopyProcess, and do_mem_abort, which serves the data *)
(* aborts of user programs.                                                *)
(*                                                                         *)
(* CopyProcess runs inside DisablePreemptingInScope.  The other two do     *)
(* not: a timer tick may hand the CPU to another task between two of their *)
(* steps.  Physical page 0 is the null pointer: the pages that are handed  *)
(* out start after the kernel image.                                       *)
(***************************************************************************)
EXTENDS Integers, Sequences, FiniteSets

CONSTANTS
    Task,              \* the tasks other than the one that runs kmain
    FirstTask,         \* the kernel process, which kmain has created
    PageCount,         \* MaxPageCount
    Entries,           \* entries of a page table (512)
    VA,                \* the pages of user memory that programs touch, by number
    ConcurrentFaults   \* whether programs touch new pages while other tasks exist

\* The pages that an entry of a table of a level stands for.
Span(level) ==
    CASE level = 3 -> 1
      [] level = 2 -> Entries
      [] level = 1 -> Entries * Entries
      [] level = 0 -> Entries * Entries * Entries

\* VA are pages within the 48 bits that the tables index.  do_mem_abort does not look
\* whether a fault was above them (MemoryManager.cpp:287-295); MapPage drops the bits
\* above, so that such a fault would replace the entry of a page within.  That is left out.
ASSUME MemoryManagerAssumption ==
    /\ FirstTask \in Task
    /\ PageCount \in Nat \ {0}
    /\ Entries \in Nat \ {0}
    /\ VA \subseteq 0 .. Entries * Span(0) - 1 /\ 0 \in VA
    /\ ConcurrentFaults \in BOOLEAN

Page == 1 .. PageCount
Null == 0
Frame == Page \union {Null}

\* A word of a page table: Descriptor::Fault, or the frame that it names.
Fault == -1
Word == Frame \union {Fault}

VARIABLES
    PageInUse,    \* the set bits of the bitset, one 64-bit word
    memory,       \* the words of each frame when it is used as a table
    data,         \* what a user page holds: 0 zeroes, 1 the program, 2 something written by it
    home,         \* the page of each TaskStruct
    MemoryState,  \* TaskStruct::MemoryState
    cpu,          \* the running task
    act           \* what each task is doing in the kernel, and its local variables

vars == << PageInUse, memory, data, home, MemoryState, cpu, act >>

-----------------------------------------------------------------------------
\* at: the next thing to do; op: for which operation; dst: the task whose
\* memory is changed; use: what GetFreePage was called for; curPage: the loop
\* indices of GetFreePage and CopyVirtualMemory.
Activation ==
    [at : {"none", "move", "user", "hang", "halt", "test", "load", "store", "clear",
           "got", "map", "walk", "mapped", "copy", "publish"},
     op : {"none", "move", "fault", "fork"},
     use : {"none", "task", "page", "directory", "table"},
     dst : Task, curPage : Nat, va : VA, page : Frame, table : Frame, level : 0 .. 3,
     free : 0 .. PageCount + 1, word : SUBSET Page]

Idle(t, at) ==
    [at |-> at, op |-> "none", use |-> "none", dst |-> t, curPage |-> 1, va |-> 0,
     page |-> Null, table |-> Null, level |-> 0, free |-> Null, word |-> {}]

Cur == act[cpu]

Become(a) == act' = [act EXCEPT ![cpu] = a]

\* Call GetFreePage for a use.
GetFreePage(a, use) == [a EXCEPT !.at = "test", !.use = use, !.free = 1]

Created(t) == act[t].at # "none"

\* DisablePreemptingInScope is alive in CopyProcess; a task in err_hang after an
\* unknown exception has interrupts masked.
\* Mutant: CopyProcess without its guard.
ForgottenGuard == Cur.at = "halt"

Guarded == Cur.op = "fork" \/ Cur.at = "halt"

-----------------------------------------------------------------------------
(***************************************************************************)
(* Page tables.                                                            *)
(***************************************************************************)
\* GetEntryForVA and SetEntryForVA of the view of a level.
Index(va, level) == (va \div Span(level)) % Entries

\* What the MMU finds for an address with the tables of a task.
Step(frame, va, level) == IF frame = Fault THEN Fault ELSE memory[frame][Index(va, level)]

Translate(t, va) ==
    Step(Step(Step(Step(MemoryState[t].PageGlobalDirectory, va, 0), va, 1), va, 2), va, 3)

-----------------------------------------------------------------------------
Init ==
    /\ PageInUse = {1}
    /\ memory = [f \in Frame |-> [i \in 0 .. Entries - 1 |-> Fault]]
    /\ data = [f \in Frame |-> 0]
    /\ home = [t \in Task |-> IF t = FirstTask THEN 1 ELSE Null]
    /\ MemoryState = [t \in Task |->
           [PageGlobalDirectory |-> Null, UserPages |-> << >>, KernelPages |-> << >>]]
    /\ cpu = FirstTask
    /\ act = [t \in Task |-> Idle(t, IF t = FirstTask THEN "move" ELSE "none")]

-----------------------------------------------------------------------------
(***************************************************************************)
(* GetFreePage.  PageInUse[curPage] = true is a load and a store of the    *)
(* word that holds all the bits.                                           *)
(***************************************************************************)
InBitset(p) == p <= PageCount

TestPage ==
    /\ Cur.at = "test"
    /\ Become(IF ~InBitset(Cur.free) THEN [Cur EXCEPT !.at = "got", !.free = Null]
              ELSE IF Cur.free \in PageInUse THEN [Cur EXCEPT !.free = @ + 1]
              ELSE [Cur EXCEPT !.at = "load"])
    /\ UNCHANGED << PageInUse, memory, data, home, MemoryState, cpu >>

LoadWord ==
    /\ Cur.at = "load"
    /\ Become([Cur EXCEPT !.at = "store", !.word = PageInUse])
    /\ UNCHANGED << PageInUse, memory, data, home, MemoryState, cpu >>

\* Mutant: the page is handed out without being marked.
WordUnmarked(word, p) == word

Marked(word, p) == word \union {p}

StoreWord ==
    /\ Cur.at = "store"
    /\ PageInUse' = Marked(Cur.word, Cur.free)
    /\ Become([Cur EXCEPT !.at = "clear", !.word = {}])
    /\ UNCHANGED << memory, data, home, MemoryState, cpu >>

ClearPage ==
    /\ Cur.at = "clear"
    /\ memory' = [memory EXCEPT ![Cur.free] = [i \in 0 .. Entries - 1 |-> Fault]]
    /\ data' = [data EXCEPT ![Cur.free] = 0]
    /\ Become([Cur EXCEPT !.at = "got"])
    /\ UNCHANGED << PageInUse, home, MemoryState, cpu >>

-----------------------------------------------------------------------------
(***************************************************************************)
(* MapPage, once the page to map is known.                                 *)
(***************************************************************************)
\* Mutant: a new table is not recorded.
Unrecorded(s, f) == s

Recorded(s, f) == Append(s, f)

MapDirectory ==
    /\ Cur.at = "map"
    /\ LET pgd == MemoryState[Cur.dst].PageGlobalDirectory
       IN  Become(IF pgd = Null THEN GetFreePage(Cur, "directory")
                  ELSE [Cur EXCEPT !.at = "walk", !.level = 0, !.table = pgd])
    /\ UNCHANGED << PageInUse, memory, data, home, MemoryState, cpu >>

\* The result of GetFreePage is not looked at.
NewDirectory ==
    /\ Cur.at = "got" /\ Cur.use = "directory"
    /\ MemoryState' = [MemoryState EXCEPT
           ![Cur.dst].PageGlobalDirectory = Cur.free,
           ![Cur.dst].KernelPages = Append(@, Cur.free)]
    /\ Become([Cur EXCEPT !.at = "walk", !.level = 0, !.table = Cur.free])
    /\ UNCHANGED << PageInUse, memory, data, home, cpu >>

MapTable ==
    /\ Cur.at = "walk" /\ Cur.level < 3
    /\ LET entry == memory[Cur.table][Index(Cur.va, Cur.level)]
       IN  Become(IF entry = Fault THEN GetFreePage(Cur, "table")
                  ELSE [Cur EXCEPT !.level = @ + 1, !.table = entry])
    /\ UNCHANGED << PageInUse, memory, data, home, MemoryState, cpu >>

\* Nor here: a descriptor of the table at physical address 0 is written.
NewTable ==
    /\ Cur.at = "got" /\ Cur.use = "table"
    /\ memory' = [memory EXCEPT ![Cur.table][Index(Cur.va, Cur.level)] = Cur.free]
    /\ MemoryState' = [MemoryState EXCEPT ![Cur.dst].KernelPages = Recorded(@, Cur.free)]
    /\ Become([Cur EXCEPT !.at = "walk", !.level = @ + 1, !.table = Cur.free])
    /\ UNCHANGED << PageInUse, data, home, cpu >>

MapTableEntry ==
    /\ Cur.at = "walk" /\ Cur.level = 3
    /\ memory' = [memory EXCEPT ![Cur.table][Index(Cur.va, 3)] = Cur.page]
    /\ MemoryState' = [MemoryState EXCEPT
           ![Cur.dst].UserPages = Append(@, [PhysicalAddress |-> Cur.page, VirtualAddress |-> Cur.va])]
    /\ Become([Cur EXCEPT !.at = "mapped"])
    /\ UNCHANGED << PageInUse, data, home, cpu >>

-----------------------------------------------------------------------------
(***************************************************************************)
(* MoveToUserMode and do_mem_abort.                                        *)
(***************************************************************************)
MoveToUserMode ==
    /\ Cur.at = "move"
    /\ Become(GetFreePage([Cur EXCEPT !.op = "move", !.va = 0], "page"))
    /\ UNCHANGED << PageInUse, memory, data, home, MemoryState, cpu >>

Alone == \A t \in Task \ {cpu} : ~Created(t)

do_mem_abort ==
    /\ Cur.at = "user"
    /\ ConcurrentFaults \/ Alone
    /\ \E va \in VA :
         /\ Translate(cpu, va) = Fault
         /\ Become(GetFreePage([Cur EXCEPT !.op = "fault", !.va = va], "page"))
    /\ UNCHANGED << PageInUse, memory, data, home, MemoryState, cpu >>

\* Any data abort but a translation fault, such as a write to a read-only address,
\* is an error: the task ends in err_hang, with interrupts enabled.  (Any other exception
\* halts the machine, and nothing here changes any more: Scheduler!UnknownException.)
OtherDataAbort ==
    /\ Cur.at = "user"
    /\ Become(Idle(cpu, "hang"))
    /\ UNCHANGED << PageInUse, memory, data, home, MemoryState, cpu >>

NewUserPage ==
    /\ Cur.at = "got" /\ Cur.use = "page" /\ Cur.free # Null
    /\ Become([Cur EXCEPT !.at = "map", !.page = Cur.free])
    /\ UNCHANGED << PageInUse, memory, data, home, MemoryState, cpu >>

\* No page: the data abort ends in err_hang; a process that has no code page
\* goes to user mode all the same, and its instruction abort stops the machine;
\* CopyVirtualMemory gives up, and CopyProcess goes on.
NoUserPage ==
    /\ Cur.at = "got" /\ Cur.use = "page" /\ Cur.free = Null
    /\ Become(CASE Cur.op = "fault" -> Idle(cpu, "hang")
                [] Cur.op = "move"  -> Idle(cpu, "halt")
                [] Cur.op = "fork"  -> [Cur EXCEPT !.at = "publish"])
    /\ UNCHANGED << PageInUse, memory, data, home, MemoryState, cpu >>

\* MoveToUserMode copies the program into the page; a faulting instruction is
\* executed again.
PageMapped ==
    /\ Cur.at = "mapped" /\ Cur.op \in {"move", "fault"}
    /\ data' = IF Cur.op = "move" THEN [data EXCEPT ![Cur.page] = 1] ELSE data
    /\ Become(Idle(cpu, "user"))
    /\ UNCHANGED << PageInUse, memory, home, MemoryState, cpu >>

-----------------------------------------------------------------------------
(***************************************************************************)
(* CopyProcess for a user process, with CopyVirtualMemory.                 *)
(***************************************************************************)
CopyProcess ==
    /\ Cur.at = "user"
    /\ \E t \in Task :
         /\ ~Created(t)
         /\ Become(GetFreePage([Cur EXCEPT !.op = "fork", !.dst = t, !.curPage = 1], "task"))
    /\ UNCHANGED << PageInUse, memory, data, home, MemoryState, cpu >>

NewTaskStruct ==
    /\ Cur.at = "got" /\ Cur.use = "task"
    /\ IF Cur.free = Null
       THEN Become(Idle(cpu, "user")) /\ UNCHANGED home
       ELSE Become([Cur EXCEPT !.at = "copy"]) /\ home' = [home EXCEPT ![Cur.dst] = Cur.free]
    /\ UNCHANGED << PageInUse, memory, data, MemoryState, cpu >>

CopyNextPage ==
    /\ Cur.at = "copy"
    /\ LET pages == MemoryState[cpu].UserPages
       IN  Become(IF Cur.curPage <= Len(pages)
                  THEN GetFreePage([Cur EXCEPT !.va = pages[Cur.curPage].VirtualAddress], "page")
                  ELSE [Cur EXCEPT !.at = "publish"])
    /\ UNCHANGED << PageInUse, memory, data, home, MemoryState, cpu >>

\* Mutant: the copy is taken from the address in the new task.
CopiedFromChild == data[Cur.page]

\* memcpy reads the user's address, that is through the running task's tables.
Copied == data[Translate(cpu, Cur.va)]

CopyPage ==
    /\ Cur.at = "mapped" /\ Cur.op = "fork"
    /\ data' = [data EXCEPT ![Cur.page] = Copied]
    /\ Become([Cur EXCEPT !.at = "copy", !.curPage = @ + 1, !.page = Null])
    /\ UNCHANGED << PageInUse, memory, home, MemoryState, cpu >>

PublishTask ==
    /\ Cur.at = "publish"
    /\ act' = [act EXCEPT ![cpu] = Idle(cpu, "user"), ![Cur.dst] = Idle(Cur.dst, "user")]
    /\ UNCHANGED << PageInUse, memory, data, home, MemoryState, cpu >>

-----------------------------------------------------------------------------
\* A user program writes to its memory.
WriteMemory ==
    /\ Cur.at = "user"
    /\ \E va \in VA :
         /\ Translate(cpu, va) # Fault
         /\ data' = [data EXCEPT ![Translate(cpu, va)] = 2]
    /\ UNCHANGED << PageInUse, memory, home, MemoryState, cpu, act >>

\* A timer tick that switches tasks; the page tables follow (see Scheduler).
Preempt ==
    /\ ~Guarded
    /\ \E t \in Task \ {cpu} : Created(t) /\ cpu' = t
    /\ UNCHANGED << PageInUse, memory, data, home, MemoryState, act >>

Next ==
    \/ TestPage \/ LoadWord \/ StoreWord \/ ClearPage
    \/ MapDirectory \/ NewDirectory \/ MapTable \/ NewTable \/ MapTableEntry
    \/ MoveToUserMode \/ do_mem_abort \/ OtherDataAbort
    \/ NewUserPage \/ NoUserPage \/ PageMapped
    \/ CopyProcess \/ NewTaskStruct \/ CopyNextPage \/ CopyPage \/ PublishTask
    \/ WriteMemory \/ Preempt

Spec == Init /\ [][Next]_vars

-----------------------------------------------------------------------------
(***************************************************************************)
(* Properties.                                                             *)
(***************************************************************************)
Elements(s) == {s[i] : i \in DOMAIN s}

\* The pages that the operation of a task has been given and not yet put anywhere.
Held(t) ==
    LET a == act[t]
    IN  (IF a.at \in {"clear", "got"} /\ a.free # Null THEN {a.free} ELSE {})
        \union (IF a.at # "mapped" THEN {a.page} \ {Null} ELSE {})

UserPagesOf(t) == {u.PhysicalAddress : u \in Elements(MemoryState[t].UserPages)}

KernelPagesOf(t) == Elements(MemoryState[t].KernelPages)

\* The tables and pages that the MMU can reach from the directory of a task.
Children(frames) == {memory[f][i] : f \in frames, i \in 0 .. Entries - 1} \ {Fault}

Reachable(t) ==
    LET pgd == {MemoryState[t].PageGlobalDirectory} \ {Null}
    IN  UNION {pgd, Children(pgd), Children(Children(pgd)), Children(Children(Children(pgd))),
               Children(Children(Children(Children(pgd))))}

\* No table has had to be placed at physical address 0.
TablesAvailable == \A t \in Task : Null \notin KernelPagesOf(t)

\* No operation is changing the memory of a task.
AtRest(t) == \A u \in Task : act[u].op # "none" => act[u].dst # t

\* Every variable has its type.
TypeOK ==
    /\ PageInUse \subseteq Page
    /\ memory \in [Frame -> [0 .. Entries - 1 -> Word]]
    /\ data \in [Frame -> 0 .. 2]
    /\ home \in [Task -> Frame]
    /\ \A t \in Task :
         /\ MemoryState[t].PageGlobalDirectory \in Frame
         /\ MemoryState[t].UserPages \in Seq([PhysicalAddress : Page, VirtualAddress : VA])
         /\ MemoryState[t].KernelPages \in Seq(Frame)
    /\ cpu \in Task
    /\ act \in [Task -> Activation]

\* Every page has one use: it holds one TaskStruct, or is a table of one task,
\* or is mapped once in the memory of one task, or is on its way to that.
PagesHaveOneUse ==
    TablesAvailable =>
        /\ \A t \in Task :
             /\ Cardinality(UserPagesOf(t)) = Len(MemoryState[t].UserPages)
             /\ Cardinality(KernelPagesOf(t)) = Len(MemoryState[t].KernelPages)
             /\ UserPagesOf(t) \intersect KernelPagesOf(t) = {}
             /\ home[t] \notin UserPagesOf(t) \union KernelPagesOf(t) \union Held(t)
             /\ \A u \in Task : Held(t) \intersect (UserPagesOf(u) \union KernelPagesOf(u)) = {}
        /\ \A t, u \in Task : t # u =>
             ({home[t]} \union UserPagesOf(t) \union KernelPagesOf(t) \union Held(t))
               \intersect ({home[u]} \union UserPagesOf(u) \union KernelPagesOf(u) \union Held(u))
             \subseteq {Null}

\* The allocator's bitset is exact: a bit is set for the pages that some task
\* uses, and for no other; no page is lost on an error path.
BitsetExact ==
    TablesAvailable =>
        PageInUse =
            (UNION {{home[t]} \union UserPagesOf(t) \union KernelPagesOf(t) \union Held(t) : t \in Task})
              \ {Null}

\* The page tables and the books of MemoryState agree: the MMU translates the
\* addresses that UserPages lists, each to the page it lists, and no other; and
\* the tables it walks are the ones that KernelPages lists.
TablesMatchBooks ==
    TablesAvailable => \A t \in Task : AtRest(t) =>
        /\ \A va \in VA :
             LET listed == {u \in Elements(MemoryState[t].UserPages) : u.VirtualAddress = va}
             IN  IF listed = {} THEN Translate(t, va) = Fault
                 ELSE \A u \in listed : Translate(t, va) = u.PhysicalAddress
        /\ Reachable(t) = KernelPagesOf(t) \union UserPagesOf(t)

\* When CopyProcess publishes a child that got all the pages it needs, the child
\* sees at every address what its parent sees, on pages of its own.
ForkCopiesMemory ==
    TablesAvailable /\ Cur.at = "publish" /\ Cur.curPage > Len(MemoryState[cpu].UserPages) =>
        \A va \in VA : Translate(cpu, va) # Fault =>
            /\ Translate(Cur.dst, va) # Fault
            /\ Translate(Cur.dst, va) # Translate(cpu, va)
            /\ data[Translate(Cur.dst, va)] = data[Translate(cpu, va)]

\* The memory of a task is changed by that task, or by the CopyProcess that
\* creates it: what a program has in its pages never changes behind its back.
MemoryIsPrivate ==
    [][\A t \in Task : TablesAvailable /\ t # cpu /\ Created(t) =>
         \A va \in VA : Translate(t, va) # Fault =>
             /\ Translate(t, va)' = Translate(t, va)
             /\ (data[Translate(t, va)])' = data[Translate(t, va)]]_vars

(***************************************************************************)
(* What comments in the code say, and the code does not do.                *)
(***************************************************************************)
\* "find the first unused page and return it" (MemoryManager.cpp:61): when
\* GetFreePage has chosen a page no task uses it.
ChosenPageIsUnused ==
    Cur.at = "got" /\ Cur.free # Null =>
        \A t \in Task \ {cpu} :
            Cur.free \notin {home[t]} \union UserPagesOf(t) \union KernelPagesOf(t) \union Held(t)

\* "The table for the specified address - new or existing" (MemoryManager.cpp:99):
\* what MapTable returns is a page of the allocator, never physical address 0,
\* which the kernel did not allocate.
MapTableReturnsTable == Cur.at = "walk" => Cur.table # Null
=============================================================================
