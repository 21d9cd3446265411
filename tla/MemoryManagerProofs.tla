------------------------- MODULE MemoryManagerProofs -------------------------
(***************************************************************************)
(* Theorems about MemoryManager, for any number of tasks and pages, tables *)
(* of any size and any addresses, when programs touch new pages only while *)
(* they are alone: the bitset, the page tables and the books agree at      *)
(* every step, and a copied memory is the same and separate.               *)
(***************************************************************************)
EXTENDS MemoryManager, FiniteSetTheorems, SequenceTheorems, TLAPS

Dir(t) == MemoryState[t].PageGlobalDirectory

Entry == 0 .. Entries - 1

UserPage == [PhysicalAddress : Page, VirtualAddress : VA]

(***************************************************************************)
(* Page tables as a value m of memory, from a directory d: the frames of   *)
(* each level, and the frame where the walk for an address is.             *)
(***************************************************************************)
ChildrenIn(m, frames) == {m[f][i] : f \in frames, i \in Entry} \ {Fault}

T0(m, d) == {d} \ {Null}
T1(m, d) == ChildrenIn(m, T0(m, d))
T2(m, d) == ChildrenIn(m, T1(m, d))
T3(m, d) == ChildrenIn(m, T2(m, d))
T4(m, d) == ChildrenIn(m, T3(m, d))

Tables(m, d) == T0(m, d) \union T1(m, d) \union T2(m, d) \union T3(m, d)

StepIn(m, f, va, k) == IF f = Fault THEN Fault ELSE m[f][Index(va, k)]

P1(m, d, va) == StepIn(m, d, va, 0)
P2(m, d, va) == StepIn(m, P1(m, d, va), va, 1)
P3(m, d, va) == StepIn(m, P2(m, d, va), va, 2)
P4(m, d, va) == StepIn(m, P3(m, d, va), va, 3)

TreeAt(m, d, k) ==
    CASE k = 0 -> T0(m, d) [] k = 1 -> T1(m, d) [] k = 2 -> T2(m, d) [] k = 3 -> T3(m, d)

PathAt(m, d, va, k) ==
    CASE k = 0 -> d [] k = 1 -> P1(m, d, va) [] k = 2 -> P2(m, d, va) [] k = 3 -> P3(m, d, va)

Blank(m, f) == \A i \in Entry : m[f][i] = Fault

\* No two entries name the same frame.
OneParent(m) ==
    \A f, g \in Frame : \A i, j \in Entry : m[f][i] = m[g][j] /\ m[f][i] # Fault => f = g /\ i = j

NoParent(m, d) == \A f \in Frame : \A i \in Entry : m[f][i] # Fault => m[f][i] # d

-----------------------------------------------------------------------------
(***************************************************************************)
(* The inductive invariant.                                                *)
(***************************************************************************)
\* Types, without those of data, which hold only while tables are available.
Types ==
    /\ PageInUse \subseteq Page
    /\ memory \in [Frame -> [Entry -> Word]]
    /\ home \in [Task -> Frame]
    /\ MemoryState \in [Task -> [PageGlobalDirectory : Frame, UserPages : Seq(UserPage),
                                 KernelPages : Seq(Frame)]]
    /\ cpu \in Task
    /\ act \in [Task -> Activation]

Allocating(a) == a.at \in {"test", "load", "store", "clear", "got"}

\* An operation in progress: for whom;
InScope(a) ==
    /\ a.op \in {"move", "fault"} => a.dst = cpu /\ Alone
    /\ a.op = "fork" => a.dst # cpu /\ ~Created(a.dst)

\* ... at which step, and holding what.
WellFormed(a) ==
    /\ \/ Allocating(a) /\ a.use \in {"page", "directory", "table"}
       \/ Allocating(a) /\ a.use = "task" /\ a.op = "fork"
       \/ a.at \in {"map", "walk", "mapped"}
       \/ a.at \in {"copy", "publish"} /\ a.op = "fork"
    /\ (a.page # Null) <=>
         \/ a.at \in {"map", "walk", "mapped"}
         \/ Allocating(a) /\ a.use \in {"directory", "table"}
    /\ a.curPage # 0
    /\ a.at = "test" => a.free # Null
    /\ a.at \in {"load", "store", "clear"} => a.free \in Page
    /\ a.at = "got" => a.free \in Frame
    /\ Allocating(a) /\ a.use = "table" => a.level < 3

\* Only the running task is in the middle of an operation.
Control ==
    /\ \A t \in Task \ {cpu} : act[t] \in {Idle(t, "none"), Idle(t, "user"), Idle(t, "hang")}
    /\ \/ Cur \in {Idle(cpu, "user"), Idle(cpu, "hang")}
       \/ Cur \in {Idle(cpu, "move"), Idle(cpu, "halt")} /\ Alone
       \/ Cur.op \in {"move", "fault", "fork"} /\ InScope(Cur) /\ WellFormed(Cur)

\* CopyProcess has a TaskStruct for the child.
Making == Cur.op = "fork" /\ ~(Allocating(Cur) /\ Cur.use = "task")

\* A task that is not made yet has no pages, the first one none of its memory.
Untouched ==
    /\ \A t \in Task : ~Created(t) /\ ~(Making /\ Cur.dst = t) =>
         /\ home[t] = Null /\ Dir(t) = Null
         /\ MemoryState[t].UserPages = << >> /\ MemoryState[t].KernelPages = << >>
    /\ Cur.at = "move" =>
         /\ Dir(cpu) = Null
         /\ MemoryState[cpu].UserPages = << >> /\ MemoryState[cpu].KernelPages = << >>

\* The uses that a page of a task can have.
Uses == {"home", "user", "kernel", "held"}

Used(t, use) ==
    CASE use = "home"   -> {home[t]} \ {Null}
      [] use = "user"   -> UserPagesOf(t)
      [] use = "kernel" -> KernelPagesOf(t)
      [] use = "held"   -> Held(t)

OneUse ==
    \A t, u \in Task : \A j, k \in Uses : \A p \in Page :
        p \in Used(t, j) /\ p \in Used(u, k) => t = u /\ j = k

Exact == \A p \in Page : p \in PageInUse <=> \E t \in Task : \E k \in Uses : p \in Used(t, k)

\* The lists of a task name a page once.
ListedOnce(t) ==
    LET users == MemoryState[t].UserPages
        tables == MemoryState[t].KernelPages
    IN  /\ \A i, j \in DOMAIN users : users[i].PhysicalAddress = users[j].PhysicalAddress => i = j
        /\ \A i, j \in DOMAIN tables : tables[i] = tables[j] => i = j

\* Every page that is used has one use, and the bitset has the pages in use.
Books == OneUse /\ Exact /\ \A t \in Task : ListedOnce(t)

\* The page that GetFreePage has chosen is not in use before it is marked.
Choosing ==
    /\ Cur.at \in {"load", "store"} => Cur.free \notin PageInUse
    /\ Cur.at = "store" => Cur.word = PageInUse
    /\ Cur.at \in {"clear", "got"} => Cur.free = Null \/ Cur.free # Cur.page

\* Frames that are not tables hold no entries, and the tables are trees.
Trees ==
    /\ \A f \in Frame : (\A t \in Task : f \notin KernelPagesOf(t)) => Blank(memory, f)
    /\ OneParent(memory)
    /\ \A t \in Task :
         /\ NoParent(memory, Dir(t))
         /\ KernelPagesOf(t) = Tables(memory, Dir(t))
         /\ UserPagesOf(t) = T4(memory, Dir(t))

\* The MMU finds what UserPages lists.
Mapped ==
    \A t \in Task :
        /\ \A i \in DOMAIN MemoryState[t].UserPages :
             P4(memory, Dir(t), MemoryState[t].UserPages[i].VirtualAddress) =
               MemoryState[t].UserPages[i].PhysicalAddress
        /\ \A va \in VA : P4(memory, Dir(t), va) # Fault =>
             \E i \in DOMAIN MemoryState[t].UserPages :
                 MemoryState[t].UserPages[i].VirtualAddress = va

Mapping ==
    /\ Cur.op # "none"
    /\ \/ Cur.at \in {"map", "walk"}
       \/ Allocating(Cur) /\ Cur.use \in {"page", "directory", "table"}

InTable == Cur.at = "walk" \/ (Allocating(Cur) /\ Cur.use = "table")

\* The walk of MapPage follows the one of the MMU.
Walking ==
    /\ Mapping => P4(memory, Dir(Cur.dst), Cur.va) = Fault
    /\ InTable =>
         /\ Cur.table = PathAt(memory, Dir(Cur.dst), Cur.va, Cur.level)
         /\ Cur.table \in TreeAt(memory, Dir(Cur.dst), Cur.level)
    /\ Allocating(Cur) /\ Cur.use = "table" => memory[Cur.table][Index(Cur.va, Cur.level)] = Fault
    /\ Allocating(Cur) /\ Cur.use = "directory" => Dir(Cur.dst) = Null

\* The loop of CopyVirtualMemory has made the first pages of the child.
Copying ==
    /\ Cur.op = "fork" /\ ~Making => Cur.curPage = 1
    /\ Making =>
        LET parent == MemoryState[cpu].UserPages
            child == MemoryState[Cur.dst].UserPages
        IN  /\ Len(child) = (IF Cur.at = "mapped" THEN Cur.curPage ELSE Cur.curPage - 1)
            /\ Len(child) <= Len(parent)
            /\ Cur.at \notin {"copy", "publish"} =>
                 /\ Cur.curPage \in 1 .. Len(parent)
                 /\ Cur.va = parent[Cur.curPage].VirtualAddress
            /\ Cur.at = "mapped" => child[Cur.curPage].PhysicalAddress = Cur.page
            /\ \A i \in 1 .. Len(child) : child[i].VirtualAddress = parent[i].VirtualAddress
            /\ \A i \in 1 .. Cur.curPage - 1 :
                 data[child[i].PhysicalAddress] = data[parent[i].PhysicalAddress]

Good ==
    /\ data \in [Frame -> 0 .. 2]
    /\ Books /\ Choosing /\ Untouched /\ Trees /\ Mapped /\ Walking /\ Copying

IInv == Types /\ Control /\ (TablesAvailable => Good)

-----------------------------------------------------------------------------
(***************************************************************************)
(* Types and control.                                                      *)
(***************************************************************************)
\* The names that occur in an activation.
Places == {"none", "move", "user", "hang", "halt", "test", "load", "store", "clear",
           "got", "map", "walk", "mapped", "copy", "publish"}

Depth == 0 .. 3

Alones == {"move", "fault"}

Kinds == {"none", "task", "page", "directory", "table"}

\* The ways in which an action sets fields of an activation.
Goto(a, at) == [a EXCEPT !.at = at]

TryPage(a, n) == [a EXCEPT !.free = n]

Answer(a, n) == [a EXCEPT !.at = "got", !.free = n]

Hold(a, w) == [a EXCEPT !.at = "store", !.word = w]

Drop(a) == [a EXCEPT !.at = "clear", !.word = {}]

Descend(a, k, f) == [a EXCEPT !.level = k, !.table = f]

Enter(a, k, f) == [a EXCEPT !.at = "walk", !.level = k, !.table = f]

TakePage(a, f) == [a EXCEPT !.at = "map", !.page = f]

NextPage(a, n) == [a EXCEPT !.at = "copy", !.curPage = n, !.page = Null]

Begin(a, op, va) == [a EXCEPT !.op = op, !.va = va]

AtPage(a, va) == [a EXCEPT !.va = va]

BeginFork(a, t) == [a EXCEPT !.op = "fork", !.dst = t, !.curPage = 1]

\* What the fields are then.
LEMMA Sizes ==
    /\ PageCount \in Nat \ {0} /\ Page = 1 .. PageCount /\ Null = 0 /\ Frame = 0 .. PageCount
    /\ Null \in 0 .. PageCount + 1 /\ 1 \in 0 .. PageCount + 1 /\ Null \in Frame
    /\ Page \subseteq Frame /\ Null \notin Page /\ Fault \notin Frame /\ Frame \subseteq 0 .. PageCount + 1
  BY MemoryManagerAssumption DEF Page, Null, Frame, Fault

LEMMA AtFields ==
    ASSUME NEW a \in Activation, NEW at \in Places
    PROVE  /\ Goto(a, at) \in Activation /\ Goto(a, at).at = at /\ Goto(a, at).op = a.op
           /\ Goto(a, at).use = a.use /\ Goto(a, at).dst = a.dst /\ Goto(a, at).curPage = a.curPage
           /\ Goto(a, at).va = a.va /\ Goto(a, at).page = a.page /\ Goto(a, at).table = a.table
           /\ Goto(a, at).level = a.level /\ Goto(a, at).free = a.free /\ Goto(a, at).word = a.word
  BY Sizes DEF Activation, Places, Kinds, Goto

LEMMA FreeFields ==
    ASSUME NEW a \in Activation, NEW n \in 0 .. PageCount + 1
    PROVE  /\ TryPage(a, n) \in Activation /\ TryPage(a, n).at = a.at /\ TryPage(a, n).op = a.op
           /\ TryPage(a, n).use = a.use /\ TryPage(a, n).dst = a.dst /\ TryPage(a, n).curPage = a.curPage
           /\ TryPage(a, n).va = a.va /\ TryPage(a, n).page = a.page /\ TryPage(a, n).table = a.table
           /\ TryPage(a, n).level = a.level /\ TryPage(a, n).free = n /\ TryPage(a, n).word = a.word
  BY Sizes DEF Activation, Places, Kinds, TryPage

LEMMA GotFields ==
    ASSUME NEW a \in Activation, NEW n \in Frame
    PROVE  /\ Answer(a, n) \in Activation /\ Answer(a, n).at = "got" /\ Answer(a, n).op = a.op
           /\ Answer(a, n).use = a.use /\ Answer(a, n).dst = a.dst /\ Answer(a, n).curPage = a.curPage
           /\ Answer(a, n).va = a.va /\ Answer(a, n).page = a.page /\ Answer(a, n).table = a.table
           /\ Answer(a, n).level = a.level /\ Answer(a, n).free = n /\ Answer(a, n).word = a.word
  BY Sizes, ZenonT(60) DEF Activation, Places, Kinds, Answer

LEMMA WordFields ==
    ASSUME NEW a \in Activation, NEW w \in SUBSET Page
    PROVE  /\ Hold(a, w) \in Activation /\ Hold(a, w).at = "store" /\ Hold(a, w).op = a.op
           /\ Hold(a, w).use = a.use /\ Hold(a, w).dst = a.dst /\ Hold(a, w).curPage = a.curPage
           /\ Hold(a, w).va = a.va /\ Hold(a, w).page = a.page /\ Hold(a, w).table = a.table
           /\ Hold(a, w).level = a.level /\ Hold(a, w).free = a.free /\ Hold(a, w).word = w
  BY Sizes, ZenonT(60) DEF Activation, Places, Kinds, Hold

LEMMA StoredFields ==
    ASSUME NEW a \in Activation
    PROVE  /\ Drop(a) \in Activation /\ Drop(a).at = "clear" /\ Drop(a).op = a.op
           /\ Drop(a).use = a.use /\ Drop(a).dst = a.dst /\ Drop(a).curPage = a.curPage
           /\ Drop(a).va = a.va /\ Drop(a).page = a.page /\ Drop(a).table = a.table
           /\ Drop(a).level = a.level /\ Drop(a).free = a.free /\ Drop(a).word = {}
  BY Sizes DEF Activation, Places, Kinds, Drop

LEMMA DownFields ==
    ASSUME NEW a \in Activation, NEW k \in Depth, NEW f \in Frame
    PROVE  /\ Descend(a, k, f) \in Activation /\ Descend(a, k, f).at = a.at /\ Descend(a, k, f).op = a.op
           /\ Descend(a, k, f).use = a.use /\ Descend(a, k, f).dst = a.dst /\ Descend(a, k, f).curPage = a.curPage
           /\ Descend(a, k, f).va = a.va /\ Descend(a, k, f).page = a.page /\ Descend(a, k, f).table = f
           /\ Descend(a, k, f).level = k /\ Descend(a, k, f).free = a.free /\ Descend(a, k, f).word = a.word
  BY Sizes, ZenonT(60) DEF Activation, Places, Kinds, Depth, Descend

LEMMA EnterFields ==
    ASSUME NEW a \in Activation, NEW k \in Depth, NEW f \in Frame
    PROVE  /\ Enter(a, k, f) \in Activation /\ Enter(a, k, f).at = "walk" /\ Enter(a, k, f).op = a.op
           /\ Enter(a, k, f).use = a.use /\ Enter(a, k, f).dst = a.dst /\ Enter(a, k, f).curPage = a.curPage
           /\ Enter(a, k, f).va = a.va /\ Enter(a, k, f).page = a.page /\ Enter(a, k, f).table = f
           /\ Enter(a, k, f).level = k /\ Enter(a, k, f).free = a.free /\ Enter(a, k, f).word = a.word
  BY Sizes, ZenonT(60) DEF Activation, Places, Kinds, Depth, Enter

LEMMA PageFields ==
    ASSUME NEW a \in Activation, NEW f \in Frame
    PROVE  /\ TakePage(a, f) \in Activation /\ TakePage(a, f).at = "map" /\ TakePage(a, f).op = a.op
           /\ TakePage(a, f).use = a.use /\ TakePage(a, f).dst = a.dst /\ TakePage(a, f).curPage = a.curPage
           /\ TakePage(a, f).va = a.va /\ TakePage(a, f).page = f /\ TakePage(a, f).table = a.table
           /\ TakePage(a, f).level = a.level /\ TakePage(a, f).free = a.free /\ TakePage(a, f).word = a.word
  BY Sizes DEF Activation, Places, Kinds, TakePage

LEMMA NextFields ==
    ASSUME NEW a \in Activation, NEW n \in Nat
    PROVE  /\ NextPage(a, n) \in Activation /\ NextPage(a, n).at = "copy" /\ NextPage(a, n).op = a.op
           /\ NextPage(a, n).use = a.use /\ NextPage(a, n).dst = a.dst /\ NextPage(a, n).curPage = n
           /\ NextPage(a, n).va = a.va /\ NextPage(a, n).page = Null /\ NextPage(a, n).table = a.table
           /\ NextPage(a, n).level = a.level /\ NextPage(a, n).free = a.free /\ NextPage(a, n).word = a.word
  BY Sizes, ZenonT(60) DEF Activation, Places, Kinds, NextPage

LEMMA CallFields ==
    ASSUME NEW a \in Activation, NEW use \in Kinds
    PROVE  /\ GetFreePage(a, use) \in Activation /\ GetFreePage(a, use).at = "test" /\ GetFreePage(a, use).op = a.op
           /\ GetFreePage(a, use).use = use /\ GetFreePage(a, use).dst = a.dst /\ GetFreePage(a, use).curPage = a.curPage
           /\ GetFreePage(a, use).va = a.va /\ GetFreePage(a, use).page = a.page /\ GetFreePage(a, use).table = a.table
           /\ GetFreePage(a, use).level = a.level /\ GetFreePage(a, use).free = 1 /\ GetFreePage(a, use).word = a.word
  BY Sizes, ZenonT(60) DEF Activation, Places, Kinds, GetFreePage

LEMMA OpFields ==
    ASSUME NEW a \in Activation, NEW op \in Alones, NEW va \in VA
    PROVE  /\ Begin(a, op, va) \in Activation /\ Begin(a, op, va).at = a.at /\ Begin(a, op, va).op = op
           /\ Begin(a, op, va).use = a.use /\ Begin(a, op, va).dst = a.dst /\ Begin(a, op, va).curPage = a.curPage
           /\ Begin(a, op, va).va = va /\ Begin(a, op, va).page = a.page /\ Begin(a, op, va).table = a.table
           /\ Begin(a, op, va).level = a.level /\ Begin(a, op, va).free = a.free /\ Begin(a, op, va).word = a.word
  BY Sizes, ZenonT(60) DEF Activation, Places, Kinds, Alones, Begin

LEMMA VaFields ==
    ASSUME NEW a \in Activation, NEW va \in VA
    PROVE  /\ AtPage(a, va) \in Activation /\ AtPage(a, va).at = a.at /\ AtPage(a, va).op = a.op
           /\ AtPage(a, va).use = a.use /\ AtPage(a, va).dst = a.dst /\ AtPage(a, va).curPage = a.curPage
           /\ AtPage(a, va).va = va /\ AtPage(a, va).page = a.page /\ AtPage(a, va).table = a.table
           /\ AtPage(a, va).level = a.level /\ AtPage(a, va).free = a.free /\ AtPage(a, va).word = a.word
  BY Sizes DEF Activation, Places, Kinds, AtPage

LEMMA ForkFields ==
    ASSUME NEW a \in Activation, NEW t \in Task
    PROVE  /\ BeginFork(a, t) \in Activation /\ BeginFork(a, t).at = a.at /\ BeginFork(a, t).op = "fork"
           /\ BeginFork(a, t).use = a.use /\ BeginFork(a, t).dst = t /\ BeginFork(a, t).curPage = 1
           /\ BeginFork(a, t).va = a.va /\ BeginFork(a, t).page = a.page /\ BeginFork(a, t).table = a.table
           /\ BeginFork(a, t).level = a.level /\ BeginFork(a, t).free = a.free /\ BeginFork(a, t).word = a.word
  BY Sizes, ZenonT(60) DEF Activation, Places, Kinds, BeginFork

LEMMA SpanType == ASSUME NEW k \in 0 .. 3 PROVE Span(k) \in Nat \ {0}
<1>1. Entries \in Nat \ {0}
  BY MemoryManagerAssumption
<1>2. Entries * Entries \in Nat \ {0}
  BY <1>1
<1>3. Entries * Entries * Entries \in Nat \ {0}
  BY <1>1, <1>2
<1> QED BY <1>1, <1>2, <1>3 DEF Span

LEMMA VAType == VA \subseteq Nat /\ 0 \in VA
  BY MemoryManagerAssumption

LEMMA IndexType == ASSUME NEW va \in VA, NEW k \in 0 .. 3 PROVE Index(va, k) \in Entry
<1>1. Span(k) \in Nat \ {0} /\ va \in Nat /\ Entries \in Nat \ {0}
  BY SpanType, VAType, MemoryManagerAssumption
<1>2. va \div Span(k) \in Nat
  BY <1>1
<1>3. (va \div Span(k)) % Entries \in 0 .. Entries - 1
  BY <1>1, <1>2
<1> QED BY <1>3 DEF Index, Entry

LEMMA IdleType ==
    ASSUME NEW t \in Task, NEW at \in {"none", "move", "user", "hang", "halt"}
    PROVE  Idle(t, at) \in Activation
  BY MemoryManagerAssumption DEF Idle, Activation, Frame, Null

-----------------------------------------------------------------------------
(***************************************************************************)
(* What an action does to the activation of the running task.              *)
(***************************************************************************)
Stays == cpu' = cpu /\ Cur' \in Activation /\ act' = [act EXCEPT ![cpu] = Cur']

\* The same operation, at the same place of its loop and of its walk.
Continues(a, b) == b.op = a.op /\ b.dst = a.dst /\ b.va = a.va /\ b.curPage = a.curPage

SameTable(a, b) == b.table = a.table /\ b.level = a.level

SameUse(a, b) == b.use = a.use

Ready == Types /\ Control

LEMMA Typed ==
    ASSUME Ready
    PROVE  /\ Cur \in Activation /\ act \in [Task -> Activation] /\ cpu \in Task
           /\ Cur.dst \in Task /\ Cur.curPage \in Nat /\ Cur.va \in VA /\ Cur.page \in Frame
           /\ Cur.table \in Frame /\ Cur.level \in 0 .. 3 /\ Cur.free \in 0 .. PageCount + 1
           /\ Cur.use \in Kinds /\ Cur.word \subseteq Page
  BY DEF Ready, Types, Cur, Activation, Kinds

\* A task is at one of these places only between two operations.
Resting(a) == a.at \in {"none", "move", "user", "hang", "halt"}

LEMMA Phases ==
    ASSUME Ready
    PROVE  /\ ~Resting(Cur) => Cur.op \in {"move", "fault", "fork"} /\ InScope(Cur) /\ WellFormed(Cur)
           /\ Resting(Cur) => Cur = Idle(cpu, Cur.at)
<1>1. ~Resting(Cur) => Cur.op \in {"move", "fault", "fork"} /\ InScope(Cur) /\ WellFormed(Cur)
  BY DEF Ready, Control, Idle, Resting
<1>2. Resting(Cur) => Cur = Idle(cpu, Cur.at)
  BY DEF Ready, Control, Idle, WellFormed, Allocating, Resting
<1> QED BY <1>1, <1>2

\* GetFreePage.
LEMMA TestPageEffect ==
    ASSUME Ready, TestPage
    PROVE  /\ Stays /\ Continues(Cur, Cur') /\ SameTable(Cur, Cur') /\ SameUse(Cur, Cur')
           /\ Cur.at = "test" /\ Cur'.page = Cur.page
           /\ \/ Cur'.at = "got" /\ Cur'.free = Null
              \/ Cur'.at = "test" /\ Cur'.free = Cur.free + 1
              \/ Cur'.at = "load" /\ Cur'.free = Cur.free /\ Cur.free \in Page \ PageInUse
<1>1. cpu' = cpu /\ Cur.at = "test"
  BY DEF TestPage
<1>2. CASE ~InBitset(Cur.free)
  <2>1. Cur' = Answer(Cur, Null) /\ act' = [act EXCEPT ![cpu] = Cur']
    BY <1>2, Typed DEF TestPage, Become, Cur, Answer
  <2>2. Null \in Frame
    BY Sizes
  <2> QED BY <1>1, <2>1, <2>2, Typed, GotFields, ZenonT(60) DEF Stays, Continues, SameTable, SameUse
<1>3. CASE InBitset(Cur.free) /\ Cur.free \in PageInUse
  <2>1. Cur' = TryPage(Cur, Cur.free + 1) /\ act' = [act EXCEPT ![cpu] = Cur']
    BY <1>3, Typed DEF TestPage, Become, Cur, TryPage
  <2>2. Cur.free + 1 \in 0 .. PageCount + 1
    BY <1>3, Typed, Sizes DEF InBitset
  <2> QED BY <1>1, <2>1, <2>2, Typed, FreeFields
          DEF Stays, Continues, SameTable, SameUse
<1>4. CASE InBitset(Cur.free) /\ Cur.free \notin PageInUse
  <2>1. Cur' = Goto(Cur, "load") /\ act' = [act EXCEPT ![cpu] = Cur']
    BY <1>4, Typed DEF TestPage, Become, Cur, Goto
  <2>2. Cur.free \in Page /\ "load" \in Places
    BY <1>1, <1>4, Typed, Sizes, Phases DEF InBitset, WellFormed, Resting, Places
  <2> QED BY <1>1, <1>4, <2>1, <2>2, Typed, AtFields
          DEF Stays, Continues, SameTable, SameUse
<1> QED BY <1>2, <1>3, <1>4

LEMMA LoadWordEffect ==
    ASSUME Ready, LoadWord
    PROVE  /\ Stays /\ Continues(Cur, Cur') /\ SameTable(Cur, Cur') /\ SameUse(Cur, Cur')
           /\ Cur.at = "load" /\ Cur'.at = "store"
           /\ Cur'.page = Cur.page /\ Cur'.free = Cur.free /\ Cur'.word = PageInUse
<1>1. Cur' = Hold(Cur, PageInUse) /\ cpu' = cpu /\ act' = [act EXCEPT ![cpu] = Cur']
  BY Typed DEF LoadWord, Become, Cur, Hold
<1>2. PageInUse \in SUBSET Page
  BY DEF Ready, Types
<1> QED BY <1>1, <1>2, Typed, WordFields DEF LoadWord, Places, Kinds, Stays, Continues, SameTable, SameUse

LEMMA StoreWordEffect ==
    ASSUME Ready, StoreWord
    PROVE  /\ Stays /\ Continues(Cur, Cur') /\ SameTable(Cur, Cur') /\ SameUse(Cur, Cur')
           /\ Cur.at = "store" /\ Cur'.at = "clear" /\ Cur.free \in Page
           /\ Cur'.page = Cur.page /\ Cur'.free = Cur.free
           /\ PageInUse' = Cur.word \union {Cur.free}
<1>1. Cur' = Drop(Cur) /\ cpu' = cpu /\ act' = [act EXCEPT ![cpu] = Cur']
  BY Typed DEF StoreWord, Become, Cur, Drop
<1> QED BY <1>1, Typed, Phases, StoredFields DEF StoreWord, Resting, Places, Kinds, Stays, Continues, SameTable, SameUse, WellFormed, Marked

LEMMA ClearPageEffect ==
    ASSUME Ready, ClearPage
    PROVE  /\ Stays /\ Continues(Cur, Cur') /\ SameTable(Cur, Cur') /\ SameUse(Cur, Cur')
           /\ Cur.at = "clear" /\ Cur'.at = "got" /\ Cur.free \in Page
           /\ Cur'.page = Cur.page /\ Cur'.free = Cur.free
<1>1. Cur' = Goto(Cur, "got") /\ cpu' = cpu /\ act' = [act EXCEPT ![cpu] = Cur']
  BY Typed DEF ClearPage, Become, Cur, Goto
<1> QED BY <1>1, Typed, Phases, AtFields DEF ClearPage, Resting, Places, Kinds, Stays, Continues, SameTable, SameUse, WellFormed

\* MapPage.
LEMMA MapDirectoryEffect ==
    ASSUME Ready, MapDirectory
    PROVE  /\ Stays /\ Continues(Cur, Cur') /\ Cur.at = "map" /\ Cur'.page = Cur.page
           /\ \/ Dir(Cur.dst) = Null /\ Cur'.at = "test" /\ Cur'.use = "directory" /\ Cur'.free = 1
              \/ /\ Dir(Cur.dst) # Null /\ Cur'.at = "walk"
                 /\ Cur'.level = 0 /\ Cur'.table = Dir(Cur.dst)
<1>1. cpu' = cpu /\ Cur.at = "map" /\ Dir(Cur.dst) \in Frame
  BY Typed DEF MapDirectory, Ready, Types, Dir
<1>2. CASE Dir(Cur.dst) = Null
  <2>1. Cur' = GetFreePage(Cur, "directory") /\ act' = [act EXCEPT ![cpu] = Cur']
    BY <1>2, Typed DEF MapDirectory, Become, Cur, Dir
  <2>2. "directory" \in Kinds
    BY DEF Kinds
  <2> QED BY <1>1, <1>2, <2>1, <2>2, Typed, CallFields DEF Stays, Continues
<1>3. CASE Dir(Cur.dst) # Null
  <2>1. Cur' = Enter(Cur, 0, Dir(Cur.dst)) /\ act' = [act EXCEPT ![cpu] = Cur']
    BY <1>3, Typed DEF MapDirectory, Become, Cur, Dir, Enter
  <2>2. 0 \in Depth
    BY DEF Depth
  <2> QED BY <1>1, <1>3, <2>1, <2>2, Typed, EnterFields DEF Stays, Continues
<1> QED BY <1>2, <1>3

LEMMA NewDirectoryEffect ==
    ASSUME Ready, NewDirectory
    PROVE  /\ Stays /\ Continues(Cur, Cur') /\ Cur'.page = Cur.page
           /\ Cur.at = "got" /\ Cur.use = "directory" /\ Cur.free \in Frame
           /\ Cur'.at = "walk" /\ Cur'.level = 0 /\ Cur'.table = Cur.free
<1>1. cpu' = cpu /\ Cur.at = "got" /\ Cur.use = "directory" /\ Cur.free \in Frame
  BY Phases DEF NewDirectory, WellFormed, Resting
<1>2. Cur' = Enter(Cur, 0, Cur.free) /\ act' = [act EXCEPT ![cpu] = Cur']
  BY Typed DEF NewDirectory, Become, Cur, Enter
<1>3. 0 \in Depth
  BY DEF Depth
<1> QED BY <1>1, <1>2, <1>3, Typed, EnterFields DEF Stays, Continues

LEMMA MapTableEffect ==
    ASSUME Ready, MapTable
    PROVE  /\ Stays /\ Continues(Cur, Cur') /\ Cur'.page = Cur.page
           /\ Cur.at = "walk" /\ Cur.level \in 0 .. 2
           /\ LET entry == memory[Cur.table][Index(Cur.va, Cur.level)]
              IN  \/ /\ entry = Fault /\ SameTable(Cur, Cur')
                     /\ Cur'.at = "test" /\ Cur'.use = "table" /\ Cur'.free = 1
                  \/ /\ entry \in Frame /\ Cur'.at = "walk"
                     /\ Cur'.level = Cur.level + 1 /\ Cur'.table = entry
<1> DEFINE entry == memory[Cur.table][Index(Cur.va, Cur.level)]
<1>1. cpu' = cpu /\ Cur.at = "walk" /\ Cur.level \in 0 .. 2
  BY Typed DEF MapTable
<1>2. Cur.table \in Frame /\ Index(Cur.va, Cur.level) \in Entry
  BY Typed, IndexType
<1>3. entry \in Frame \union {Fault}
  BY <1>2 DEF Ready, Types, Word
<1>4. CASE entry = Fault
  <2>1. Cur' = GetFreePage(Cur, "table") /\ act' = [act EXCEPT ![cpu] = Cur']
    BY <1>4, Typed DEF MapTable, Become, Cur
  <2>2. "table" \in Kinds
    BY DEF Kinds
  <2> QED BY <1>1, <1>4, <2>1, <2>2, Typed, CallFields DEF Stays, Continues, SameTable
<1>5. CASE entry # Fault
  <2>1. Cur' = Descend(Cur, Cur.level + 1, entry) /\ act' = [act EXCEPT ![cpu] = Cur']
    BY <1>5, Typed DEF MapTable, Become, Cur, Descend
  <2>2. Cur.level + 1 \in Depth /\ entry \in Frame
    BY <1>1, <1>3, <1>5 DEF Depth
  <2> HIDE DEF entry
  <2>3. Stays /\ Continues(Cur, Cur') /\ Cur'.page = Cur.page /\ Cur'.at = Cur.at
        /\ Cur'.level = Cur.level + 1 /\ Cur'.table = entry
    BY <1>1, <2>1, <2>2, Typed, DownFields DEF Stays, Continues
  <2> QED BY <1>1, <2>2, <2>3 DEF entry
<1> QED BY <1>4, <1>5

LEMMA NewTableEffect ==
    ASSUME Ready, NewTable
    PROVE  /\ Stays /\ Continues(Cur, Cur') /\ Cur'.page = Cur.page
           /\ Cur.at = "got" /\ Cur.use = "table" /\ Cur.free \in Frame /\ Cur.level \in 0 .. 2
           /\ Cur'.at = "walk" /\ Cur'.level = Cur.level + 1 /\ Cur'.table = Cur.free
<1>1. cpu' = cpu /\ Cur.at = "got" /\ Cur.use = "table" /\ Cur.free \in Frame /\ Cur.level \in 0 .. 2
  BY Typed, Phases DEF NewTable, WellFormed, Allocating, Resting
<1>2. Cur' = Enter(Cur, Cur.level + 1, Cur.free) /\ act' = [act EXCEPT ![cpu] = Cur']
  BY Typed DEF NewTable, Become, Cur, Enter
<1>3. Cur.level + 1 \in Depth
  BY <1>1 DEF Depth
<1> QED BY <1>1, <1>2, <1>3, Typed, EnterFields DEF Stays, Continues

LEMMA MapTableEntryEffect ==
    ASSUME Ready, MapTableEntry
    PROVE  /\ Stays /\ Continues(Cur, Cur') /\ SameTable(Cur, Cur') /\ Cur'.page = Cur.page
           /\ Cur.at = "walk" /\ Cur.level = 3 /\ Cur.page \in Page /\ Cur'.at = "mapped"
<1>1. cpu' = cpu /\ Cur.at = "walk" /\ Cur.level = 3 /\ Cur.page \in Page /\ "mapped" \in Places
  BY Typed, Sizes, Phases DEF MapTableEntry, WellFormed, Resting, Places
<1>2. Cur' = Goto(Cur, "mapped") /\ act' = [act EXCEPT ![cpu] = Cur']
  BY Typed DEF MapTableEntry, Become, Cur, Goto
<1> QED BY <1>1, <1>2, Typed, AtFields DEF Stays, Continues, SameTable, SameUse

\* MoveToUserMode and do_mem_abort.
LEMMA MoveToUserModeEffect ==
    ASSUME Ready, MoveToUserMode
    PROVE  /\ Stays /\ Cur'.dst = cpu /\ Cur'.page = Null /\ Cur.page = Null /\ Cur'.curPage = 1
           /\ Cur.at = "move" /\ Cur'.op = "move" /\ Cur'.va = 0
           /\ Cur'.at = "test" /\ Cur'.use = "page" /\ Cur'.free = 1
<1>1. cpu' = cpu /\ Cur.at = "move" /\ "page" \in Kinds /\ 0 \in VA /\ "move" \in Alones
  BY VAType DEF MoveToUserMode, Kinds, Alones
<1>2. Cur' = GetFreePage(Begin(Cur, "move", 0), "page") /\ act' = [act EXCEPT ![cpu] = Cur']
  BY Typed DEF MoveToUserMode, Become, Cur, GetFreePage, Begin
<1>3. Cur.dst = cpu /\ Cur.page = Null /\ Cur.curPage = 1
  BY <1>1, Phases DEF Resting, Idle
<1> DEFINE b == Begin(Cur, "move", 0)
<1>4. b \in Activation /\ b.op = "move" /\ b.va = 0 /\ b.dst = cpu /\ b.page = Null /\ b.curPage = 1
  BY <1>1, <1>3, Typed, OpFields
<1> HIDE DEF b
<1> QED BY <1>1, <1>2, <1>3, <1>4, Typed, CallFields DEF Stays, b

LEMMA do_mem_abortEffect ==
    ASSUME Ready, do_mem_abort
    PROVE  /\ Stays /\ Cur'.dst = cpu /\ Cur'.page = Null /\ Cur.page = Null /\ Cur'.curPage = 1
           /\ Cur.at = "user" /\ Cur'.op = "fault" /\ Translate(cpu, Cur'.va) = Fault
           /\ Cur'.at = "test" /\ Cur'.use = "page" /\ Cur'.free = 1
<1>1. cpu' = cpu /\ Cur.at = "user" /\ "page" \in Kinds /\ "fault" \in Alones
  BY DEF do_mem_abort, Kinds, Alones
<1>2. PICK va \in VA :
        /\ Translate(cpu, va) = Fault
        /\ Become(GetFreePage([Cur EXCEPT !.op = "fault", !.va = va], "page"))
  BY DEF do_mem_abort
<1>3. Cur' = GetFreePage(Begin(Cur, "fault", va), "page") /\ act' = [act EXCEPT ![cpu] = Cur']
  BY <1>1, <1>2, Typed DEF Become, Cur, GetFreePage, Begin
<1>4. Cur.dst = cpu /\ Cur.page = Null /\ Cur.curPage = 1
  BY <1>1, Phases DEF Resting, Idle
<1> DEFINE b == Begin(Cur, "fault", va)
<1>5. b \in Activation /\ b.op = "fault" /\ b.va = va /\ b.dst = cpu /\ b.page = Null /\ b.curPage = 1
  BY <1>1, <1>4, Typed, OpFields
<1> HIDE DEF b
<1> QED BY <1>1, <1>2, <1>3, <1>4, <1>5, Typed, CallFields DEF Stays, b

LEMMA OtherDataAbortEffect ==
    ASSUME Ready, OtherDataAbort
    PROVE  Stays /\ Cur.at = "user" /\ Cur.op = "none" /\ Cur' = Idle(cpu, "hang")
<1>1. cpu' = cpu /\ Cur.at = "user"
  BY DEF OtherDataAbort
<1>2. Cur' = Idle(cpu, "hang") /\ act' = [act EXCEPT ![cpu] = Cur']
  BY Typed DEF OtherDataAbort, Become, Cur
<1>3. Cur.op = "none"
  BY <1>1, Phases DEF Resting, Idle
<1> QED BY <1>1, <1>2, <1>3, Typed, IdleType DEF Stays

LEMMA NewUserPageEffect ==
    ASSUME Ready, NewUserPage
    PROVE  /\ Stays /\ Continues(Cur, Cur')
           /\ Cur.at = "got" /\ Cur.use = "page" /\ Cur.free \in Page /\ Cur.page = Null
           /\ Cur'.at = "map" /\ Cur'.page = Cur.free
<1>1. cpu' = cpu /\ Cur.at = "got" /\ Cur.use = "page" /\ Cur.free \in Page /\ Cur.free \in Frame
      /\ Cur.page = Null
  BY Typed, Sizes, Phases DEF NewUserPage, WellFormed, Resting, Allocating
<1>2. Cur' = TakePage(Cur, Cur.free) /\ act' = [act EXCEPT ![cpu] = Cur']
  BY Typed DEF NewUserPage, Become, Cur, TakePage
<1> QED BY <1>1, <1>2, Typed, PageFields DEF Stays, Continues, SameTable, SameUse

LEMMA NoUserPageEffect ==
    ASSUME Ready, NoUserPage
    PROVE  /\ Stays /\ Cur.at = "got" /\ Cur.use = "page" /\ Cur.free = Null /\ Cur.page = Null
           /\ \/ Cur.op = "fault" /\ Cur' = Idle(cpu, "hang")
              \/ Cur.op = "move" /\ Cur' = Idle(cpu, "halt")
              \/ Cur.op = "fork" /\ Continues(Cur, Cur') /\ Cur'.at = "publish" /\ Cur'.page = Null
<1>1. /\ cpu' = cpu /\ Cur.at = "got" /\ Cur.use = "page" /\ Cur.free = Null
      /\ Cur.page = Null /\ Cur.op \in {"move", "fault", "fork"}
  BY Phases DEF NoUserPage, WellFormed, Allocating, Resting
<1>2. CASE Cur.op = "fault"
  <2>1. Cur' = Idle(cpu, "hang") /\ act' = [act EXCEPT ![cpu] = Cur']
    BY <1>2, Typed DEF NoUserPage, Become, Cur
  <2> QED BY <1>1, <1>2, <2>1, Typed, IdleType DEF Stays
<1>3. CASE Cur.op = "move"
  <2>1. Cur' = Idle(cpu, "halt") /\ act' = [act EXCEPT ![cpu] = Cur']
    BY <1>3, Typed DEF NoUserPage, Become, Cur
  <2> QED BY <1>1, <1>3, <2>1, Typed, IdleType DEF Stays
<1>4. CASE Cur.op = "fork"
  <2>1. Cur' = Goto(Cur, "publish") /\ act' = [act EXCEPT ![cpu] = Cur']
    BY <1>4, Typed DEF NoUserPage, Become, Cur, Goto
  <2>2. "publish" \in Places
    BY DEF Places
  <2> QED BY <1>1, <1>4, <2>1, <2>2, Typed, AtFields DEF Stays, Continues
<1> QED BY <1>1, <1>2, <1>3, <1>4

LEMMA PageMappedEffect ==
    ASSUME Ready, PageMapped
    PROVE  /\ Stays /\ Cur.at = "mapped" /\ Cur.op \in {"move", "fault"} /\ Cur.page \in Page
           /\ Cur' = Idle(cpu, "user")
<1>1. cpu' = cpu /\ Cur.at = "mapped" /\ Cur.op \in {"move", "fault"} /\ Cur.page \in Page
  BY Typed, Sizes, Phases DEF PageMapped, WellFormed, Resting
<1>2. Cur' = Idle(cpu, "user") /\ act' = [act EXCEPT ![cpu] = Cur']
  BY Typed DEF PageMapped, Become, Cur
<1> QED BY <1>1, <1>2, Typed, IdleType DEF Stays

\* CopyProcess.
LEMMA CopyProcessEffect ==
    ASSUME Ready, CopyProcess
    PROVE  /\ Stays /\ Cur'.page = Null /\ Cur.page = Null /\ Cur'.curPage = 1 /\ Cur.at = "user"
           /\ Cur'.op = "fork" /\ Cur'.at = "test" /\ Cur'.use = "task" /\ Cur'.free = 1
           /\ Cur'.dst \in Task \ {cpu} /\ ~Created(Cur'.dst)
<1>1. cpu' = cpu /\ Cur.at = "user" /\ "task" \in Kinds
  BY DEF CopyProcess, Kinds
<1>2. PICK t \in Task :
        /\ ~Created(t)
        /\ Become(GetFreePage([Cur EXCEPT !.op = "fork", !.dst = t, !.curPage = 1], "task"))
  BY DEF CopyProcess
<1>3. Cur' = GetFreePage(BeginFork(Cur, t), "task") /\ act' = [act EXCEPT ![cpu] = Cur']
  BY <1>1, <1>2, Typed DEF Become, Cur, GetFreePage, BeginFork
<1>4. Cur.page = Null
  BY <1>1, Phases DEF Resting, Idle
<1>5. t # cpu
  BY <1>1, <1>2 DEF Created, Cur
<1> DEFINE b == BeginFork(Cur, t)
<1>6. b \in Activation /\ b.op = "fork" /\ b.dst = t /\ b.page = Null /\ b.curPage = 1
  BY <1>1, <1>4, Typed, ForkFields
<1> HIDE DEF b
<1> QED BY <1>1, <1>2, <1>3, <1>4, <1>5, <1>6, Typed, CallFields DEF Stays, b

LEMMA NewTaskStructEffect ==
    ASSUME Ready, NewTaskStruct
    PROVE  /\ Stays /\ Cur.at = "got" /\ Cur.use = "task" /\ Cur.op = "fork" /\ Cur.page = Null
           /\ \/ Cur.free = Null /\ Cur' = Idle(cpu, "user") /\ home' = home
              \/ /\ Cur.free \in Page /\ Continues(Cur, Cur') /\ Cur'.at = "copy" /\ Cur'.page = Null
                 /\ home' = [home EXCEPT ![Cur.dst] = Cur.free]
<1>1. /\ cpu' = cpu /\ Cur.at = "got" /\ Cur.use = "task" /\ Cur.op = "fork" /\ Cur.page = Null
      /\ Cur.free \in Frame
  BY Phases DEF NewTaskStruct, WellFormed, Allocating, Resting
<1>2. CASE Cur.free = Null
  <2>1. Cur' = Idle(cpu, "user") /\ act' = [act EXCEPT ![cpu] = Cur'] /\ home' = home
    BY <1>2, Typed DEF NewTaskStruct, Become, Cur
  <2> QED BY <1>1, <1>2, <2>1, Typed, IdleType DEF Stays
<1>3. CASE Cur.free # Null
  <2>1. Cur' = Goto(Cur, "copy") /\ act' = [act EXCEPT ![cpu] = Cur']
        /\ home' = [home EXCEPT ![Cur.dst] = Cur.free]
    BY <1>3, Typed DEF NewTaskStruct, Become, Cur, Goto
  <2>2. "copy" \in Places /\ Cur.free \in Page
    BY <1>1, <1>3, Sizes DEF Places
  <2> QED BY <1>1, <1>3, <2>1, <2>2, Typed, AtFields DEF Stays, Continues
<1> QED BY <1>2, <1>3

LEMMA CopyNextPageEffect ==
    ASSUME Ready, CopyNextPage
    PROVE  /\ Stays /\ Cur.at = "copy" /\ Cur.op = "fork" /\ Cur.page = Null /\ Cur'.page = Null
           /\ Cur'.op = "fork" /\ Cur'.dst = Cur.dst /\ Cur'.curPage = Cur.curPage /\ Cur.curPage # 0
           /\ LET pages == MemoryState[cpu].UserPages
              IN  \/ /\ Cur.curPage \in 1 .. Len(pages) /\ Cur'.va = pages[Cur.curPage].VirtualAddress
                     /\ Cur'.at = "test" /\ Cur'.use = "page" /\ Cur'.free = 1
                  \/ Cur.curPage > Len(pages) /\ Cur'.at = "publish"
<1> DEFINE pages == MemoryState[cpu].UserPages
<1>1. /\ cpu' = cpu /\ Cur.at = "copy" /\ Cur.op = "fork" /\ Cur.page = Null /\ Cur.curPage # 0
  BY Phases DEF CopyNextPage, WellFormed, Allocating, Resting
<1>2. pages \in Seq(UserPage) /\ Len(pages) \in Nat /\ Cur.curPage \in Nat \ {0}
  BY <1>1, Typed DEF Ready, Types
<1>3. CASE Cur.curPage <= Len(pages)
  <2>1. Cur' = GetFreePage(AtPage(Cur, pages[Cur.curPage].VirtualAddress), "page")
        /\ act' = [act EXCEPT ![cpu] = Cur']
    BY <1>3, Typed DEF CopyNextPage, Become, Cur, GetFreePage, AtPage
  <2>2. Cur.curPage \in 1 .. Len(pages) /\ pages[Cur.curPage] \in UserPage
    BY <1>2, <1>3
  <2>3. pages[Cur.curPage].VirtualAddress \in VA /\ "page" \in Kinds
    BY <2>2 DEF UserPage, Kinds
  <2> DEFINE va == pages[Cur.curPage].VirtualAddress
             b == AtPage(Cur, va)
  <2> HIDE DEF va
  <2>5. b \in Activation /\ b.va = va /\ b.op = Cur.op /\ b.dst = Cur.dst
        /\ b.curPage = Cur.curPage /\ b.page = Cur.page
    BY <2>3, Typed, VaFields DEF va
  <2> HIDE DEF b
  <2>4. Stays /\ Cur'.va = pages[Cur.curPage].VirtualAddress /\ Cur'.op = Cur.op
        /\ Cur'.dst = Cur.dst /\ Cur'.curPage = Cur.curPage /\ Cur'.page = Cur.page
        /\ Cur'.at = "test" /\ Cur'.use = "page" /\ Cur'.free = 1
    BY <1>1, <2>1, <2>3, <2>5, Typed, CallFields DEF Stays, b, va
  <2> QED BY <1>1, <2>2, <2>4
<1>4. CASE ~(Cur.curPage <= Len(pages))
  <2>1. Cur' = Goto(Cur, "publish") /\ act' = [act EXCEPT ![cpu] = Cur']
    BY <1>4, Typed DEF CopyNextPage, Become, Cur, Goto
  <2>2. "publish" \in Places /\ Cur.curPage > Len(pages)
    BY <1>2, <1>4 DEF Places
  <2> QED BY <1>1, <2>1, <2>2, Typed, AtFields DEF Stays
<1> QED BY <1>3, <1>4

LEMMA CopyPageEffect ==
    ASSUME Ready, CopyPage
    PROVE  /\ Stays /\ Cur.at = "mapped" /\ Cur.op = "fork" /\ Cur.page \in Page
           /\ Cur'.op = "fork" /\ Cur'.dst = Cur.dst /\ Cur'.curPage = Cur.curPage + 1
           /\ Cur'.at = "copy" /\ Cur'.page = Null
<1>1. cpu' = cpu /\ Cur.at = "mapped" /\ Cur.op = "fork" /\ Cur.page \in Page
  BY Typed, Sizes, Phases DEF CopyPage, WellFormed, Resting
<1>2. Cur' = NextPage(Cur, Cur.curPage + 1) /\ act' = [act EXCEPT ![cpu] = Cur']
  BY Typed DEF CopyPage, Become, Cur, NextPage
<1>3. Cur.curPage + 1 \in Nat
  BY Typed
<1> QED BY <1>1, <1>2, <1>3, Typed, NextFields DEF Stays

LEMMA PublishTaskEffect ==
    ASSUME Ready, PublishTask
    PROVE  /\ cpu' = cpu /\ Cur.at = "publish" /\ Cur.op = "fork" /\ Cur.page = Null
           /\ Cur.dst \in Task \ {cpu} /\ ~Created(Cur.dst)
           /\ Cur' = Idle(cpu, "user") /\ act'[Cur.dst] = Idle(Cur.dst, "user")
           /\ act' \in [Task -> Activation]
           /\ \A t \in Task \ {cpu, Cur.dst} : act'[t] = act[t]
<1>1. /\ cpu' = cpu /\ Cur.at = "publish" /\ Cur.op = "fork" /\ Cur.page = Null
      /\ Cur.dst \in Task \ {cpu} /\ ~Created(Cur.dst)
  BY Typed, Phases DEF PublishTask, InScope, WellFormed, Allocating, Resting
<1>2. Idle(cpu, "user") \in Activation /\ Idle(Cur.dst, "user") \in Activation
  BY <1>1, Typed, IdleType
<1> DEFINE d == Cur.dst
<1>3. act' = [act EXCEPT ![cpu] = Idle(cpu, "user"), ![d] = Idle(d, "user")]
  BY DEF PublishTask
<1>4. d \in Task \ {cpu}
  BY <1>1
<1> HIDE DEF d
<1>5. /\ act'[cpu] = Idle(cpu, "user") /\ act'[d] = Idle(d, "user")
      /\ act' \in [Task -> Activation]
      /\ \A t \in Task \ {cpu, d} : act'[t] = act[t]
  BY <1>2, <1>3, <1>4, Typed DEF d
<1> QED BY <1>1, <1>5 DEF Cur, d

-----------------------------------------------------------------------------
(***************************************************************************)
(* Types and control are preserved.                                        *)
(***************************************************************************)
LEMMA TypesStep ==
    ASSUME Ready, Next
    PROVE  Types'
<1> USE DEF Ready
<1>1. Stays => cpu' \in Task /\ act' \in [Task -> Activation]
  BY DEF Types, Stays
<1>2. CASE TestPage \/ LoadWord \/ MapDirectory \/ MapTable
  BY <1>1, <1>2, TestPageEffect, LoadWordEffect, MapDirectoryEffect, MapTableEffect
     DEF Types, TestPage, LoadWord, MapDirectory, MapTable
<1>3. CASE StoreWord
  <2>1. Cur.word \union {Cur.free} \subseteq Page
    BY <1>3, StoreWordEffect, Typed
  <2> QED BY <1>1, <1>3, <2>1, StoreWordEffect DEF Types, StoreWord
<1>4. CASE ClearPage
  <2>1. Cur.free \in Frame
    BY <1>4, ClearPageEffect, Sizes
  <2>2. [i \in 0 .. Entries - 1 |-> Fault] \in [Entry -> Word]
    BY DEF Entry, Word
  <2> QED BY <1>1, <1>4, <2>1, <2>2, ClearPageEffect DEF Types, ClearPage
<1>5. CASE NewDirectory
  <2>1. Append(MemoryState[Cur.dst].KernelPages, Cur.free) \in Seq(Frame)
    BY <1>5, NewDirectoryEffect, Typed DEF Types
  <2> QED BY <1>1, <1>5, <2>1, NewDirectoryEffect, Typed DEF Types, NewDirectory
<1>6. CASE NewTable
  <2>1. Append(MemoryState[Cur.dst].KernelPages, Cur.free) \in Seq(Frame)
    BY <1>6, NewTableEffect, Typed DEF Types
  <2>2. Index(Cur.va, Cur.level) \in Entry /\ Cur.free \in Word
    BY <1>6, NewTableEffect, Typed, IndexType DEF Word
  <2> QED BY <1>1, <1>6, <2>1, <2>2, NewTableEffect, Typed DEF Types, NewTable, Recorded
<1>7. CASE MapTableEntry
  <2> DEFINE u == [PhysicalAddress |-> Cur.page, VirtualAddress |-> Cur.va]
  <2>1. u \in UserPage
    BY <1>7, MapTableEntryEffect, Typed DEF UserPage
  <2>2. Append(MemoryState[Cur.dst].UserPages, u) \in Seq(UserPage)
    BY <2>1, Typed DEF Types
  <2>3. Index(Cur.va, 3) \in Entry /\ Cur.page \in Word
    BY <1>7, Typed, IndexType DEF Word
  <2> QED BY <1>1, <1>7, <2>2, <2>3, MapTableEntryEffect, Typed DEF Types, MapTableEntry
<1>8. CASE MoveToUserMode \/ do_mem_abort \/ OtherDataAbort \/ NewUserPage \/ NoUserPage \/ PageMapped
  BY <1>1, <1>8, MoveToUserModeEffect, do_mem_abortEffect, NewUserPageEffect, NoUserPageEffect,
     PageMappedEffect, OtherDataAbortEffect
     DEF Types, MoveToUserMode, do_mem_abort, OtherDataAbort, NewUserPage, NoUserPage, PageMapped
<1>9. CASE CopyProcess \/ CopyNextPage \/ CopyPage
  BY <1>1, <1>9, CopyProcessEffect, CopyNextPageEffect, CopyPageEffect
     DEF Types, CopyProcess, CopyNextPage, CopyPage
<1>10. CASE NewTaskStruct
  <2>1. home' \in [Task -> Frame]
    BY <1>10, NewTaskStructEffect, Typed, Sizes DEF Types
  <2> QED BY <1>1, <1>10, <2>1, NewTaskStructEffect DEF Types, NewTaskStruct
<1>11. CASE PublishTask
  BY <1>11, PublishTaskEffect DEF Types, PublishTask
<1>12. CASE WriteMemory \/ Preempt
  BY <1>12 DEF Types, WriteMemory, Preempt
<1> QED BY <1>2, <1>3, <1>4, <1>5, <1>6, <1>7, <1>8, <1>9, <1>10, <1>11, <1>12 DEF Next

\* A step of the running task in an operation.
LEMMA OperationStep ==
    ASSUME Ready, Stays, Cur'.op \in {"move", "fault", "fork"}, InScope(Cur'), WellFormed(Cur')
    PROVE  Control'
<1>1. \A t \in Task \ {cpu} : act'[t] = act[t] /\ (Created(t)' <=> Created(t))
  BY Typed DEF Stays, Created
<1>2. Alone' <=> Alone
  BY <1>1 DEF Stays, Alone
<1>3. InScope(Cur)'
  BY <1>1, <1>2, Typed DEF InScope, Stays, Cur, Activation
<1>4. WellFormed(Cur)'
  BY DEF WellFormed, Allocating, Cur
<1>5. \A t \in Task \ {cpu'} : act'[t] \in {Idle(t, "none"), Idle(t, "user"), Idle(t, "hang")}
  BY <1>1 DEF Ready, Control, Stays
<1> QED BY <1>3, <1>4, <1>5 DEF Control, Cur

\* A step of the running task that ends its operation.
LEMMA EndingStep ==
    ASSUME Ready, Stays,
           \/ Cur' \in {Idle(cpu, "user"), Idle(cpu, "hang")}
           \/ Cur' = Idle(cpu, "halt") /\ Alone
    PROVE  Control'
<1>1. \A t \in Task \ {cpu} : act'[t] = act[t] /\ (Created(t)' <=> Created(t))
  BY Typed DEF Stays, Created
<1>2. Alone' <=> Alone
  BY <1>1 DEF Stays, Alone
<1>5. \A t \in Task \ {cpu'} : act'[t] \in {Idle(t, "none"), Idle(t, "user"), Idle(t, "hang")}
  BY <1>1 DEF Ready, Control, Stays
<1> QED BY <1>2, <1>5 DEF Control, Stays

LEMMA ContinuedScope ==
    ASSUME Ready, ~Resting(Cur), Continues(Cur, Cur')
    PROVE  Cur'.op \in {"move", "fault", "fork"} /\ InScope(Cur')
  BY Phases DEF Continues, InScope, Ready, Control, Resting, Idle

LEMMA ControlStep ==
    ASSUME ConcurrentFaults = FALSE, Ready, Next
    PROVE  Control'
<1> USE DEF Allocating
<1>1. CASE TestPage
  <2>1. Cur.free + 1 # 0 /\ Null = 0
    BY Typed, Sizes
  <2>2. WellFormed(Cur')
    BY <1>1, <2>1, TestPageEffect, Phases, Sizes
       DEF WellFormed, Continues, SameTable, SameUse, Resting
  <2> QED BY <1>1, <2>2, TestPageEffect, OperationStep, ContinuedScope DEF Resting
<1>2. CASE LoadWord
  <2>1. WellFormed(Cur')
    BY <1>2, LoadWordEffect, Phases DEF WellFormed, Continues, SameTable, SameUse, Resting
  <2> QED BY <1>2, <2>1, LoadWordEffect, OperationStep, ContinuedScope DEF Resting
<1>3. CASE StoreWord
  <2>1. WellFormed(Cur')
    BY <1>3, StoreWordEffect, Phases DEF WellFormed, Continues, SameTable, SameUse, Resting
  <2> QED BY <1>3, <2>1, StoreWordEffect, OperationStep, ContinuedScope DEF Resting
<1>4. CASE ClearPage
  <2>1. WellFormed(Cur')
    BY <1>4, ClearPageEffect, Phases, Sizes
       DEF WellFormed, Continues, SameTable, SameUse, Resting
  <2> QED BY <1>4, <2>1, ClearPageEffect, OperationStep, ContinuedScope DEF Resting
<1>5. CASE MapDirectory
  <2>1. WellFormed(Cur')
    BY <1>5, MapDirectoryEffect, Phases, Sizes DEF WellFormed, Continues, Resting
  <2> QED BY <1>5, <2>1, MapDirectoryEffect, OperationStep, ContinuedScope DEF Resting
<1>6. CASE NewDirectory
  <2>1. WellFormed(Cur')
    BY <1>6, NewDirectoryEffect, Phases DEF WellFormed, Continues, Resting
  <2> QED BY <1>6, <2>1, NewDirectoryEffect, OperationStep, ContinuedScope DEF Resting
<1>7. CASE MapTable
  <2>1. WellFormed(Cur')
    BY <1>7, MapTableEffect, Phases, Sizes DEF WellFormed, Continues, SameTable, Resting
  <2> QED BY <1>7, <2>1, MapTableEffect, OperationStep, ContinuedScope DEF Resting
<1>8. CASE NewTable
  <2>1. WellFormed(Cur')
    BY <1>8, NewTableEffect, Phases DEF WellFormed, Continues, Resting
  <2> QED BY <1>8, <2>1, NewTableEffect, OperationStep, ContinuedScope DEF Resting
<1>9. CASE MapTableEntry
  <2>1. WellFormed(Cur')
    BY <1>9, MapTableEntryEffect, Phases DEF WellFormed, Continues, Resting
  <2> QED BY <1>9, <2>1, MapTableEntryEffect, OperationStep, ContinuedScope DEF Resting
<1>10. CASE MoveToUserMode
  <2>1. Alone
    BY <1>10, Typed DEF MoveToUserMode, Ready, Control, Idle, WellFormed
  <2>2. WellFormed(Cur')
    BY <1>10, MoveToUserModeEffect, Sizes DEF WellFormed
  <2>3. InScope(Cur')
    BY <1>10, <2>1, MoveToUserModeEffect DEF InScope
  <2> QED BY <1>10, <2>2, <2>3, MoveToUserModeEffect, OperationStep
<1>11. CASE do_mem_abort
  <2>1. Alone
    BY <1>11 DEF do_mem_abort
  <2>2. WellFormed(Cur')
    BY <1>11, do_mem_abortEffect, Sizes DEF WellFormed
  <2>3. InScope(Cur')
    BY <1>11, <2>1, do_mem_abortEffect DEF InScope
  <2> QED BY <1>11, <2>2, <2>3, do_mem_abortEffect, OperationStep
<1>12. CASE NewUserPage
  <2>1. WellFormed(Cur')
    BY <1>12, NewUserPageEffect, Phases, Sizes DEF WellFormed, Continues, Resting
  <2> QED BY <1>12, <2>1, NewUserPageEffect, OperationStep, ContinuedScope DEF Resting
<1>13. CASE NoUserPage
  <2>1. ~Resting(Cur) /\ InScope(Cur)
    BY <1>13, NoUserPageEffect DEF Ready, Control, Idle, Resting
  <2>2. CASE Cur.op = "fork"
    <3>1. WellFormed(Cur') /\ Continues(Cur, Cur')
      BY <1>13, <2>1, <2>2, NoUserPageEffect, Phases DEF WellFormed, Continues
    <3> QED BY <1>13, <2>1, <3>1, NoUserPageEffect, OperationStep, ContinuedScope
  <2>3. CASE Cur.op \in {"move", "fault"}
    BY <1>13, <2>1, <2>3, NoUserPageEffect, EndingStep DEF InScope
  <2> QED BY <1>13, <2>2, <2>3, NoUserPageEffect
<1>14. CASE PageMapped
  BY <1>14, PageMappedEffect, EndingStep
<1>15. CASE CopyProcess
  <2>1. WellFormed(Cur')
    BY <1>15, CopyProcessEffect, Sizes DEF WellFormed
  <2>2. InScope(Cur')
    BY <1>15, CopyProcessEffect DEF InScope
  <2> QED BY <1>15, <2>1, <2>2, CopyProcessEffect, OperationStep
<1>16. CASE NewTaskStruct
  <2>1. CASE Cur' = Idle(cpu, "user")
    BY <1>16, <2>1, NewTaskStructEffect, EndingStep
  <2>2. CASE Cur.free \in Page
    <3>1. /\ Stays /\ Continues(Cur, Cur') /\ Cur'.at = "copy" /\ Cur'.page = Null
          /\ Cur.at = "got" /\ Cur.op = "fork"
      BY <1>16, <2>2, NewTaskStructEffect, Sizes
    <3>2. WellFormed(Cur')
      BY <3>1, Phases DEF WellFormed, Continues, Resting
    <3> QED BY <3>1, <3>2, OperationStep, ContinuedScope DEF Resting
  <2> QED BY <1>16, <2>1, <2>2, NewTaskStructEffect
<1>17. CASE CopyNextPage
  <2>1. WellFormed(Cur')
    BY <1>17, CopyNextPageEffect, Sizes DEF WellFormed
  <2>2. InScope(Cur')
    BY <1>17, CopyNextPageEffect DEF Ready, Control, Idle, InScope
  <2> QED BY <1>17, <2>1, <2>2, CopyNextPageEffect, OperationStep
<1>18. CASE CopyPage
  <2>1. Cur.curPage + 1 # 0
    BY Typed
  <2>2. WellFormed(Cur')
    BY <1>18, <2>1, CopyPageEffect DEF WellFormed
  <2>3. InScope(Cur')
    BY <1>18, CopyPageEffect DEF Ready, Control, Idle, InScope
  <2> QED BY <1>18, <2>2, <2>3, CopyPageEffect, OperationStep
<1>19. CASE PublishTask
  <2>1. \A t \in Task \ {cpu} : act'[t] \in {Idle(t, "none"), Idle(t, "user"), Idle(t, "hang")}
    BY <1>19, PublishTaskEffect DEF Ready, Control
  <2> QED BY <1>19, <2>1, PublishTaskEffect DEF Control
<1>20. CASE WriteMemory
  BY <1>20 DEF WriteMemory, Ready, Control, Cur, InScope, WellFormed, Alone, Created
<1>21. CASE Preempt
  <2>1. PICK t \in Task \ {cpu} : Created(t) /\ cpu' = t
    BY <1>21 DEF Preempt
  <2>2. act' = act /\ ~Guarded
    BY <1>21 DEF Preempt
  <2>3. ~Alone
    BY <2>1 DEF Alone
  <2>4. Cur \in {Idle(cpu, "user"), Idle(cpu, "hang")}
    BY <2>2, <2>3 DEF Ready, Control, InScope, Guarded
  <2>5. act[t] \in {Idle(t, "user"), Idle(t, "hang")}
    <3>1. act[t] \in {Idle(t, "none"), Idle(t, "user"), Idle(t, "hang")}
      BY <2>1 DEF Ready, Control
    <3>2. Idle(t, "none").at = "none"
      BY DEF Idle
    <3> QED BY <2>1, <3>1, <3>2 DEF Created
  <2> QED BY <2>1, <2>2, <2>4, <2>5, Typed DEF Ready, Control, Cur
<1>22. CASE OtherDataAbort
  BY <1>22, OtherDataAbortEffect, EndingStep
<1> QED
  BY <1>1, <1>2, <1>3, <1>4, <1>5, <1>6, <1>7, <1>8, <1>9, <1>10, <1>11, <1>12, <1>13, <1>14,
     <1>15, <1>16, <1>17, <1>18, <1>19, <1>20, <1>21, <1>22 DEF Next

-----------------------------------------------------------------------------
(***************************************************************************)
(* Page tables.                                                            *)
(***************************************************************************)
Typing(m) == m \in [Frame -> [Entry -> Word]]

LEMMA ChildrenType ==
    ASSUME NEW m, Typing(m), NEW A \in SUBSET Frame
    PROVE  ChildrenIn(m, A) \subseteq Frame
  BY DEF ChildrenIn, Typing, Word

LEMMA TreeType ==
    ASSUME NEW m, Typing(m), NEW d \in Frame
    PROVE  /\ T0(m, d) \subseteq Frame /\ T1(m, d) \subseteq Frame /\ T2(m, d) \subseteq Frame
           /\ T3(m, d) \subseteq Frame /\ T4(m, d) \subseteq Frame
<1>1. T0(m, d) \subseteq Frame
  BY DEF T0
<1>2. T1(m, d) \subseteq Frame
  BY <1>1, ChildrenType DEF T1
<1>3. T2(m, d) \subseteq Frame
  BY <1>2, ChildrenType DEF T2
<1>4. T3(m, d) \subseteq Frame
  BY <1>3, ChildrenType DEF T3
<1>5. T4(m, d) \subseteq Frame
  BY <1>4, ChildrenType DEF T4
<1> QED BY <1>1, <1>2, <1>3, <1>4, <1>5

\* When entries are unique, the children of disjoint sets of tables are disjoint.
LEMMA ChildrenDisjoint ==
    ASSUME NEW m, OneParent(m), NEW A \in SUBSET Frame, NEW B \in SUBSET Frame,
           A \intersect B = {}
    PROVE  ChildrenIn(m, A) \intersect ChildrenIn(m, B) = {}
  BY DEF ChildrenIn, OneParent

\* A table is on one level.
LEMMA LevelsDisjoint ==
    ASSUME NEW m, Typing(m), NEW d \in Frame, OneParent(m), NoParent(m, d)
    PROVE  /\ T0(m, d) \intersect T1(m, d) = {} /\ T0(m, d) \intersect T2(m, d) = {}
           /\ T0(m, d) \intersect T3(m, d) = {} /\ T1(m, d) \intersect T2(m, d) = {}
           /\ T1(m, d) \intersect T3(m, d) = {} /\ T2(m, d) \intersect T3(m, d) = {}
<1>1. \A A \in SUBSET Frame : T0(m, d) \intersect ChildrenIn(m, A) = {}
  BY DEF T0, ChildrenIn, NoParent
<1>2. /\ T0(m, d) \intersect T1(m, d) = {} /\ T0(m, d) \intersect T2(m, d) = {}
      /\ T0(m, d) \intersect T3(m, d) = {}
  BY <1>1, TreeType DEF T1, T2, T3
<1>3. T1(m, d) \intersect T2(m, d) = {} /\ T1(m, d) \intersect T3(m, d) = {}
  BY <1>2, TreeType, ChildrenDisjoint DEF T1, T2, T3
<1>4. T2(m, d) \intersect T3(m, d) = {}
  BY <1>3, TreeType, ChildrenDisjoint DEF T2, T3
<1> QED BY <1>2, <1>3, <1>4

\* The walk goes down the levels.
LEMMA PathInTree ==
    ASSUME NEW m, Typing(m), NEW d \in Frame \ {Null}, NEW va \in VA
    PROVE  /\ d \in T0(m, d)
           /\ P1(m, d, va) \in T1(m, d) \union {Fault}
           /\ P2(m, d, va) \in T2(m, d) \union {Fault}
           /\ P3(m, d, va) \in T3(m, d) \union {Fault}
           /\ P4(m, d, va) \in T4(m, d) \union {Fault}
<1>1. ASSUME NEW k \in 0 .. 3, NEW A \in SUBSET Frame, NEW f \in A \union {Fault}
      PROVE  StepIn(m, f, va, k) \in ChildrenIn(m, A) \union {Fault}
  <2>1. Index(va, k) \in Entry
    BY IndexType
  <2> QED BY <2>1 DEF StepIn, ChildrenIn
<1>2. d \in T0(m, d)
  BY DEF T0
<1>3. P1(m, d, va) \in T1(m, d) \union {Fault}
  BY <1>1, <1>2, TreeType DEF P1, T1
<1>4. P2(m, d, va) \in T2(m, d) \union {Fault}
  BY <1>1, <1>3, TreeType DEF P2, T2
<1>5. P3(m, d, va) \in T3(m, d) \union {Fault}
  BY <1>1, <1>4, TreeType DEF P3, T3
<1>6. P4(m, d, va) \in T4(m, d) \union {Fault}
  BY <1>1, <1>5, TreeType DEF P4, T4
<1> QED BY <1>2, <1>3, <1>4, <1>5, <1>6

\* The walk from a directory that has no entries, the null pointer among them.
LEMMA BlankDirectory ==
    ASSUME NEW m, NEW d \in Frame, Blank(m, d)
    PROVE  /\ T1(m, d) = {} /\ T2(m, d) = {} /\ T3(m, d) = {} /\ T4(m, d) = {}
           /\ \A va \in VA : /\ P1(m, d, va) = Fault /\ P2(m, d, va) = Fault
                             /\ P3(m, d, va) = Fault /\ P4(m, d, va) = Fault
<1>1. T1(m, d) = {}
  BY DEF T1, T0, ChildrenIn, Blank
<1>2. T2(m, d) = {} /\ T3(m, d) = {} /\ T4(m, d) = {}
  BY <1>1 DEF T2, T3, T4, ChildrenIn
<1>3. ASSUME NEW va \in VA PROVE P1(m, d, va) = Fault
  <2>1. Index(va, 0) \in Entry
    BY IndexType
  <2> QED BY <2>1, Sizes DEF P1, StepIn, Blank
<1>4. \A va \in VA : /\ P1(m, d, va) = Fault /\ P2(m, d, va) = Fault
                     /\ P3(m, d, va) = Fault /\ P4(m, d, va) = Fault
  BY <1>3 DEF P2, P3, P4, StepIn
<1> QED BY <1>1, <1>2, <1>4

\* The four indices of an address determine it.
LEMMA IndicesDetermine ==
    ASSUME NEW va \in VA, NEW vb \in VA,
           Index(va, 0) = Index(vb, 0), Index(va, 1) = Index(vb, 1),
           Index(va, 2) = Index(vb, 2), Index(va, 3) = Index(vb, 3)
    PROVE  va = vb
<1> DEFINE E == Entries
<1>e. E \in Nat \ {0}
  BY MemoryManagerAssumption
<1>s. E * E \in Nat \ {0} /\ E * E * E \in Nat \ {0}
  <2>1. E * E \in Nat \ {0}
    BY <1>e
  <2> QED BY <1>e, <2>1
<1>v. va \in Nat /\ vb \in Nat /\ va < E * (E * E * E) /\ vb < E * (E * E * E)
  <2>1. VA \subseteq 0 .. E * (E * E * E) - 1
    BY MemoryManagerAssumption DEF Span
  <2> QED BY <2>1, <1>e, <1>s
<1>i. ASSUME NEW v \in VA
      PROVE  /\ Index(v, 0) = (v \div (E * E * E)) % E /\ Index(v, 1) = (v \div (E * E)) % E
             /\ Index(v, 2) = (v \div E) % E /\ Index(v, 3) = (v \div 1) % E
  BY DEF Index, Span
<1> HIDE DEF E
<1>d. ASSUME NEW v \in Nat, NEW w \in Nat, v \div E = w \div E, v % E = w % E
      PROVE  v = w
  <2>1. v = ((v \div E) * E) + (v % E)
    BY <1>e
  <2>2. w = ((w \div E) * E) + (w % E)
    BY <1>e
  <2> QED BY <2>1, <2>2, <1>d
<1>n. ASSUME NEW v \in Nat, NEW a \in Nat \ {0}
      PROVE  v \div a \in Nat /\ v \div (a * E) = (v \div a) \div E
  BY <1>e
<1>1. va \div (E * E * E) = vb \div (E * E * E)
  <2>1. ASSUME NEW v \in Nat, v < E * (E * E * E) PROVE (v \div (E * E * E)) % E = v \div (E * E * E)
    <3> DEFINE c == E * E * E
    <3>1. c \in Nat \ {0} /\ v < E * c
      BY <1>s, <2>1
    <3> HIDE DEF c
    <3>2. v \div c \in Nat /\ v \div c < E
      BY <3>1, <1>e
    <3>3. (v \div c) % E = v \div c
      BY <3>2, <1>e
    <3> QED BY <3>3 DEF c
  <2> QED BY <2>1, <1>v, <1>i
<1>2. va \div (E * E) = vb \div (E * E)
  <2>1. va \div (E * E) \in Nat /\ vb \div (E * E) \in Nat
    BY <1>n, <1>s, <1>v
  <2>2. /\ va \div (E * E * E) = (va \div (E * E)) \div E
        /\ vb \div (E * E * E) = (vb \div (E * E)) \div E
    BY <1>n, <1>s, <1>v
  <2> QED BY <1>1, <2>1, <2>2, <1>d, <1>i
<1>3. va \div E = vb \div E
  <2>1. va \div E \in Nat /\ vb \div E \in Nat
    BY <1>n, <1>e, <1>v
  <2>2. va \div (E * E) = (va \div E) \div E /\ vb \div (E * E) = (vb \div E) \div E
    BY <1>n, <1>e, <1>v
  <2> QED BY <1>2, <2>1, <2>2, <1>d, <1>i
<1>4. va % E = vb % E
  <2>1. va \div 1 = va /\ vb \div 1 = vb
    BY <1>v
  <2> QED BY <2>1, <1>i
<1> QED BY <1>3, <1>4, <1>v, <1>d

\* So two addresses that the walk takes to one place are the same.
LEMMA PathDetermines ==
    ASSUME NEW m, Typing(m), OneParent(m), NEW d \in Frame, NEW va \in VA, NEW vb \in VA,
           P3(m, d, va) = P3(m, d, vb), P3(m, d, va) # Fault, Index(va, 3) = Index(vb, 3)
    PROVE  va = vb
<1>1. ASSUME NEW f \in Frame \union {Fault}, NEW g \in Frame \union {Fault}, NEW k \in 0 .. 3,
             StepIn(m, f, va, k) = StepIn(m, g, vb, k), StepIn(m, f, va, k) # Fault
      PROVE  f = g /\ f # Fault /\ Index(va, k) = Index(vb, k)
  <2>1. Index(va, k) \in Entry /\ Index(vb, k) \in Entry
    BY IndexType
  <2> QED BY <1>1, <2>1 DEF StepIn, OneParent
<1>2. ASSUME NEW v \in VA
      PROVE  P1(m, d, v) \in Frame \union {Fault} /\ P2(m, d, v) \in Frame \union {Fault}
  <2>1. ASSUME NEW f \in Frame \union {Fault}, NEW k \in 0 .. 3
        PROVE  StepIn(m, f, v, k) \in Frame \union {Fault}
    <3>1. Index(v, k) \in Entry
      BY IndexType
    <3> QED BY <3>1 DEF StepIn, Typing, Word
  <2> QED BY <2>1 DEF P1, P2
<1>3. P2(m, d, va) = P2(m, d, vb) /\ P2(m, d, va) # Fault /\ Index(va, 2) = Index(vb, 2)
  BY <1>1, <1>2 DEF P3
<1>4. P1(m, d, va) = P1(m, d, vb) /\ P1(m, d, va) # Fault /\ Index(va, 1) = Index(vb, 1)
  BY <1>1, <1>2, <1>3 DEF P2
<1>5. Index(va, 0) = Index(vb, 0)
  BY <1>1, <1>4 DEF P1
<1> QED BY <1>3, <1>4, <1>5, IndicesDetermine

(***************************************************************************)
(* Writing one entry.                                                      *)
(***************************************************************************)
\* Tables that do not have the frame are as before.
LEMMA TreeElsewhere ==
    ASSUME NEW m, Typing(m), NEW n, NEW f, \A h \in Frame \ {f} : n[h] = m[h],
           NEW d \in Frame, f \notin Tables(m, d)
    PROVE  /\ T1(n, d) = T1(m, d) /\ T2(n, d) = T2(m, d) /\ T3(n, d) = T3(m, d)
           /\ T4(n, d) = T4(m, d) /\ Tables(n, d) = Tables(m, d)
<1>1. \A A \in SUBSET Frame : f \notin A => ChildrenIn(n, A) = ChildrenIn(m, A)
  BY DEF ChildrenIn
<1>2. T1(n, d) = T1(m, d)
  BY <1>1, TreeType DEF T0, T1, Tables
<1>3. T2(n, d) = T2(m, d)
  BY <1>1, <1>2, TreeType DEF T2, Tables
<1>4. T3(n, d) = T3(m, d)
  BY <1>1, <1>3, TreeType DEF T3, Tables
<1>5. T4(n, d) = T4(m, d)
  BY <1>1, <1>4, TreeType DEF T4, Tables
<1> QED BY <1>2, <1>3, <1>4, <1>5 DEF Tables, T0

LEMMA PathElsewhere ==
    ASSUME NEW m, Typing(m), NEW n, NEW f, \A h \in Frame \ {f} : n[h] = m[h],
           NEW d \in Frame, f \notin Tables(m, d), f # Null, Blank(m, Null), NEW va \in VA
    PROVE  /\ P1(n, d, va) = P1(m, d, va) /\ P2(n, d, va) = P2(m, d, va)
           /\ P3(n, d, va) = P3(m, d, va) /\ P4(n, d, va) = P4(m, d, va)
<1>1. \A h, k : h \in (Frame \ {f}) \union {Fault} => StepIn(n, h, va, k) = StepIn(m, h, va, k)
  BY DEF StepIn
<1>2. CASE d = Null
  <2>1. Blank(n, Null)
    BY Sizes DEF Blank
  <2> QED BY <1>2, <2>1, BlankDirectory
<1>3. CASE d # Null
  <2>1. d \in Tables(m, d)
    BY <1>3 DEF Tables, T0
  <2>2. P1(n, d, va) = P1(m, d, va)
    BY <1>1, <2>1 DEF P1
  <2>3. P2(n, d, va) = P2(m, d, va)
    <3>1. P1(m, d, va) \in (Frame \ {f}) \union {Fault}
      BY <1>3, PathInTree, TreeType DEF Tables
    <3> QED BY <1>1, <2>2, <3>1 DEF P2
  <2>4. P3(n, d, va) = P3(m, d, va)
    <3>1. P2(m, d, va) \in (Frame \ {f}) \union {Fault}
      BY <1>3, PathInTree, TreeType DEF Tables
    <3> QED BY <1>1, <2>3, <3>1 DEF P3
  <2>5. P4(n, d, va) = P4(m, d, va)
    <3>1. P3(m, d, va) \in (Frame \ {f}) \union {Fault}
      BY <1>3, PathInTree, TreeType DEF Tables
    <3> QED BY <1>1, <2>4, <3>1 DEF P4
  <2> QED BY <2>2, <2>3, <2>4, <2>5
<1> QED BY <1>2, <1>3

\* A frame without entries is put into an empty entry of a table.
Puts(m, n, f, i, g) ==
    /\ f \in Frame /\ g \in Frame /\ i \in Entry /\ f # g
    /\ m[f][i] = Fault /\ Blank(m, g)
    /\ n = [m EXCEPT ![f][i] = g]

LEMMA PutEntry ==
    ASSUME NEW m, Typing(m), NEW n, NEW f, NEW i, NEW g, Puts(m, n, f, i, g)
    PROVE  /\ Typing(n) /\ Blank(n, g)
           /\ \A h \in Frame : \A j \in Entry :
                n[h][j] = IF h = f /\ j = i THEN g ELSE m[h][j]
           /\ \A h \in Frame \ {f} : n[h] = m[h]
           /\ \A A \in SUBSET Frame :
                /\ f \in A => ChildrenIn(n, A) = ChildrenIn(m, A) \union {g}
                /\ f \notin A => ChildrenIn(n, A) = ChildrenIn(m, A)
                /\ ChildrenIn(n, A \union {g}) = ChildrenIn(n, A)
<1>1. Typing(n)
  BY DEF Typing, Puts, Word
<1>2. \A h \in Frame : \A j \in Entry : n[h][j] = IF h = f /\ j = i THEN g ELSE m[h][j]
  BY DEF Typing, Puts
<1>3. \A h \in Frame \ {f} : n[h] = m[h]
  BY DEF Typing, Puts
<1>4. Blank(n, g)
  BY <1>2 DEF Blank, Puts
<1>5. ASSUME NEW A \in SUBSET Frame, f \in A PROVE ChildrenIn(n, A) = ChildrenIn(m, A) \union {g}
  <2>1. g # Fault /\ f \in Frame /\ i \in Entry /\ m[f][i] = Fault
    BY Sizes DEF Puts
  <2>2. ChildrenIn(n, A) \subseteq ChildrenIn(m, A) \union {g}
    BY <1>2 DEF ChildrenIn
  <2>3. g \in ChildrenIn(n, A)
    BY <1>2, <1>5, <2>1 DEF ChildrenIn
  <2>4. ASSUME NEW x \in ChildrenIn(m, A) PROVE x \in ChildrenIn(n, A)
    <3>1. PICK h \in A, j \in Entry : x = m[h][j] /\ x # Fault
      BY DEF ChildrenIn
    <3>2. n[h][j] = x
      BY <1>2, <2>1, <3>1
    <3> QED BY <3>1, <3>2 DEF ChildrenIn
  <2> QED BY <2>2, <2>3, <2>4
<1>6. ASSUME NEW A \in SUBSET Frame, f \notin A PROVE ChildrenIn(n, A) = ChildrenIn(m, A)
  BY <1>3, <1>6 DEF ChildrenIn
<1>7. ASSUME NEW A \in SUBSET Frame PROVE ChildrenIn(n, A \union {g}) = ChildrenIn(n, A)
  BY <1>4 DEF ChildrenIn, Blank
<1> QED BY <1>1, <1>2, <1>3, <1>4, <1>5, <1>6, <1>7

LEMMA PutParents ==
    ASSUME NEW m, Typing(m), NEW n, NEW f, NEW i, NEW g, Puts(m, n, f, i, g), OneParent(m),
           \A h \in Frame : \A j \in Entry : m[h][j] # g
    PROVE  /\ OneParent(n)
           /\ \A d \in Frame : NoParent(m, d) /\ d # g => NoParent(n, d)
<1>1. \A h \in Frame : \A j \in Entry : n[h][j] = IF h = f /\ j = i THEN g ELSE m[h][j]
  BY PutEntry
<1>2. OneParent(n)
  BY <1>1 DEF OneParent
<1>3. \A d \in Frame : NoParent(m, d) /\ d # g => NoParent(n, d)
  BY <1>1 DEF NoParent
<1> QED BY <1>2, <1>3

\* The new frame is on the level below the table, and the rest is as before.
LEMMA TreePut ==
    ASSUME NEW m, Typing(m), NEW n, NEW f, NEW i, NEW g, Puts(m, n, f, i, g),
           NEW d \in Frame, OneParent(m), NoParent(m, d), NEW k \in 0 .. 3, f \in TreeAt(m, d, k)
    PROVE  /\ k < 3 => g \in TreeAt(n, d, k + 1) /\ T4(n, d) = T4(m, d)
           /\ k < 3 => Tables(n, d) = Tables(m, d) \union {g}
           /\ k = 3 => Tables(n, d) = Tables(m, d) /\ T4(n, d) = T4(m, d) \union {g}
<1> DEFINE C(A) == ChildrenIn(n, A)
<1>1. \A A \in SUBSET Frame :
        /\ f \in A => C(A) = ChildrenIn(m, A) \union {g}
        /\ f \notin A => C(A) = ChildrenIn(m, A)
        /\ C(A \union {g}) = C(A)
  BY PutEntry
<1>2. /\ T0(m, d) \in SUBSET Frame /\ T1(m, d) \in SUBSET Frame /\ T2(m, d) \in SUBSET Frame
      /\ T3(m, d) \in SUBSET Frame
  BY TreeType
<1>3. T0(n, d) = T0(m, d) /\ T1(n, d) = C(T0(n, d)) /\ T2(n, d) = C(T1(n, d))
      /\ T3(n, d) = C(T2(n, d)) /\ T4(n, d) = C(T3(n, d))
  BY DEF T0, T1, T2, T3, T4
<1>4. /\ T1(m, d) = ChildrenIn(m, T0(m, d)) /\ T2(m, d) = ChildrenIn(m, T1(m, d))
      /\ T3(m, d) = ChildrenIn(m, T2(m, d)) /\ T4(m, d) = ChildrenIn(m, T3(m, d))
  BY DEF T1, T2, T3, T4
<1> HIDE DEF C
<1>c. /\ f \in T0(m, d) => C(T0(m, d)) = T1(m, d) \union {g}
      /\ f \notin T0(m, d) => C(T0(m, d)) = T1(m, d)
      /\ f \in T1(m, d) => C(T1(m, d)) = T2(m, d) \union {g}
      /\ f \notin T1(m, d) => C(T1(m, d)) = T2(m, d)
      /\ f \in T2(m, d) => C(T2(m, d)) = T3(m, d) \union {g}
      /\ f \notin T2(m, d) => C(T2(m, d)) = T3(m, d)
      /\ f \in T3(m, d) => C(T3(m, d)) = T4(m, d) \union {g}
      /\ f \notin T3(m, d) => C(T3(m, d)) = T4(m, d)
  BY <1>1, <1>2, <1>4
<1>u. /\ C(T1(m, d) \union {g}) = C(T1(m, d)) /\ C(T2(m, d) \union {g}) = C(T2(m, d))
      /\ C(T3(m, d) \union {g}) = C(T3(m, d))
  BY <1>1, <1>2
<1>5. CASE k = 0
  <2>1. f \in T0(m, d) /\ f \notin T1(m, d) /\ f \notin T2(m, d) /\ f \notin T3(m, d)
    BY <1>5, LevelsDisjoint DEF TreeAt
  <2>3. T1(n, d) = T1(m, d) \union {g}
    BY <1>3, <1>c, <2>1
  <2>2. T2(n, d) = T2(m, d) /\ T3(n, d) = T3(m, d) /\ T4(n, d) = T4(m, d)
    BY <1>3, <1>c, <1>u, <2>1, <2>3
  <2> QED BY <1>3, <1>5, <2>2, <2>3 DEF Tables, TreeAt
<1>6. CASE k = 1
  <2>1. f \in T1(m, d) /\ f \notin T0(m, d) /\ f \notin T2(m, d) /\ f \notin T3(m, d)
    BY <1>6, LevelsDisjoint DEF TreeAt
  <2>3. T1(n, d) = T1(m, d) /\ T2(n, d) = T2(m, d) \union {g}
    BY <1>3, <1>c, <2>1
  <2>2. T3(n, d) = T3(m, d) /\ T4(n, d) = T4(m, d)
    BY <1>3, <1>c, <1>u, <2>1, <2>3
  <2> QED BY <1>3, <1>6, <2>2, <2>3 DEF Tables, TreeAt
<1>7. CASE k = 2
  <2>1. f \in T2(m, d) /\ f \notin T0(m, d) /\ f \notin T1(m, d) /\ f \notin T3(m, d)
    BY <1>7, LevelsDisjoint DEF TreeAt
  <2>3. T1(n, d) = T1(m, d) /\ T2(n, d) = T2(m, d) /\ T3(n, d) = T3(m, d) \union {g}
    BY <1>3, <1>c, <2>1
  <2>2. T4(n, d) = T4(m, d)
    BY <1>3, <1>c, <1>u, <2>1, <2>3
  <2> QED BY <1>3, <1>7, <2>2, <2>3 DEF Tables, TreeAt
<1>8. CASE k = 3
  <2>1. f \in T3(m, d) /\ f \notin T0(m, d) /\ f \notin T1(m, d) /\ f \notin T2(m, d)
    BY <1>8, LevelsDisjoint DEF TreeAt
  <2>2. /\ T1(n, d) = T1(m, d) /\ T2(n, d) = T2(m, d) /\ T3(n, d) = T3(m, d)
        /\ T4(n, d) = T4(m, d) \union {g}
    BY <1>3, <1>c, <2>1
  <2> QED BY <1>3, <1>8, <2>2 DEF Tables, TreeAt
<1> QED BY <1>5, <1>6, <1>7, <1>8

\* The walk for an address goes through the new entry, or is as before.
LEMMA PathPut ==
    ASSUME NEW m, Typing(m), NEW n, NEW f, NEW i, NEW g, Puts(m, n, f, i, g),
           NEW d \in Frame \ {Null}, OneParent(m), NoParent(m, d), NEW k \in 0 .. 3,
           f \in TreeAt(m, d, k), NEW va \in VA
    PROVE  /\ k < 3 => P4(n, d, va) = P4(m, d, va)
           /\ k < 3 /\ f = PathAt(m, d, va, k) /\ Index(va, k) = i => PathAt(n, d, va, k + 1) = g
           /\ k = 3 => P4(n, d, va) = IF f = P3(m, d, va) /\ Index(va, 3) = i THEN g ELSE P4(m, d, va)
<1> DEFINE S(h, l) == StepIn(n, h, va, l)
<1>1. ASSUME NEW h \in Frame \union {Fault}, NEW l \in 0 .. 3
      PROVE  /\ h # f => S(h, l) = StepIn(m, h, va, l)
             /\ h = f /\ Index(va, l) = i => S(h, l) = g /\ StepIn(m, h, va, l) = Fault
             /\ h = f /\ Index(va, l) # i => S(h, l) = StepIn(m, h, va, l)
             /\ S(g, l) = Fault /\ S(Fault, l) = Fault /\ StepIn(m, Fault, va, l) = Fault
  <2>1. Index(va, l) \in Entry
    BY IndexType
  <2>2. f \in Frame /\ g \in Frame /\ f # Fault /\ g # Fault /\ m[f][i] = Fault
    BY Sizes DEF Puts
  <2>3. Blank(n, g) /\ \A x \in Frame : \A j \in Entry : n[x][j] = IF x = f /\ j = i THEN g ELSE m[x][j]
    BY PutEntry
  <2> QED BY <2>1, <2>2, <2>3 DEF StepIn, Blank
<1>2. /\ P1(n, d, va) = S(d, 0) /\ P2(n, d, va) = S(P1(n, d, va), 1)
      /\ P3(n, d, va) = S(P2(n, d, va), 2) /\ P4(n, d, va) = S(P3(n, d, va), 3)
  BY DEF P1, P2, P3, P4
<1>3. /\ P1(m, d, va) = StepIn(m, d, va, 0) /\ P2(m, d, va) = StepIn(m, P1(m, d, va), va, 1)
      /\ P3(m, d, va) = StepIn(m, P2(m, d, va), va, 2) /\ P4(m, d, va) = StepIn(m, P3(m, d, va), va, 3)
  BY DEF P1, P2, P3, P4
<1> HIDE DEF S
<1>4. /\ P1(m, d, va) \in Frame \union {Fault} /\ P2(m, d, va) \in Frame \union {Fault}
      /\ P3(m, d, va) \in Frame \union {Fault} /\ d \in Frame
  BY PathInTree, TreeType
<1>5. /\ d \in T0(m, d) /\ P1(m, d, va) \in T1(m, d) \union {Fault}
      /\ P2(m, d, va) \in T2(m, d) \union {Fault} /\ P3(m, d, va) \in T3(m, d) \union {Fault}
      /\ f # Fault
  BY PathInTree, Sizes DEF Puts
<1>6. CASE k = 0
  <2>1. f \in T0(m, d) /\ f \notin T1(m, d) /\ f \notin T2(m, d) /\ f \notin T3(m, d)
    BY <1>6, LevelsDisjoint DEF TreeAt
  <2>2. P1(m, d, va) # f /\ P2(m, d, va) # f /\ P3(m, d, va) # f
    BY <1>5, <2>1
  <2>3. d = f /\ Index(va, 0) = i => P1(n, d, va) = g
    BY <1>1, <1>2, <1>4
  <2>4. P4(n, d, va) = P4(m, d, va)
    BY <1>1, <1>2, <1>3, <1>4, <2>2, <2>3
  <2> QED BY <1>6, <2>3, <2>4 DEF PathAt
<1>7. CASE k = 1
  <2>1. f \in T1(m, d) /\ f \notin T0(m, d) /\ f \notin T2(m, d) /\ f \notin T3(m, d)
    BY <1>7, LevelsDisjoint DEF TreeAt
  <2>2. d # f /\ P2(m, d, va) # f /\ P3(m, d, va) # f
    BY <1>5, <2>1
  <2>3. P1(n, d, va) = P1(m, d, va)
    BY <1>1, <1>2, <1>3, <1>4, <2>2
  <2>4. P1(m, d, va) = f /\ Index(va, 1) = i => P2(n, d, va) = g
    BY <1>1, <1>2, <1>4, <2>3
  <2>5. P4(n, d, va) = P4(m, d, va)
    BY <1>1, <1>2, <1>3, <1>4, <2>2, <2>3, <2>4
  <2> QED BY <1>7, <2>4, <2>5 DEF PathAt
<1>8. CASE k = 2
  <2>1. f \in T2(m, d) /\ f \notin T0(m, d) /\ f \notin T1(m, d) /\ f \notin T3(m, d)
    BY <1>8, LevelsDisjoint DEF TreeAt
  <2>2. d # f /\ P1(m, d, va) # f /\ P3(m, d, va) # f
    BY <1>5, <2>1
  <2>3. P2(n, d, va) = P2(m, d, va)
    BY <1>1, <1>2, <1>3, <1>4, <2>2
  <2>4. P2(m, d, va) = f /\ Index(va, 2) = i => P3(n, d, va) = g
    BY <1>1, <1>2, <1>4, <2>3
  <2>5. P4(n, d, va) = P4(m, d, va)
    BY <1>1, <1>2, <1>3, <1>4, <2>2, <2>3, <2>4
  <2> QED BY <1>8, <2>4, <2>5 DEF PathAt
<1>9. CASE k = 3
  <2>1. f \in T3(m, d) /\ f \notin T0(m, d) /\ f \notin T1(m, d) /\ f \notin T2(m, d)
    BY <1>9, LevelsDisjoint DEF TreeAt
  <2>2. d # f /\ P1(m, d, va) # f /\ P2(m, d, va) # f
    BY <1>5, <2>1
  <2>3. P3(n, d, va) = P3(m, d, va)
    BY <1>1, <1>2, <1>3, <1>4, <2>2
  <2>4. P4(n, d, va) = IF f = P3(m, d, va) /\ Index(va, 3) = i THEN g ELSE P4(m, d, va)
    BY <1>1, <1>2, <1>3, <1>4, <2>3
  <2> QED BY <1>9, <2>4
<1> QED BY <1>6, <1>7, <1>8, <1>9

-----------------------------------------------------------------------------
(***************************************************************************)
(* The lists of MemoryState.                                               *)
(***************************************************************************)
LEMMA ElementsAppend ==
    ASSUME NEW S, NEW s \in Seq(S), NEW e \in S
    PROVE  /\ Elements(Append(s, e)) = Elements(s) \union {e}
           /\ Append(s, e) \in Seq(S) /\ Len(Append(s, e)) = Len(s) + 1
           /\ \A i \in 1 .. Len(s) : Append(s, e)[i] = s[i]
           /\ Append(s, e)[Len(s) + 1] = e
           /\ DOMAIN s = 1 .. Len(s) /\ DOMAIN Append(s, e) = 1 .. Len(s) + 1 /\ Len(s) \in Nat
<1>1. /\ Append(s, e) \in Seq(S) /\ Len(Append(s, e)) = Len(s) + 1
      /\ \A i \in 1 .. Len(s) : Append(s, e)[i] = s[i]
      /\ Append(s, e)[Len(s) + 1] = e
      /\ DOMAIN s = 1 .. Len(s) /\ DOMAIN Append(s, e) = 1 .. Len(s) + 1 /\ Len(s) \in Nat
  OBVIOUS
<1>2. Elements(Append(s, e)) \subseteq Elements(s) \union {e}
  BY <1>1 DEF Elements
<1>3. Elements(s) \subseteq Elements(Append(s, e)) /\ e \in Elements(Append(s, e))
  BY <1>1 DEF Elements
<1> QED BY <1>1, <1>2, <1>3

LEMMA ListTypes ==
    ASSUME Ready, NEW t \in Task
    PROVE  /\ Dir(t) \in Frame
           /\ MemoryState[t].UserPages \in Seq(UserPage)
           /\ MemoryState[t].KernelPages \in Seq(Frame)
           /\ KernelPagesOf(t) \subseteq Frame /\ UserPagesOf(t) \subseteq Page
<1>1. /\ Dir(t) \in Frame /\ MemoryState[t].UserPages \in Seq(UserPage)
      /\ MemoryState[t].KernelPages \in Seq(Frame)
  BY DEF Ready, Types, Dir
<1>2. KernelPagesOf(t) \subseteq Frame
  BY <1>1 DEF KernelPagesOf, Elements
<1>3. Elements(MemoryState[t].UserPages) \subseteq UserPage
  BY <1>1 DEF Elements
<1>4. UserPagesOf(t) \subseteq Page
  BY <1>3 DEF UserPagesOf, UserPage
<1> QED BY <1>1, <1>2, <1>4

\* A list of a task is made longer, and maybe its directory set.
TableAdded(t, f) ==
    /\ MemoryState'[t].KernelPages = Append(MemoryState[t].KernelPages, f)
    /\ MemoryState'[t].UserPages = MemoryState[t].UserPages
    /\ \A u \in Task \ {t} : MemoryState'[u] = MemoryState[u]

PageAdded(t, page, va) ==
    /\ MemoryState'[t].UserPages =
         Append(MemoryState[t].UserPages, [PhysicalAddress |-> page, VirtualAddress |-> va])
    /\ MemoryState'[t].KernelPages = MemoryState[t].KernelPages
    /\ \A u \in Task : Dir(u)' = Dir(u)
    /\ \A u \in Task \ {t} : MemoryState'[u] = MemoryState[u]

LEMMA NewDirectoryAdds ==
    ASSUME Ready, NewDirectory
    PROVE  /\ TableAdded(Cur.dst, Cur.free)
           /\ \A u \in Task : Dir(u)' = IF u = Cur.dst THEN Cur.free ELSE Dir(u)
<1> DEFINE d == Cur.dst
           a == MemoryState[d]
           f == Cur.free
<1>1. d \in Task /\ MemoryState' = [MemoryState EXCEPT
          ![d].PageGlobalDirectory = f, ![d].KernelPages = Append(@, f)]
  BY Typed DEF NewDirectory
<1> HIDE DEF d, f
<1>2. a \in [PageGlobalDirectory : Frame, UserPages : Seq(UserPage), KernelPages : Seq(Frame)]
  BY <1>1 DEF Ready, Types
<1>3. MemoryState'[d] = [a EXCEPT !.PageGlobalDirectory = f, !.KernelPages = Append(@, f)]
  BY <1>1 DEF Ready, Types
<1>4. \A u \in Task \ {d} : MemoryState'[u] = MemoryState[u]
  BY <1>1 DEF Ready, Types
<1> HIDE DEF a
<1>5. /\ MemoryState'[d].PageGlobalDirectory = f /\ MemoryState'[d].UserPages = a.UserPages
      /\ MemoryState'[d].KernelPages = Append(a.KernelPages, f)
  BY <1>2, <1>3
<1> QED BY <1>4, <1>5 DEF TableAdded, Dir, a, d, f

LEMMA NewTableAdds ==
    ASSUME Ready, NewTable
    PROVE  TableAdded(Cur.dst, Cur.free) /\ \A u \in Task : Dir(u)' = Dir(u)
  BY Typed DEF NewTable, TableAdded, Ready, Types, Dir, Recorded

LEMMA MapTableEntryAdds ==
    ASSUME Ready, MapTableEntry
    PROVE  PageAdded(Cur.dst, Cur.page, Cur.va)
  BY Typed DEF MapTableEntry, PageAdded, Ready, Types, Dir

LEMMA TableAddedSets ==
    ASSUME Ready, NEW t \in Task, NEW f \in Frame, TableAdded(t, f)
    PROVE  \A u \in Task :
             /\ KernelPagesOf(u)' = IF u = t THEN KernelPagesOf(u) \union {f} ELSE KernelPagesOf(u)
             /\ UserPagesOf(u)' = UserPagesOf(u)
<1>1. KernelPagesOf(t)' = KernelPagesOf(t) \union {f}
  BY ListTypes, ElementsAppend DEF TableAdded, KernelPagesOf
<1>2. \A u \in Task \ {t} : KernelPagesOf(u)' = KernelPagesOf(u)
  BY DEF TableAdded, KernelPagesOf
<1>3. \A u \in Task : UserPagesOf(u)' = UserPagesOf(u)
  BY DEF TableAdded, UserPagesOf
<1> QED BY <1>1, <1>2, <1>3

LEMMA PageAddedSets ==
    ASSUME Ready, NEW t \in Task, NEW page \in Page, NEW va \in VA, PageAdded(t, page, va)
    PROVE  \A u \in Task :
             /\ UserPagesOf(u)' = IF u = t THEN UserPagesOf(u) \union {page} ELSE UserPagesOf(u)
             /\ KernelPagesOf(u)' = KernelPagesOf(u)
<1> DEFINE e == [PhysicalAddress |-> page, VirtualAddress |-> va]
<1>1. e \in UserPage /\ e.PhysicalAddress = page
  BY DEF UserPage
<1>2. Elements(MemoryState'[t].UserPages) = Elements(MemoryState[t].UserPages) \union {e}
  BY <1>1, ListTypes, ElementsAppend DEF PageAdded
<1> HIDE DEF e
<1>3. UserPagesOf(t)' = UserPagesOf(t) \union {page}
  BY <1>1, <1>2 DEF UserPagesOf
<1>4. \A u \in Task \ {t} : UserPagesOf(u)' = UserPagesOf(u)
  BY DEF PageAdded, UserPagesOf
<1>5. \A u \in Task : KernelPagesOf(u)' = KernelPagesOf(u)
  BY DEF PageAdded, KernelPagesOf
<1> QED BY <1>3, <1>4, <1>5

\* The actions that leave MemoryState alone.
OtherActions ==
    \/ TestPage \/ LoadWord \/ StoreWord \/ ClearPage \/ MapDirectory \/ MapTable
    \/ MoveToUserMode \/ do_mem_abort \/ OtherDataAbort
    \/ NewUserPage \/ NoUserPage \/ PageMapped
    \/ CopyProcess \/ NewTaskStruct \/ CopyNextPage \/ CopyPage \/ PublishTask
    \/ WriteMemory \/ Preempt

LEMMA OtherActionsKeep == ASSUME OtherActions PROVE MemoryState' = MemoryState
  BY DEF OtherActions, TestPage, LoadWord, StoreWord, ClearPage, MapDirectory, MapTable,
     MoveToUserMode, do_mem_abort, OtherDataAbort, NewUserPage, NoUserPage, PageMapped, CopyProcess,
     NewTaskStruct, CopyNextPage, CopyPage, PublishTask, WriteMemory, Preempt

\* Tables are never given back, so that what holds while they have been
\* available needs to be shown from states where they have been.
LEMMA AvailableBefore ==
    ASSUME Ready, Next, TablesAvailable'
    PROVE  TablesAvailable
<1>1. CASE NewDirectory
  BY <1>1, NewDirectoryAdds, NewDirectoryEffect, TableAddedSets, Typed DEF TablesAvailable
<1>2. CASE NewTable
  BY <1>2, NewTableAdds, NewTableEffect, TableAddedSets, Typed DEF TablesAvailable
<1>3. CASE MapTableEntry
  BY <1>3, MapTableEntryAdds, MapTableEntryEffect, PageAddedSets, Typed DEF TablesAvailable
<1>4. CASE OtherActions
  BY <1>4, OtherActionsKeep DEF TablesAvailable, KernelPagesOf
<1> QED BY <1>1, <1>2, <1>3, <1>4 DEF Next, OtherActions

-----------------------------------------------------------------------------
(***************************************************************************)
(* The uses of pages.                                                      *)
(***************************************************************************)
HeldBy(a) ==
    (IF a.at \in {"clear", "got"} /\ a.free # Null THEN {a.free} ELSE {})
      \union (IF a.at # "mapped" THEN {a.page} \ {Null} ELSE {})

LEMMA HeldIs ==
    ASSUME Ready
    PROVE  \A t \in Task : Held(t) = IF t = cpu THEN HeldBy(Cur) ELSE {}
<1>1. Held(cpu) = HeldBy(Cur)
  BY DEF Held, HeldBy, Cur
<1>2. ASSUME NEW t \in Task \ {cpu} PROVE Held(t) = {}
  <2>1. act[t].at \in {"none", "user", "hang"} /\ act[t].page = Null
    BY DEF Ready, Control, Idle
  <2> QED BY <2>1 DEF Held
<1> QED BY <1>1, <1>2

LEMMA HeldAfter ==
    ASSUME Ready'
    PROVE  \A t \in Task : Held(t)' = IF t = cpu' THEN HeldBy(Cur') ELSE {}
<1>1. \A t \in Task : t = cpu' => Held(t)' = HeldBy(Cur')
  BY DEF Held, HeldBy, Cur
<1>2. ASSUME NEW t \in Task \ {cpu'} PROVE Held(t)' = {}
  <2>1. act'[t].at \in {"none", "user", "hang"} /\ act'[t].page = Null
    BY DEF Ready, Control, Idle
  <2> QED BY <2>1 DEF Held
<1> QED BY <1>1, <1>2

LEMMA UsesAre ==
    ASSUME Ready, NEW t \in Task
    PROVE  /\ Used(t, "home") = {home[t]} \ {Null} /\ Used(t, "user") = UserPagesOf(t)
           /\ Used(t, "kernel") = KernelPagesOf(t) /\ Used(t, "held") = Held(t)
  BY DEF Used

LEMMA UsedType ==
    ASSUME Ready, TablesAvailable, NEW t \in Task, NEW k \in Uses
    PROVE  Used(t, k) \subseteq Page
<1>1. {home[t]} \ {Null} \subseteq Page
  BY Sizes DEF Ready, Types
<1>2. UserPagesOf(t) \subseteq Page /\ KernelPagesOf(t) \subseteq Page
  BY ListTypes, Sizes DEF TablesAvailable
<1>3. HeldBy(Cur) \subseteq Page
  <2>1. Cur.page \in Frame
    BY Typed
  <2>2. Cur.at \in {"clear", "got"} => Cur.free \in Frame
    BY Phases, Sizes DEF Resting, WellFormed
  <2> QED BY <2>1, <2>2, Sizes DEF HeldBy
<1>4. Held(t) \subseteq Page
  BY <1>3, HeldIs
<1> QED BY <1>1, <1>2, <1>4, UsesAre DEF Uses

LEMMA SameUses ==
    ASSUME OneUse, Exact, PageInUse' = PageInUse,
           \A t \in Task : \A l \in Uses : Used(t, l)' = Used(t, l)
    PROVE  OneUse' /\ Exact'
  BY DEF OneUse, Exact

\* A page goes from one use to another.
LEMMA Transfer ==
    ASSUME OneUse, Exact, PageInUse' = PageInUse,
           NEW a \in Task, NEW j \in Uses, NEW b \in Task, NEW k \in Uses, a # b \/ j # k,
           NEW p \in Page, p \in Used(a, j),
           \A t \in Task : \A l \in Uses :
               Used(t, l)' = IF t = a /\ l = j THEN Used(t, l) \ {p}
                             ELSE IF t = b /\ l = k THEN Used(t, l) \union {p} ELSE Used(t, l)
    PROVE  OneUse' /\ Exact'
<1>1. \A t \in Task : \A l \in Uses : \A q \in Page :
        q \in Used(t, l)' <=> IF q = p THEN t = b /\ l = k ELSE q \in Used(t, l)
  BY DEF OneUse
<1>2. OneUse'
  BY <1>1 DEF OneUse
<1>3. Exact'
  BY <1>1 DEF Exact
<1> QED BY <1>2, <1>3

\* A page that had no use gets one, and is marked.
LEMMA Acquire ==
    ASSUME OneUse, Exact, NEW a \in Task, NEW j \in Uses, NEW p \in Page, p \notin PageInUse,
           PageInUse' = PageInUse \union {p},
           \A t \in Task : \A l \in Uses :
               Used(t, l)' = IF t = a /\ l = j THEN Used(t, l) \union {p} ELSE Used(t, l)
    PROVE  OneUse' /\ Exact'
<1>1. \A t \in Task : \A l \in Uses : p \notin Used(t, l)
  BY DEF Exact
<1>2. \A t \in Task : \A l \in Uses : \A q \in Page :
        q \in Used(t, l)' <=> (q = p /\ t = a /\ l = j) \/ q \in Used(t, l)
  OBVIOUS
<1>3. OneUse'
  BY <1>1, <1>2 DEF OneUse
<1>4. Exact'
  BY <1>2 DEF Exact
<1> QED BY <1>3, <1>4

\* The uses after a step, from what it does to the task's hands, the lists and the homes.
LEMMA UsesAfter ==
    ASSUME Ready, Ready', NEW t \in Task
    PROVE  /\ Used(t, "home")' = {home'[t]} \ {Null} /\ Used(t, "user")' = UserPagesOf(t)'
           /\ Used(t, "kernel")' = KernelPagesOf(t)'
           /\ Used(t, "held")' = IF t = cpu' THEN HeldBy(Cur') ELSE {}
           /\ Used(t, "held") = IF t = cpu THEN HeldBy(Cur) ELSE {}
  BY HeldIs, HeldAfter DEF Used

LEMMA QuietUses ==
    ASSUME Ready, Ready', OneUse, Exact, PageInUse' = PageInUse, home' = home,
           MemoryState' = MemoryState,
           \/ cpu' = cpu /\ HeldBy(Cur') = HeldBy(Cur)
           \/ HeldBy(Cur) = {} /\ HeldBy(Cur') = {}
    PROVE  OneUse' /\ Exact'
<1>1. \A t \in Task : \A k \in Uses : Used(t, k)' = Used(t, k)
  <2>1. ASSUME NEW t \in Task
        PROVE  /\ Used(t, "home")' = Used(t, "home") /\ Used(t, "user")' = Used(t, "user")
               /\ Used(t, "kernel")' = Used(t, "kernel") /\ Used(t, "held")' = Used(t, "held")
    <3>1. UserPagesOf(t)' = UserPagesOf(t) /\ KernelPagesOf(t)' = KernelPagesOf(t)
      BY DEF UserPagesOf, KernelPagesOf
    <3> QED BY <3>1, UsesAfter, UsesAre
  <2> QED BY <2>1 DEF Uses
<1> QED BY <1>1, SameUses

\* GetFreePage has chosen a page and marks it.
LEMMA StoreWordUses ==
    ASSUME Ready, Ready', OneUse, Exact, Choosing, StoreWord
    PROVE  OneUse' /\ Exact'
<1> DEFINE p == Cur.free
<1>1. /\ cpu' = cpu /\ p \in Page /\ p \notin PageInUse /\ PageInUse' = PageInUse \union {p}
      /\ home' = home /\ MemoryState' = MemoryState
  BY StoreWordEffect DEF Choosing, StoreWord
<1>2. HeldBy(Cur') = HeldBy(Cur) \union {p}
  BY StoreWordEffect, Sizes DEF HeldBy
<1> HIDE DEF p
<1>3. \A t \in Task : \A l \in Uses :
        Used(t, l)' = IF t = cpu /\ l = "held" THEN Used(t, l) \union {p} ELSE Used(t, l)
  BY <1>1, <1>2, UsesAfter, UsesAre, SMTT(30) DEF Uses, KernelPagesOf, UserPagesOf
<1> QED BY <1>1, <1>3, Acquire, Typed DEF Uses

\* What an operation holds is put into its place.
LEMMA NewTableUses ==
    ASSUME Ready, Ready', OneUse, Exact, Choosing, Cur.at = "got", Cur.free \in Page, Stays,
           Cur'.at = "walk", Cur'.page = Cur.page, TableAdded(Cur.dst, Cur.free),
           PageInUse' = PageInUse, home' = home
    PROVE  OneUse' /\ Exact' /\ Cur.free \notin KernelPagesOf(Cur.dst)
<1>d. PICK d \in Task, p \in Page : d = Cur.dst /\ p = Cur.free
  BY Typed
<1>1. cpu' = cpu /\ p # Cur.page /\ p # Null /\ p \in Frame
  BY <1>d, Sizes DEF Stays, Choosing
<1>2. p \in HeldBy(Cur) /\ HeldBy(Cur') = HeldBy(Cur) \ {p}
  BY <1>d, <1>1 DEF HeldBy
<1>3. \A u \in Task :
        /\ KernelPagesOf(u)' = IF u = d THEN KernelPagesOf(u) \union {p} ELSE KernelPagesOf(u)
        /\ UserPagesOf(u)' = UserPagesOf(u)
  BY <1>d, <1>1, TableAddedSets
<1>4. ASSUME NEW t \in Task, NEW l \in Uses
      PROVE  Used(t, l)' = IF t = cpu /\ l = "held" THEN Used(t, l) \ {p}
                           ELSE IF t = d /\ l = "kernel" THEN Used(t, l) \union {p} ELSE Used(t, l)
  <2>1. /\ Used(t, "home")' = Used(t, "home") /\ Used(t, "user")' = Used(t, "user")
        /\ Used(t, "kernel")' = IF t = d THEN Used(t, "kernel") \union {p} ELSE Used(t, "kernel")
        /\ Used(t, "held")' = IF t = cpu THEN Used(t, "held") \ {p} ELSE Used(t, "held")
    BY <1>1, <1>2, <1>3, UsesAfter, UsesAre
  <2> QED BY <2>1 DEF Uses
<1>5. p \in Used(cpu, "held")
  BY <1>2, HeldIs, UsesAre, Typed
<1>u. "held" \in Uses /\ "kernel" \in Uses /\ cpu \in Task
  BY Typed DEF Uses
<1>6. OneUse' /\ Exact'
  BY <1>4, <1>5, <1>u, Transfer
<1>7. p \notin Used(d, "kernel")
  BY <1>5, Typed DEF OneUse, Uses
<1> QED BY <1>6, <1>7, <1>d, UsesAre

LEMMA MapTableEntryUses ==
    ASSUME Ready, Ready', OneUse, Exact, MapTableEntry
    PROVE  OneUse' /\ Exact' /\ Cur.page \notin UserPagesOf(Cur.dst)
<1>d. PICK d \in Task, p \in Page, va \in VA : d = Cur.dst /\ p = Cur.page /\ va = Cur.va
  BY Typed, MapTableEntryEffect
<1>1. cpu' = cpu /\ p # Null /\ PageInUse' = PageInUse /\ home' = home
  BY <1>d, Sizes, MapTableEntryEffect DEF MapTableEntry
<1>2. HeldBy(Cur) = {p} /\ HeldBy(Cur') = {}
  BY <1>d, <1>1, MapTableEntryEffect DEF HeldBy
<1>3. \A u \in Task :
        /\ UserPagesOf(u)' = IF u = d THEN UserPagesOf(u) \union {p} ELSE UserPagesOf(u)
        /\ KernelPagesOf(u)' = KernelPagesOf(u)
  BY <1>d, MapTableEntryAdds, PageAddedSets
<1>4. ASSUME NEW t \in Task, NEW l \in Uses
      PROVE  Used(t, l)' = IF t = cpu /\ l = "held" THEN Used(t, l) \ {p}
                           ELSE IF t = d /\ l = "user" THEN Used(t, l) \union {p} ELSE Used(t, l)
  <2>1. /\ Used(t, "home")' = Used(t, "home") /\ Used(t, "kernel")' = Used(t, "kernel")
        /\ Used(t, "user")' = IF t = d THEN Used(t, "user") \union {p} ELSE Used(t, "user")
        /\ Used(t, "held")' = IF t = cpu THEN Used(t, "held") \ {p} ELSE Used(t, "held")
    BY <1>1, <1>2, <1>3, UsesAfter, UsesAre
  <2> QED BY <2>1 DEF Uses
<1>5. p \in Used(cpu, "held")
  BY <1>2, HeldIs, UsesAre, Typed
<1>u. "held" \in Uses /\ "user" \in Uses /\ cpu \in Task
  BY Typed DEF Uses
<1>6. OneUse' /\ Exact'
  BY <1>1, <1>4, <1>5, <1>u, Transfer, SMTT(30)
<1>7. p \notin Used(d, "user")
  BY <1>5, Typed DEF OneUse, Uses
<1> QED BY <1>6, <1>7, <1>d, UsesAre

LEMMA NewTaskStructUses ==
    ASSUME Ready, Ready', OneUse, Exact, Choosing, Untouched, NewTaskStruct
    PROVE  OneUse' /\ Exact'
<1>0. PageInUse' = PageInUse /\ MemoryState' = MemoryState /\ Cur.at = "got" /\ Cur.page = Null
  BY NewTaskStructEffect DEF NewTaskStruct
<1>1. CASE Cur.free = Null
  <2>1. HeldBy(Cur) = {}
    BY <1>0, <1>1 DEF HeldBy
  <2>2. Cur' = Idle(cpu, "user") /\ home' = home
    BY <1>1, NewTaskStructEffect, Sizes
  <2>3. HeldBy(Cur') = {}
    BY <2>2 DEF HeldBy, Idle
  <2> QED BY <1>0, <2>1, <2>2, <2>3, QuietUses
<1>2. CASE Cur.free \in Page
  <2>d. PICK d \in Task, p \in Page : d = Cur.dst /\ p = Cur.free
    BY <1>2, Typed
  <2>1. /\ cpu' = cpu /\ p # Null /\ Cur'.at = "copy" /\ Cur'.page = Null
        /\ home' = [home EXCEPT ![d] = p]
    BY <1>2, <2>d, Sizes, NewTaskStructEffect DEF Stays
  <2>2. HeldBy(Cur) = {p} /\ HeldBy(Cur') = {}
    BY <1>0, <2>d, <2>1 DEF HeldBy
  <2>3. home[d] = Null
    <3>1. ~Created(d) /\ ~Making
      BY <1>0, <2>d, NewTaskStructEffect
         DEF Ready, Control, Idle, InScope, Making, Allocating
    <3> QED BY <3>1 DEF Untouched
  <2>4. ASSUME NEW t \in Task, NEW l \in Uses
        PROVE  Used(t, l)' = IF t = cpu /\ l = "held" THEN Used(t, l) \ {p}
                             ELSE IF t = d /\ l = "home" THEN Used(t, l) \union {p} ELSE Used(t, l)
    <3>1. UserPagesOf(t)' = UserPagesOf(t) /\ KernelPagesOf(t)' = KernelPagesOf(t)
      BY <1>0 DEF UserPagesOf, KernelPagesOf
    <3>2. home'[t] = IF t = d THEN p ELSE home[t]
      BY <2>1 DEF Ready, Types
    <3>3. /\ Used(t, "kernel")' = Used(t, "kernel") /\ Used(t, "user")' = Used(t, "user")
          /\ Used(t, "home")' = IF t = d THEN Used(t, "home") \union {p} ELSE Used(t, "home")
          /\ Used(t, "held")' = IF t = cpu THEN Used(t, "held") \ {p} ELSE Used(t, "held")
      BY <2>1, <2>2, <2>3, <3>1, <3>2, UsesAfter, UsesAre
    <3> QED BY <3>3 DEF Uses
  <2>5. p \in Used(cpu, "held")
    BY <2>2, HeldIs, UsesAre, Typed
  <2>6. "held" \in Uses /\ "home" \in Uses /\ cpu \in Task
    BY Typed DEF Uses
  <2> QED BY <1>0, <2>4, <2>5, <2>6, Transfer, SMTT(30)
<1> QED BY <1>1, <1>2, NewTaskStructEffect

\* The other actions do not change what is held, listed or marked.
QuietActions ==
    \/ TestPage \/ LoadWord \/ ClearPage \/ MapDirectory \/ MapTable \/ MoveToUserMode
    \/ do_mem_abort \/ OtherDataAbort \/ NewUserPage \/ NoUserPage \/ PageMapped
    \/ CopyProcess \/ CopyNextPage \/ CopyPage \/ PublishTask \/ WriteMemory \/ Preempt

LEMMA QuietKeeps ==
    ASSUME QuietActions
    PROVE  PageInUse' = PageInUse /\ home' = home /\ MemoryState' = MemoryState
  BY DEF QuietActions, TestPage, LoadWord, ClearPage, MapDirectory, MapTable, MoveToUserMode,
     do_mem_abort, OtherDataAbort, NewUserPage, NoUserPage, PageMapped, CopyProcess,
     CopyNextPage, CopyPage, PublishTask, WriteMemory, Preempt

LEMMA PreemptIdle ==
    ASSUME Ready, Preempt
    PROVE  /\ Cur \in {Idle(cpu, "user"), Idle(cpu, "hang")}
           /\ cpu' \in Task \ {cpu} /\ Created(cpu') /\ act' = act
           /\ Cur' \in {Idle(cpu', "user"), Idle(cpu', "hang")}
<1>1. cpu' \in Task \ {cpu} /\ Created(cpu') /\ act' = act /\ ~Guarded
  BY DEF Preempt
<1>2. ~Alone
  BY <1>1 DEF Alone
<1>3. Cur \in {Idle(cpu, "user"), Idle(cpu, "hang")}
  BY <1>1, <1>2 DEF Ready, Control, InScope, Guarded
<1>4. act[cpu'] \in {Idle(cpu', "none"), Idle(cpu', "user"), Idle(cpu', "hang")}
  BY <1>1 DEF Ready, Control
<1>5. Idle(cpu', "none").at = "none"
  BY DEF Idle
<1>6. act[cpu'] \in {Idle(cpu', "user"), Idle(cpu', "hang")}
  BY <1>1, <1>4, <1>5 DEF Created
<1> QED BY <1>1, <1>3, <1>6 DEF Cur

LEMMA QuietHolds ==
    ASSUME Ready, QuietActions
    PROVE  \/ cpu' = cpu /\ HeldBy(Cur') = HeldBy(Cur)
           \/ HeldBy(Cur) = {} /\ HeldBy(Cur') = {}
<1>i. \A t \in Task : HeldBy(Idle(t, "user")) = {} /\ HeldBy(Idle(t, "hang")) = {}
                      /\ HeldBy(Idle(t, "halt")) = {}
  BY DEF HeldBy, Idle
<1>1. CASE TestPage
  BY <1>1, TestPageEffect DEF HeldBy, Stays
<1>2. CASE LoadWord
  BY <1>2, LoadWordEffect DEF HeldBy, Stays
<1>3. CASE ClearPage
  BY <1>3, ClearPageEffect DEF HeldBy, Stays
<1>4. CASE MapDirectory
  BY <1>4, MapDirectoryEffect DEF HeldBy, Stays
<1>5. CASE MapTable
  BY <1>5, MapTableEffect DEF HeldBy, Stays
<1>6. CASE MoveToUserMode
  BY <1>6, MoveToUserModeEffect DEF HeldBy, Stays
<1>7. CASE do_mem_abort
  BY <1>7, do_mem_abortEffect DEF HeldBy, Stays
<1>8. CASE NewUserPage
  BY <1>8, NewUserPageEffect, Sizes DEF HeldBy, Stays
<1>9. CASE NoUserPage
  <2>1. HeldBy(Cur) = {}
    BY <1>9, NoUserPageEffect DEF HeldBy
  <2>2. CASE Cur' = Idle(cpu, "hang") \/ Cur' = Idle(cpu, "halt")
    BY <1>i, <2>1, <2>2, Typed
  <2>3. CASE Cur'.at = "publish" /\ Cur'.page = Null
    BY <2>1, <2>3 DEF HeldBy
  <2> QED BY <1>9, <2>2, <2>3, NoUserPageEffect
<1>10. CASE PageMapped
  <2>1. HeldBy(Cur) = {}
    BY <1>10, PageMappedEffect DEF HeldBy
  <2> QED BY <1>10, <1>i, <2>1, PageMappedEffect, Typed
<1>11. CASE CopyProcess
  BY <1>11, CopyProcessEffect DEF HeldBy, Stays
<1>12. CASE CopyNextPage
  BY <1>12, CopyNextPageEffect DEF HeldBy, Stays
<1>13. CASE CopyPage
  BY <1>13, CopyPageEffect DEF HeldBy, Stays
<1>14. CASE PublishTask
  <2>1. HeldBy(Cur) = {}
    BY <1>14, PublishTaskEffect DEF HeldBy
  <2> QED BY <1>14, <1>i, <2>1, PublishTaskEffect, Typed
<1>15. CASE WriteMemory
  BY <1>15 DEF WriteMemory, Cur
<1>16. CASE Preempt
  BY <1>16, <1>i, PreemptIdle, Typed
<1>17. CASE OtherDataAbort
  <2>1. HeldBy(Cur) = {}
    BY <1>17, OtherDataAbortEffect, Phases DEF HeldBy, Resting, Idle
  <2> QED BY <1>17, <1>i, <2>1, OtherDataAbortEffect, Typed
<1> QED
  BY <1>1, <1>2, <1>3, <1>4, <1>5, <1>6, <1>7, <1>8, <1>9, <1>10, <1>11, <1>12, <1>13, <1>14,
     <1>15, <1>16, <1>17 DEF QuietActions

LEMMA TableAddedOnce ==
    ASSUME Ready, NEW d \in Task, NEW p \in Frame, TableAdded(d, p), p \notin KernelPagesOf(d),
           \A t \in Task : ListedOnce(t)
    PROVE  \A t \in Task : ListedOnce(t)'
<1>1. ASSUME NEW t \in Task \ {d} PROVE ListedOnce(t)'
  BY DEF ListedOnce, TableAdded
<1>2. ListedOnce(d)'
  <2> DEFINE s == MemoryState[d].KernelPages
             n == MemoryState'[d].KernelPages
  <2>1. /\ n = Append(s, p) /\ Len(s) \in Nat /\ DOMAIN s = 1 .. Len(s) /\ DOMAIN n = 1 .. Len(s) + 1
        /\ \A i \in 1 .. Len(s) : n[i] = s[i]
        /\ n[Len(s) + 1] = p
    BY ListTypes, ElementsAppend DEF TableAdded
  <2>2. \A i \in DOMAIN s : s[i] # p
    BY DEF KernelPagesOf, Elements
  <2>3. \A i, j \in DOMAIN s : s[i] = s[j] => i = j
    BY DEF ListedOnce
  <2> HIDE DEF s, n
  <2>4. \A i, j \in DOMAIN n : n[i] = n[j] => i = j
    BY <2>1, <2>2, <2>3
  <2>5. MemoryState'[d].UserPages = MemoryState[d].UserPages
    BY DEF TableAdded
  <2> QED BY <2>4, <2>5 DEF ListedOnce, n
<1> QED BY <1>1, <1>2

LEMMA PageAddedOnce ==
    ASSUME Ready, NEW d \in Task, NEW p \in Page, NEW va \in VA, PageAdded(d, p, va),
           p \notin UserPagesOf(d), \A t \in Task : ListedOnce(t)
    PROVE  \A t \in Task : ListedOnce(t)'
<1>1. ASSUME NEW t \in Task \ {d} PROVE ListedOnce(t)'
  BY DEF ListedOnce, PageAdded
<1>2. ListedOnce(d)'
  <2> DEFINE s == MemoryState[d].UserPages
             n == MemoryState'[d].UserPages
             e == [PhysicalAddress |-> p, VirtualAddress |-> va]
  <2>0. e \in UserPage /\ e.PhysicalAddress = p
    BY DEF UserPage
  <2>1. /\ n = Append(s, e) /\ Len(s) \in Nat /\ DOMAIN s = 1 .. Len(s) /\ DOMAIN n = 1 .. Len(s) + 1
        /\ \A i \in 1 .. Len(s) : n[i] = s[i]
        /\ n[Len(s) + 1] = e
    BY <2>0, ListTypes, ElementsAppend DEF PageAdded
  <2>2. \A i \in DOMAIN s : s[i].PhysicalAddress # p
    BY DEF UserPagesOf, Elements
  <2>3. \A i, j \in DOMAIN s : s[i].PhysicalAddress = s[j].PhysicalAddress => i = j
    BY DEF ListedOnce
  <2> HIDE DEF s, n, e
  <2>4. \A i, j \in DOMAIN n : n[i].PhysicalAddress = n[j].PhysicalAddress => i = j
    BY <2>0, <2>1, <2>2, <2>3
  <2>5. MemoryState'[d].KernelPages = MemoryState[d].KernelPages
    BY DEF PageAdded
  <2> QED BY <2>4, <2>5 DEF ListedOnce, n
<1> QED BY <1>1, <1>2

LEMMA BooksStep ==
    ASSUME Ready, Ready', Next, TablesAvailable', Books, Choosing, Untouched
    PROVE  Books'
<1> USE DEF Books
<1>1. CASE QuietActions
  <2>1. OneUse' /\ Exact'
    BY <1>1, QuietUses, QuietKeeps, QuietHolds
  <2>2. \A t \in Task : ListedOnce(t)'
    BY <1>1, QuietKeeps DEF ListedOnce
  <2> QED BY <2>1, <2>2
<1>2. CASE StoreWord
  <2>1. \A t \in Task : ListedOnce(t)'
    BY <1>2 DEF StoreWord, ListedOnce
  <2> QED BY <1>2, <2>1, StoreWordUses
<1>3. CASE NewTaskStruct
  <2>1. \A t \in Task : ListedOnce(t)'
    BY <1>3 DEF NewTaskStruct, ListedOnce
  <2> QED BY <1>3, <2>1, NewTaskStructUses
<1>4. CASE MapTableEntry
  <2>d. PICK d \in Task, p \in Page, va \in VA : d = Cur.dst /\ p = Cur.page /\ va = Cur.va
    BY <1>4, Typed, MapTableEntryEffect
  <2>1. PageAdded(d, p, va) /\ p \notin UserPagesOf(d)
    BY <1>4, <2>d, MapTableEntryAdds, MapTableEntryUses
  <2> QED BY <1>4, <2>1, MapTableEntryUses, PageAddedOnce
<1>5. CASE NewDirectory \/ NewTable
  <2>d. PICK d \in Task, p \in Frame : d = Cur.dst /\ p = Cur.free
    BY <1>5, Typed, NewDirectoryEffect, NewTableEffect
  <2>1. /\ TableAdded(d, p) /\ PageInUse' = PageInUse /\ home' = home
        /\ Cur.at = "got" /\ Stays /\ Cur'.at = "walk" /\ Cur'.page = Cur.page
    BY <1>5, <2>d, NewDirectoryEffect, NewTableEffect, NewDirectoryAdds, NewTableAdds
       DEF NewDirectory, NewTable
  <2>2. p \in Page
    <3>1. p \in KernelPagesOf(d)'
      BY <2>1, TableAddedSets
    <3> QED BY <3>1, Sizes DEF TablesAvailable
  <2>3. OneUse' /\ Exact' /\ p \notin KernelPagesOf(d)
    BY <2>1, <2>2, <2>d, NewTableUses
  <2> QED BY <2>1, <2>3, TableAddedOnce
<1> QED BY <1>1, <1>2, <1>3, <1>4, <1>5 DEF Next, QuietActions

-----------------------------------------------------------------------------
(***************************************************************************)
(* The page that GetFreePage chooses; tasks that are not made yet; data.   *)
(***************************************************************************)
LEMMA OthersLeave ==
    ASSUME Ready, Next, ~TestPage, ~LoadWord, ~StoreWord, ~ClearPage
    PROVE  Cur'.at \notin {"load", "store", "clear", "got"}
<1>i. \A t \in Task : Idle(t, "user").at = "user" /\ Idle(t, "hang").at = "hang"
                      /\ Idle(t, "halt").at = "halt"
  BY DEF Idle
<1>1. CASE MapDirectory \/ NewDirectory \/ MapTable \/ NewTable \/ MapTableEntry
  BY <1>1, MapDirectoryEffect, NewDirectoryEffect, MapTableEffect, NewTableEffect,
     MapTableEntryEffect
<1>2. CASE MoveToUserMode \/ do_mem_abort \/ NewUserPage \/ CopyProcess \/ CopyNextPage \/ CopyPage
  BY <1>2, MoveToUserModeEffect, do_mem_abortEffect, NewUserPageEffect, CopyProcessEffect,
     CopyNextPageEffect, CopyPageEffect
<1>3. CASE OtherDataAbort \/ NoUserPage \/ PageMapped \/ NewTaskStruct \/ PublishTask
  BY <1>3, <1>i, Typed, OtherDataAbortEffect, NoUserPageEffect, PageMappedEffect,
     NewTaskStructEffect, PublishTaskEffect
<1>4. CASE WriteMemory
  BY <1>4 DEF WriteMemory, Cur
<1>5. CASE Preempt
  BY <1>5, <1>i, PreemptIdle
<1> QED BY <1>1, <1>2, <1>3, <1>4, <1>5 DEF Next

LEMMA ChoosingStep ==
    ASSUME Ready, Next, Books, Choosing
    PROVE  Choosing'
<1>1. CASE TestPage
  BY <1>1, TestPageEffect DEF Choosing, TestPage
<1>2. CASE LoadWord
  BY <1>2, LoadWordEffect DEF Choosing, LoadWord
<1>3. CASE StoreWord
  <2>1. Cur.page # Null => Cur.page \in PageInUse
    <3>1. Cur.page # Null => Cur.page \in Page /\ Cur.page \in HeldBy(Cur)
      BY <1>3, StoreWordEffect, Typed, Sizes DEF HeldBy
    <3>2. Cur.page # Null => Cur.page \in Used(cpu, "held")
      BY <3>1, HeldIs, UsesAre, Typed
    <3> QED BY <3>1, <3>2, Typed DEF Books, Exact, Uses
  <2>2. Cur.free \in Page /\ Cur.free \notin PageInUse /\ Cur.free # Null
    BY <1>3, StoreWordEffect, Sizes DEF Choosing
  <2> QED BY <1>3, <2>1, <2>2, StoreWordEffect DEF Choosing
<1>4. CASE ClearPage
  BY <1>4, ClearPageEffect DEF Choosing
<1>5. CASE ~TestPage /\ ~LoadWord /\ ~StoreWord /\ ~ClearPage
  BY <1>5, OthersLeave DEF Choosing
<1> QED BY <1>1, <1>2, <1>3, <1>4, <1>5

\* Which tasks exist, and who is being made.
LEMMA CreatedAfter ==
    ASSUME Ready, Ready', Next, NEW t \in Task, ~Created(t)'
    PROVE  /\ ~Created(t) /\ t # cpu /\ t # cpu'
           /\ Making /\ Cur.dst = t => Making' /\ Cur'.dst = t
<1>0. Cur.at # "none" /\ Cur'.at # "none"
  BY DEF Ready, Control, Idle, WellFormed, Allocating
<1>1. t # cpu'
  BY <1>0 DEF Created, Cur
<1>s. Stays => t # cpu /\ ~Created(t)
  BY <1>1, Typed DEF Stays, Created
<1>3. CASE TestPage \/ LoadWord \/ StoreWord \/ ClearPage
  <2>1. Stays /\ Continues(Cur, Cur') /\ SameUse(Cur, Cur')
    BY <1>3, TestPageEffect, LoadWordEffect, StoreWordEffect, ClearPageEffect
  <2>2. Cur.at \in {"test", "load", "store", "clear"}
    BY <1>3, TestPageEffect, LoadWordEffect, StoreWordEffect, ClearPageEffect
  <2>3. Making /\ Cur.dst = t => Making' /\ Cur'.dst = t
    BY <2>1, <2>2 DEF Making, Continues, SameUse, Allocating, Cur
  <2> QED BY <1>1, <1>s, <2>1, <2>3
<1>4. CASE MapDirectory \/ NewDirectory \/ MapTable \/ NewTable \/ MapTableEntry \/ NewUserPage
  <2>1. /\ Stays /\ Continues(Cur, Cur')
        /\ Cur'.at \in {"walk", "mapped", "map"} \/ Cur'.use \in {"directory", "table"}
    BY <1>4, MapDirectoryEffect, NewDirectoryEffect, MapTableEffect, NewTableEffect,
       MapTableEntryEffect, NewUserPageEffect
  <2>3. Making /\ Cur.dst = t => Making' /\ Cur'.dst = t
    BY <2>1 DEF Making, Continues, Allocating, Cur
  <2> QED BY <1>1, <1>s, <2>1, <2>3
<1>5. CASE MoveToUserMode \/ do_mem_abort \/ OtherDataAbort \/ PageMapped \/ CopyProcess
  <2>1. Stays /\ Cur.op # "fork"
    BY <1>5, MoveToUserModeEffect, do_mem_abortEffect, OtherDataAbortEffect, PageMappedEffect, CopyProcessEffect, Phases
       DEF Resting, Idle
  <2> QED BY <1>1, <1>s, <2>1 DEF Making
<1>6. CASE NoUserPage
  <2>1. Stays
    BY <1>6, NoUserPageEffect
  <2>2. Cur.op = "fork" => Cur'.op = "fork" /\ Cur'.dst = Cur.dst /\ Cur'.at = "publish"
    BY <1>6, NoUserPageEffect DEF Continues
  <2>3. Making /\ Cur.dst = t => Making' /\ Cur'.dst = t
    BY <2>2 DEF Making, Allocating, Cur
  <2> QED BY <1>1, <1>s, <2>1, <2>3
<1>7. CASE NewTaskStruct
  <2>1. Stays /\ ~Making
    BY <1>7, NewTaskStructEffect DEF Making, Allocating
  <2> QED BY <1>1, <1>s, <2>1
<1>8. CASE CopyNextPage \/ CopyPage
  <2>1. Stays
    BY <1>8, CopyNextPageEffect, CopyPageEffect
  <2>2. /\ Cur'.op = "fork" /\ Cur'.dst = Cur.dst
        /\ Cur'.at \in {"publish", "copy"} \/ Cur'.use = "page"
    BY <1>8, CopyNextPageEffect, CopyPageEffect
  <2>3. Making /\ Cur.dst = t => Making' /\ Cur'.dst = t
    BY <2>2 DEF Making, Allocating, Cur
  <2> QED BY <1>1, <1>s, <2>1, <2>3
<1>9. CASE PublishTask
  <2>1. t # Cur.dst /\ t # cpu
    <3>1. Idle(Cur.dst, "user").at = "user"
      BY DEF Idle
    <3> QED BY <1>1, <1>9, <3>1, PublishTaskEffect DEF Created
  <2>2. act'[t] = act[t]
    BY <1>9, <2>1, PublishTaskEffect
  <2> QED BY <1>1, <2>1, <2>2 DEF Created
<1>10. CASE WriteMemory
  BY <1>1, <1>10 DEF WriteMemory, Created, Making, Allocating, Cur
<1>11. CASE Preempt
  <2>1. act' = act /\ Cur.op = "none"
    BY <1>11, PreemptIdle DEF Idle
  <2>2. t # cpu
    BY <1>0, <2>1 DEF Created, Cur
  <2> QED BY <1>1, <2>1, <2>2 DEF Created, Making
<1> QED
  BY <1>3, <1>4, <1>5, <1>6, <1>7, <1>8, <1>9, <1>10, <1>11 DEF Next

LEMMA NoMove ==
    ASSUME Ready, Next
    PROVE  Cur'.at # "move"
<1>i. \A t \in Task : Idle(t, "user").at = "user" /\ Idle(t, "hang").at = "hang"
                      /\ Idle(t, "halt").at = "halt"
  BY DEF Idle
<1>1. CASE TestPage \/ LoadWord \/ StoreWord \/ ClearPage \/ NewUserPage
  BY <1>1, TestPageEffect, LoadWordEffect, StoreWordEffect, ClearPageEffect, NewUserPageEffect
<1>2. CASE MapDirectory \/ NewDirectory \/ MapTable \/ NewTable \/ MapTableEntry
  BY <1>2, MapDirectoryEffect, NewDirectoryEffect, MapTableEffect, NewTableEffect,
     MapTableEntryEffect
<1>3. CASE MoveToUserMode \/ do_mem_abort \/ CopyProcess \/ CopyNextPage \/ CopyPage
  BY <1>3, MoveToUserModeEffect, do_mem_abortEffect, CopyProcessEffect, CopyNextPageEffect,
     CopyPageEffect
<1>4. CASE OtherDataAbort \/ NoUserPage \/ PageMapped \/ NewTaskStruct \/ PublishTask
  BY <1>4, <1>i, Typed, OtherDataAbortEffect, NoUserPageEffect, PageMappedEffect,
     NewTaskStructEffect, PublishTaskEffect
<1>5. CASE WriteMemory
  BY <1>5 DEF WriteMemory, Cur
<1>6. CASE Preempt
  BY <1>6, <1>i, PreemptIdle
<1> QED BY <1>1, <1>2, <1>3, <1>4, <1>5, <1>6 DEF Next

\* The task whose memory an operation changes.
LEMMA Target ==
    ASSUME Ready, ~Resting(Cur), Cur.at \in {"walk", "mapped"} \/ Cur.use \in {"directory", "table"}
    PROVE  Created(Cur.dst) \/ Making
<1>1. Cur.op \in {"move", "fault"} => Cur.dst = cpu
  BY Phases DEF InScope
<1>2. Created(cpu)
  BY DEF Resting, Created, Cur
<1> QED BY <1>1, <1>2, Phases DEF Making, Allocating

LEMMA UntouchedStep ==
    ASSUME Ready, Ready', Next, Untouched
    PROVE  Untouched'
<1> SUFFICES ASSUME NEW t \in Task, ~Created(t)', ~(Making' /\ Cur'.dst = t)
             PROVE  /\ home'[t] = Null /\ MemoryState'[t].PageGlobalDirectory = Null
                    /\ MemoryState'[t].UserPages = << >> /\ MemoryState'[t].KernelPages = << >>
  BY NoMove DEF Untouched, Dir
<1>1. ~Created(t) /\ t # cpu /\ ~(Making /\ Cur.dst = t)
  BY CreatedAfter
<1>2. /\ home[t] = Null /\ MemoryState[t].PageGlobalDirectory = Null
      /\ MemoryState[t].UserPages = << >> /\ MemoryState[t].KernelPages = << >>
  BY <1>1 DEF Untouched, Dir
<1>3. home'[t] = home[t]
  <2>1. CASE NewTaskStruct
    <3>1. CASE Cur.free \in Page
      <4>1. Cur'.op = "fork" /\ Cur'.dst = Cur.dst /\ Cur'.at = "copy"
        BY <2>1, <3>1, NewTaskStructEffect, Sizes, Phases DEF Continues, Resting
      <4>2. Cur.dst # t
        BY <4>1 DEF Making, Allocating, Cur
      <4> QED BY <2>1, <3>1, <4>2, NewTaskStructEffect DEF Ready, Types
    <3> QED BY <2>1, <3>1, NewTaskStructEffect
  <2>2. CASE QuietActions
    BY <2>2, QuietKeeps
  <2>3. CASE StoreWord \/ NewDirectory \/ NewTable \/ MapTableEntry
    BY <2>3 DEF StoreWord, NewDirectory, NewTable, MapTableEntry
  <2> QED BY <2>1, <2>2, <2>3 DEF Next, QuietActions
<1>4. MemoryState'[t] = MemoryState[t]
  <2>1. CASE OtherActions
    BY <2>1, OtherActionsKeep
  <2>2. CASE NewDirectory \/ NewTable \/ MapTableEntry
    <3>1. ~Resting(Cur) /\ (Cur.at \in {"walk", "mapped"} \/ Cur.use \in {"directory", "table"})
      BY <2>2, NewDirectoryEffect, NewTableEffect, MapTableEntryEffect DEF Resting
    <3>2. Cur.dst # t
      BY <1>1, <3>1, Target
    <3> QED BY <2>2, <3>2, NewDirectoryAdds, NewTableAdds, MapTableEntryAdds
            DEF TableAdded, PageAdded
  <2> QED BY <2>1, <2>2 DEF Next, OtherActions
<1> QED BY <1>2, <1>3, <1>4

-----------------------------------------------------------------------------
(***************************************************************************)
(* The trees.                                                              *)
(***************************************************************************)
LEMMA TranslateIs == ASSUME NEW t, NEW va PROVE Translate(t, va) = P4(memory, Dir(t), va)
  BY DEF Translate, Step, P4, P3, P2, P1, StepIn, Dir

LEMMA MemoryTyping == ASSUME Ready PROVE Typing(memory)
  BY DEF Ready, Types, Typing

\* The null pointer is a directory without entries.
LEMMA NullBlank ==
    ASSUME Ready, TablesAvailable, Trees
    PROVE  Blank(memory, Null)
  BY Sizes DEF Trees, TablesAvailable

LEMMA NullTree ==
    ASSUME NEW m
    PROVE  Tables(m, Null) = {} /\ T4(m, Null) = {}
  BY DEF Tables, T0, T1, T2, T3, T4, ChildrenIn

\* What an operation holds is in no table.
LEMMA HeldFree ==
    ASSUME Ready, OneUse, NEW g \in Page, g \in HeldBy(Cur)
    PROVE  \A t \in Task : g \notin KernelPagesOf(t) /\ g \notin UserPagesOf(t)
<1>1. g \in Used(cpu, "held") /\ cpu \in Task
  BY HeldIs, UsesAre, Typed
<1>2. \A t \in Task : g \notin Used(t, "kernel") /\ g \notin Used(t, "user")
  BY <1>1 DEF OneUse, Uses
<1> QED BY <1>2, UsesAre

LEMMA TreeFree ==
    ASSUME Ready, TablesAvailable, Trees, NEW g \in Page,
           \A t \in Task : g \notin KernelPagesOf(t) /\ g \notin UserPagesOf(t)
    PROVE  /\ Blank(memory, g)
           /\ \A h \in Frame : \A j \in Entry : memory[h][j] # g
           /\ \A t \in Task : Dir(t) # g
<1>1. Blank(memory, g)
  BY Sizes DEF Trees
<1>2. ASSUME NEW h \in Frame, NEW j \in Entry, memory[h][j] = g PROVE FALSE
  <2>1. g # Fault
    BY Sizes
  <2>2. PICK t \in Task : h \in KernelPagesOf(t)
    BY <1>2, <2>1 DEF Trees, Blank
  <2>3. h \in Tables(memory, Dir(t))
    BY <2>2 DEF Trees
  <2>4. g \in T1(memory, Dir(t)) \union T2(memory, Dir(t)) \union T3(memory, Dir(t)) \union T4(memory, Dir(t))
    BY <1>2, <2>1, <2>3 DEF Tables, T1, T2, T3, T4, ChildrenIn
  <2>5. g \in KernelPagesOf(t) \union UserPagesOf(t)
    BY <2>4 DEF Trees, Tables
  <2> QED BY <2>5
<1>3. ASSUME NEW t \in Task, Dir(t) = g PROVE FALSE
  <2>1. g \in Tables(memory, Dir(t))
    BY <1>3, Sizes DEF Tables, T0
  <2> QED BY <2>1 DEF Trees
<1> QED BY <1>1, <1>2, <1>3

\* A table is in the tree of one task.
LEMMA TreesApart ==
    ASSUME Ready, TablesAvailable, OneUse, Trees, NEW d \in Task, NEW f \in Tables(memory, Dir(d))
    PROVE  /\ f \in Page /\ f \in KernelPagesOf(d)
           /\ \A t \in Task \ {d} : f \notin Tables(memory, Dir(t))
<1>1. f \in KernelPagesOf(d)
  BY DEF Trees
<1>2. f \in Page
  BY <1>1, ListTypes, Sizes DEF TablesAvailable
<1>3. \A t \in Task \ {d} : f \notin KernelPagesOf(t)
  BY <1>1, <1>2, UsesAre DEF OneUse, Uses
<1> QED BY <1>1, <1>2, <1>3 DEF Trees

LEMMA TreeAtTables ==
    ASSUME NEW m, NEW d, NEW k \in 0 .. 3
    PROVE  TreeAt(m, d, k) \subseteq Tables(m, d) /\ (TreeAt(m, d, k) # {} => d # Null)
<1>1. TreeAt(m, d, k) \subseteq Tables(m, d)
  BY DEF TreeAt, Tables
<1> QED BY <1>1, NullTree

\* What MapPage puts into a table: a page that it holds.
Putting(d, k, f, i, g) ==
    /\ d \in Task /\ k \in 0 .. 3 /\ f \in TreeAt(memory, Dir(d), k) /\ i \in Entry
    /\ g \in Page /\ g \in HeldBy(Cur) /\ memory[f][i] = Fault
    /\ memory' = [memory EXCEPT ![f][i] = g]
    /\ \A t \in Task : Dir(t)' = Dir(t)
    /\ \A t \in Task :
         /\ KernelPagesOf(t)' = IF t = d /\ k < 3 THEN KernelPagesOf(t) \union {g} ELSE KernelPagesOf(t)
         /\ UserPagesOf(t)' = IF t = d /\ k = 3 THEN UserPagesOf(t) \union {g} ELSE UserPagesOf(t)

LEMMA PuttingPuts ==
    ASSUME Ready, TablesAvailable, OneUse, Trees,
           NEW d, NEW k, NEW f, NEW i, NEW g, Putting(d, k, f, i, g)
    PROVE  /\ Puts(memory, memory', f, i, g) /\ \A h \in Frame : \A j \in Entry : memory[h][j] # g
           /\ f \in Page /\ f \in KernelPagesOf(d) /\ \A t \in Task \ {d} : f \notin Tables(memory, Dir(t))
           /\ Dir(d) # Null /\ \A t \in Task : Dir(t) # g
<1>1. /\ d \in Task /\ k \in 0 .. 3 /\ f \in TreeAt(memory, Dir(d), k) /\ i \in Entry
      /\ g \in Page /\ g \in HeldBy(Cur) /\ memory[f][i] = Fault
      /\ memory' = [memory EXCEPT ![f][i] = g]
  BY DEF Putting
<1>2. \A t \in Task : g \notin KernelPagesOf(t) /\ g \notin UserPagesOf(t)
  BY <1>1, HeldFree
<1>3. /\ Blank(memory, g) /\ \A h \in Frame : \A j \in Entry : memory[h][j] # g
      /\ \A t \in Task : Dir(t) # g
  BY <1>1, <1>2, TreeFree
<1>4. f \in Tables(memory, Dir(d)) /\ Dir(d) # Null
  BY <1>1, TreeAtTables
<1>5. /\ f \in Page /\ f \in KernelPagesOf(d)
      /\ \A t \in Task \ {d} : f \notin Tables(memory, Dir(t))
  BY <1>1, <1>4, TreesApart
<1>6. f # g /\ f \in Frame /\ g \in Frame
  BY <1>1, <1>2, <1>5, Sizes
<1>7. Puts(memory, memory', f, i, g)
  BY <1>1, <1>3, <1>6 DEF Puts
<1> QED BY <1>3, <1>4, <1>5, <1>7

LEMMA PutTrees ==
    ASSUME Ready, TablesAvailable, OneUse, Trees,
           NEW d, NEW k, NEW f, NEW i, NEW g, Putting(d, k, f, i, g)
    PROVE  Trees'
<1>1. /\ Puts(memory, memory', f, i, g) /\ \A h \in Frame : \A j \in Entry : memory[h][j] # g
      /\ f \in Page /\ f \in KernelPagesOf(d)
      /\ \A t \in Task \ {d} : f \notin Tables(memory, Dir(t))
      /\ Dir(d) # Null /\ \A t \in Task : Dir(t) # g
  BY PuttingPuts
<1>2. /\ d \in Task /\ k \in 0 .. 3 /\ f \in TreeAt(memory, Dir(d), k) /\ g \in Page
      /\ \A t \in Task : Dir(t)' = Dir(t)
      /\ \A t \in Task :
         /\ KernelPagesOf(t)' = IF t = d /\ k < 3 THEN KernelPagesOf(t) \union {g} ELSE KernelPagesOf(t)
         /\ UserPagesOf(t)' = IF t = d /\ k = 3 THEN UserPagesOf(t) \union {g} ELSE UserPagesOf(t)
  BY DEF Putting
<1>3. /\ Typing(memory) /\ OneParent(memory) /\ \A t \in Task : NoParent(memory, Dir(t)) /\ Dir(t) \in Frame
  BY MemoryTyping, ListTypes DEF Trees
<1>4. Blank(memory', g) /\ \A h \in Frame \ {f} : memory'[h] = memory[h]
  BY <1>1, <1>3, PutEntry
<1>5. OneParent(memory') /\ \A t \in Task : NoParent(memory', Dir(t))
  BY <1>1, <1>3, PutParents
<1>6. ASSUME NEW h \in Frame, \A t \in Task : h \notin KernelPagesOf(t)' PROVE Blank(memory', h)
  <2>1. \A t \in Task : h \notin KernelPagesOf(t)
    BY <1>2, <1>6
  <2>2. h # f /\ Blank(memory, h)
    BY <1>1, <1>2, <2>1 DEF Trees
  <2> QED BY <1>4, <2>2 DEF Blank
<1>7. ASSUME NEW t \in Task \ {d}
      PROVE  KernelPagesOf(t)' = Tables(memory', Dir(t)) /\ UserPagesOf(t)' = T4(memory', Dir(t))
  <2>1. Tables(memory', Dir(t)) = Tables(memory, Dir(t)) /\ T4(memory', Dir(t)) = T4(memory, Dir(t))
    BY <1>1, <1>3, <1>4, TreeElsewhere
  <2> QED BY <1>2, <2>1 DEF Trees
<1>8. KernelPagesOf(d)' = Tables(memory', Dir(d)) /\ UserPagesOf(d)' = T4(memory', Dir(d))
  <2>1. /\ k < 3 => T4(memory', Dir(d)) = T4(memory, Dir(d))
        /\ k < 3 => Tables(memory', Dir(d)) = Tables(memory, Dir(d)) \union {g}
        /\ k = 3 => Tables(memory', Dir(d)) = Tables(memory, Dir(d))
        /\ k = 3 => T4(memory', Dir(d)) = T4(memory, Dir(d)) \union {g}
    BY <1>1, <1>2, <1>3, TreePut
  <2>2. KernelPagesOf(d) = Tables(memory, Dir(d)) /\ UserPagesOf(d) = T4(memory, Dir(d))
    BY <1>2 DEF Trees
  <2>3. k < 3 \/ k = 3
    BY <1>2
  <2> QED BY <1>2, <2>1, <2>2, <2>3
<1> QED BY <1>2, <1>5, <1>6, <1>7, <1>8 DEF Trees

\* NewTable and MapTableEntry put one.
LEMMA NewTablePuts ==
    ASSUME Ready, TablesAvailable', NewTable, Walking
    PROVE  Putting(Cur.dst, Cur.level, Cur.table, Index(Cur.va, Cur.level), Cur.free)
<1>d. PICK d \in Task, g \in Frame : d = Cur.dst /\ g = Cur.free
  BY Typed, NewTableEffect
<1>1. TableAdded(d, g) /\ \A t \in Task : Dir(t)' = Dir(t)
  BY <1>d, NewTableAdds
<1>2. \A u \in Task :
        /\ KernelPagesOf(u)' = IF u = d THEN KernelPagesOf(u) \union {g} ELSE KernelPagesOf(u)
        /\ UserPagesOf(u)' = UserPagesOf(u)
  BY <1>1, TableAddedSets
<1>3. g \in Page /\ g # Null
  BY <1>2, Sizes DEF TablesAvailable
<1>4. g \in HeldBy(Cur)
  BY <1>d, <1>3, NewTableEffect DEF HeldBy
<1>5. /\ Cur.level \in 0 .. 2 /\ Cur.table \in TreeAt(memory, Dir(Cur.dst), Cur.level)
      /\ memory[Cur.table][Index(Cur.va, Cur.level)] = Fault
  BY NewTableEffect DEF Walking, InTable, Allocating
<1>6. Index(Cur.va, Cur.level) \in Entry
  BY IndexType, Typed
<1>7. memory' = [memory EXCEPT ![Cur.table][Index(Cur.va, Cur.level)] = g]
  BY <1>d DEF NewTable
<1>8. Cur.level \in 0 .. 3 /\ Cur.level < 3 /\ Cur.level # 3
  BY <1>5
<1> QED BY <1>d, <1>1, <1>2, <1>3, <1>4, <1>5, <1>6, <1>7, <1>8 DEF Putting

LEMMA MapTableEntryPuts ==
    ASSUME Ready, MapTableEntry, Walking
    PROVE  Putting(Cur.dst, 3, Cur.table, Index(Cur.va, 3), Cur.page)
<1>d. PICK d \in Task, g \in Page, va \in VA : d = Cur.dst /\ g = Cur.page /\ va = Cur.va
  BY Typed, MapTableEntryEffect
<1>1. PageAdded(d, g, va) /\ \A t \in Task : Dir(t)' = Dir(t)
  BY <1>d, MapTableEntryAdds DEF PageAdded
<1>2. \A u \in Task :
        /\ UserPagesOf(u)' = IF u = d THEN UserPagesOf(u) \union {g} ELSE UserPagesOf(u)
        /\ KernelPagesOf(u)' = KernelPagesOf(u)
  BY <1>1, PageAddedSets
<1>3. g \in HeldBy(Cur)
  BY <1>d, MapTableEntryEffect, Sizes DEF HeldBy
<1>4. /\ Cur.level = 3 /\ Cur.at = "walk" /\ Cur.op # "none" /\ Cur.table \in Frame
  BY MapTableEntryEffect, Typed, Phases DEF Resting
<1>5. /\ Cur.table = P3(memory, Dir(d), va) /\ Cur.table \in TreeAt(memory, Dir(d), 3)
      /\ P4(memory, Dir(d), va) = Fault
  BY <1>d, <1>4 DEF Walking, InTable, Mapping, PathAt
<1>6. memory[Cur.table][Index(Cur.va, 3)] = Fault
  BY <1>d, <1>4, <1>5, Sizes DEF P4, StepIn
<1>7. Index(Cur.va, 3) \in Entry
  BY IndexType, Typed
<1>8. memory' = [memory EXCEPT ![Cur.table][Index(Cur.va, 3)] = g]
  BY <1>d DEF MapTableEntry
<1> QED BY <1>d, <1>1, <1>2, <1>3, <1>5, <1>6, <1>7, <1>8 DEF Putting

LEMMA ClearPageKeeps ==
    ASSUME Ready, TablesAvailable, OneUse, Trees, ClearPage
    PROVE  memory' = memory
<1>1. Cur.free \in Page /\ Cur.free \in HeldBy(Cur) /\ Cur.free \in Frame
  BY ClearPageEffect, Sizes DEF HeldBy
<1>2. Blank(memory, Cur.free)
  BY <1>1, HeldFree, TreeFree
<1>3. memory \in [Frame -> [Entry -> Word]]
  BY DEF Ready, Types
<1>4. memory[Cur.free] = [i \in Entry |-> Fault]
  BY <1>1, <1>2, <1>3 DEF Blank
<1>5. memory' = [memory EXCEPT ![Cur.free] = [i \in Entry |-> Fault]]
  BY DEF ClearPage, Entry
<1> QED BY <1>1, <1>3, <1>4, <1>5

\* A directory is taken: a frame that is in no tree.
LEMMA NewDirectoryTakes ==
    ASSUME Ready, TablesAvailable, TablesAvailable', OneUse, Trees, Walking, NewDirectory
    PROVE  /\ Cur.free \in Page /\ Dir(Cur.dst) = Null /\ Blank(memory, Cur.free)
           /\ NoParent(memory, Cur.free) /\ memory' = memory
           /\ KernelPagesOf(Cur.dst) = {} /\ UserPagesOf(Cur.dst) = {}
           /\ \A t \in Task :
                /\ KernelPagesOf(t)' = IF t = Cur.dst THEN {Cur.free} ELSE KernelPagesOf(t)
                /\ UserPagesOf(t)' = UserPagesOf(t)
                /\ Dir(t)' = IF t = Cur.dst THEN Cur.free ELSE Dir(t)
<1>d. PICK d \in Task, g \in Frame : d = Cur.dst /\ g = Cur.free
  BY Typed, NewDirectoryEffect
<1>1. TableAdded(d, g) /\ \A t \in Task : Dir(t)' = IF t = d THEN g ELSE Dir(t)
  BY <1>d, NewDirectoryAdds
<1>2. \A u \in Task :
        /\ KernelPagesOf(u)' = IF u = d THEN KernelPagesOf(u) \union {g} ELSE KernelPagesOf(u)
        /\ UserPagesOf(u)' = UserPagesOf(u)
  BY <1>1, TableAddedSets
<1>3. g \in Page /\ g # Null
  BY <1>2, Sizes DEF TablesAvailable
<1>4. g \in HeldBy(Cur)
  BY <1>d, <1>3, NewDirectoryEffect DEF HeldBy
<1>5. Blank(memory, g) /\ \A h \in Frame : \A j \in Entry : memory[h][j] # g
  BY <1>3, <1>4, HeldFree, TreeFree
<1>6. Dir(d) = Null
  BY <1>d, NewDirectoryEffect DEF Walking, Allocating
<1>7. KernelPagesOf(d) = {} /\ UserPagesOf(d) = {}
  BY <1>6, NullTree DEF Trees
<1>8. NoParent(memory, g) /\ memory' = memory
  BY <1>5 DEF NoParent, NewDirectory
<1> QED BY <1>d, <1>1, <1>2, <1>3, <1>5, <1>6, <1>7, <1>8

\* The actions that leave all tables alone.
LEMMA TablesKept ==
    ASSUME Ready, TablesAvailable, OneUse, Trees, OtherActions
    PROVE  memory' = memory /\ MemoryState' = MemoryState
<1>1. MemoryState' = MemoryState
  BY OtherActionsKeep
<1>2. memory' = memory
  <2>1. CASE ClearPage
    BY <2>1, ClearPageKeeps
  <2>2. CASE OtherActions /\ ~ClearPage
    BY <2>2 DEF OtherActions, TestPage, LoadWord, StoreWord, MapDirectory, MapTable,
       MoveToUserMode, do_mem_abort, OtherDataAbort, NewUserPage, NoUserPage, PageMapped, CopyProcess,
       NewTaskStruct, CopyNextPage, CopyPage, PublishTask, WriteMemory, Preempt
  <2> QED BY <2>1, <2>2
<1> QED BY <1>1, <1>2

LEMMA TreesStep ==
    ASSUME Ready, Next, TablesAvailable, TablesAvailable', OneUse, Trees, Walking
    PROVE  Trees'
<1>1. CASE OtherActions
  <2>1. memory' = memory /\ MemoryState' = MemoryState
    BY <1>1, TablesKept
  <2> QED BY <2>1 DEF Trees, KernelPagesOf, UserPagesOf, Dir
<1>2. CASE NewDirectory
  <2>d. PICK d \in Task, g \in Frame : d = Cur.dst /\ g = Cur.free
    BY <1>2, Typed, NewDirectoryEffect
  <2>1. /\ g \in Page /\ Dir(d) = Null /\ Blank(memory, g) /\ NoParent(memory, g) /\ memory' = memory
        /\ KernelPagesOf(d) = {} /\ UserPagesOf(d) = {}
        /\ \A t \in Task :
             /\ KernelPagesOf(t)' = IF t = d THEN {g} ELSE KernelPagesOf(t)
             /\ UserPagesOf(t)' = UserPagesOf(t)
             /\ Dir(t)' = IF t = d THEN g ELSE Dir(t)
    BY <1>2, <2>d, NewDirectoryTakes
  <2>2. Tables(memory, g) = {g} /\ T4(memory, g) = {}
    <3>1. T0(memory, g) = {g}
      BY <2>1, Sizes DEF T0
    <3> QED BY <2>1, <3>1, BlankDirectory DEF Tables
  <2>3. \A f \in Frame : (\A t \in Task : f \notin KernelPagesOf(t)') => Blank(memory', f)
    BY <2>1 DEF Trees
  <2>4. OneParent(memory')
    BY <2>1 DEF Trees
  <2>5. ASSUME NEW t \in Task
        PROVE  /\ NoParent(memory, Dir(t)') /\ KernelPagesOf(t)' = Tables(memory, Dir(t)')
               /\ UserPagesOf(t)' = T4(memory, Dir(t)')
    BY <2>1, <2>2 DEF Trees
  <2> QED BY <2>1, <2>3, <2>4, <2>5 DEF Trees
<1>3. CASE NewTable
  BY <1>3, NewTablePuts, PutTrees
<1>4. CASE MapTableEntry
  BY <1>4, MapTableEntryPuts, PutTrees
<1> QED BY <1>1, <1>2, <1>3, <1>4 DEF Next, OtherActions

\* The walks after an entry is put.
LEMMA PutPaths ==
    ASSUME Ready, TablesAvailable, OneUse, Trees,
           NEW d, NEW k, NEW f, NEW i, NEW g, Putting(d, k, f, i, g), NEW va \in VA
    PROVE  /\ \A t \in Task \ {d} : P4(memory', Dir(t), va) = P4(memory, Dir(t), va)
           /\ k < 3 => P4(memory', Dir(d), va) = P4(memory, Dir(d), va)
           /\ k < 3 /\ f = PathAt(memory, Dir(d), va, k) /\ Index(va, k) = i =>
                PathAt(memory', Dir(d), va, k + 1) = g
           /\ k < 3 => g \in TreeAt(memory', Dir(d), k + 1)
           /\ k = 3 => P4(memory', Dir(d), va) =
                IF f = P3(memory, Dir(d), va) /\ Index(va, 3) = i THEN g ELSE P4(memory, Dir(d), va)
<1>1. /\ Puts(memory, memory', f, i, g) /\ f \in Page
      /\ \A t \in Task \ {d} : f \notin Tables(memory, Dir(t))
      /\ Dir(d) # Null
  BY PuttingPuts
<1>2. d \in Task /\ k \in 0 .. 3 /\ f \in TreeAt(memory, Dir(d), k)
  BY DEF Putting
<1>3. /\ Typing(memory) /\ OneParent(memory) /\ \A t \in Task : NoParent(memory, Dir(t)) /\ Dir(t) \in Frame
  BY MemoryTyping, ListTypes DEF Trees
<1>4. f # Null /\ Blank(memory, Null) /\ \A h \in Frame \ {f} : memory'[h] = memory[h]
  BY <1>1, <1>3, PutEntry, NullBlank, Sizes
<1>5. \A t \in Task \ {d} : P4(memory', Dir(t), va) = P4(memory, Dir(t), va)
  BY <1>1, <1>3, <1>4, PathElsewhere
<1>6. Dir(d) \in Frame \ {Null}
  BY <1>1, <1>2, <1>3
<1>7. /\ k < 3 => P4(memory', Dir(d), va) = P4(memory, Dir(d), va)
      /\ k < 3 /\ f = PathAt(memory, Dir(d), va, k) /\ Index(va, k) = i =>
           PathAt(memory', Dir(d), va, k + 1) = g
      /\ k = 3 => P4(memory', Dir(d), va) =
           IF f = P3(memory, Dir(d), va) /\ Index(va, 3) = i THEN g ELSE P4(memory, Dir(d), va)
  BY <1>1, <1>2, <1>3, <1>6, PathPut
<1>8. k < 3 => g \in TreeAt(memory', Dir(d), k + 1)
  BY <1>1, <1>2, <1>3, TreePut
<1> QED BY <1>5, <1>7, <1>8

-----------------------------------------------------------------------------
(***************************************************************************)
(* The MMU finds what is listed.                                           *)
(***************************************************************************)
\* What is listed and what is found, for one task.
Finds(m, d, pages) ==
    /\ \A i \in DOMAIN pages : P4(m, d, pages[i].VirtualAddress) = pages[i].PhysicalAddress
    /\ \A va \in VA : P4(m, d, va) # Fault => \E i \in DOMAIN pages : pages[i].VirtualAddress = va

LEMMA MappedStep ==
    ASSUME Ready, Next, TablesAvailable, TablesAvailable', OneUse, Trees, Walking, Mapped
    PROVE  Mapped'
<1>0. \A t \in Task : Finds(memory, Dir(t), MemoryState[t].UserPages)
  BY DEF Mapped, Finds
<1>v. \A t \in Task : \A i \in DOMAIN MemoryState[t].UserPages :
        /\ MemoryState[t].UserPages[i].VirtualAddress \in VA
        /\ MemoryState[t].UserPages[i].PhysicalAddress \in Page
  <2>1. ASSUME NEW t \in Task, NEW i \in DOMAIN MemoryState[t].UserPages
        PROVE  MemoryState[t].UserPages[i] \in UserPage
    BY ListTypes
  <2> QED BY <2>1 DEF UserPage
<1> SUFFICES \A t \in Task : Finds(memory', Dir(t)', MemoryState'[t].UserPages)
  BY DEF Mapped, Finds, Dir
<1>1. CASE OtherActions
  <2>1. memory' = memory /\ MemoryState' = MemoryState
    BY <1>1, TablesKept
  <2> QED BY <1>0, <2>1 DEF Dir
<1>2. CASE NewDirectory
  <2>d. PICK d \in Task, g \in Frame : d = Cur.dst /\ g = Cur.free
    BY <1>2, Typed, NewDirectoryEffect
  <2>1. /\ Blank(memory, g) /\ memory' = memory /\ UserPagesOf(d) = {}
        /\ \A t \in Task : Dir(t)' = IF t = d THEN g ELSE Dir(t)
    BY <1>2, <2>d, NewDirectoryTakes
  <2>2. \A t \in Task : MemoryState'[t].UserPages = MemoryState[t].UserPages
    BY <1>2, <2>d, NewDirectoryAdds DEF TableAdded
  <2>3. ASSUME NEW t \in Task \ {d} PROVE Finds(memory', Dir(t)', MemoryState'[t].UserPages)
    BY <1>0, <2>1, <2>2
  <2>4. Finds(memory', Dir(d)', MemoryState'[d].UserPages)
    <3>1. DOMAIN MemoryState[d].UserPages = {}
      BY <2>1 DEF UserPagesOf, Elements
    <3>2. \A va \in VA : P4(memory, g, va) = Fault
      BY <2>1, BlankDirectory
    <3> QED BY <2>1, <2>2, <3>1, <3>2 DEF Finds
  <2> QED BY <2>3, <2>4
<1>3. CASE NewTable
  <2>1. Putting(Cur.dst, Cur.level, Cur.table, Index(Cur.va, Cur.level), Cur.free)
        /\ Cur.level < 3
    BY <1>3, NewTablePuts, NewTableEffect
  <2>2. \A va \in VA : \A t \in Task : P4(memory', Dir(t), va) = P4(memory, Dir(t), va)
    BY <2>1, PutPaths
  <2>3. \A t \in Task : Dir(t)' = Dir(t)
    BY <2>1 DEF Putting
  <2>4. \A t \in Task : MemoryState'[t].UserPages = MemoryState[t].UserPages
    BY <1>3, NewTableAdds, Typed DEF TableAdded
  <2>5. ASSUME NEW t \in Task PROVE Finds(memory', Dir(t)', MemoryState'[t].UserPages)
    <3>1. MemoryState'[t].UserPages = MemoryState[t].UserPages /\ Dir(t)' = Dir(t)
          /\ \A va \in VA : P4(memory', Dir(t), va) = P4(memory, Dir(t), va)
      BY <2>2, <2>3, <2>4
    <3>2. Finds(memory, Dir(t), MemoryState[t].UserPages)
      BY <1>0
    <3> QED BY <1>v, <3>1, <3>2 DEF Finds
  <2> QED BY <2>5
<1>4. CASE MapTableEntry
  <2>d. PICK d \in Task, g \in Page, vm \in VA : d = Cur.dst /\ g = Cur.page /\ vm = Cur.va
    BY <1>4, Typed, MapTableEntryEffect
  <2> DEFINE f == Cur.table
             D == Dir(d)
  <2>1. Putting(d, 3, f, Index(vm, 3), g)
    BY <1>4, <2>d, MapTableEntryPuts
  <2>2. f = P3(memory, D, vm) /\ f # Fault /\ P4(memory, D, vm) = Fault
    <3>1. Cur.level = 3 /\ Cur.at = "walk" /\ Cur.op # "none" /\ Cur.table \in Frame
      BY <1>4, MapTableEntryEffect, Typed, Phases DEF Resting
    <3> QED BY <2>d, <3>1, Sizes DEF Walking, InTable, Mapping, PathAt
  <2>3. \A va \in VA :
          /\ \A t \in Task \ {d} : P4(memory', Dir(t), va) = P4(memory, Dir(t), va)
          /\ P4(memory', D, va) =
               IF f = P3(memory, D, va) /\ Index(va, 3) = Index(vm, 3) THEN g ELSE P4(memory, D, va)
    BY <2>1, PutPaths
  <2>4. \A va \in VA : f = P3(memory, D, va) /\ Index(va, 3) = Index(vm, 3) => va = vm
    <3>1. Typing(memory) /\ OneParent(memory) /\ D \in Frame
      BY MemoryTyping, ListTypes DEF Trees
    <3> QED BY <2>2, <3>1, PathDetermines
  <2>5. \A va \in VA : P4(memory', D, va) = IF va = vm THEN g ELSE P4(memory, D, va)
    BY <2>2, <2>3, <2>4
  <2>6. \A t \in Task : Dir(t)' = Dir(t)
    BY <2>1 DEF Putting
  <2>7. PageAdded(d, g, vm)
    BY <1>4, <2>d, MapTableEntryAdds
  <2> HIDE DEF f
  <2>8. ASSUME NEW t \in Task \ {d} PROVE Finds(memory', Dir(t)', MemoryState'[t].UserPages)
    <3>1. MemoryState'[t].UserPages = MemoryState[t].UserPages /\ Dir(t)' = Dir(t)
          /\ \A va \in VA : P4(memory', Dir(t), va) = P4(memory, Dir(t), va)
      BY <2>3, <2>6, <2>7 DEF PageAdded
    <3>2. Finds(memory, Dir(t), MemoryState[t].UserPages)
      BY <1>0
    <3> QED BY <1>v, <3>1, <3>2 DEF Finds
  <2>9. Finds(memory', Dir(d)', MemoryState'[d].UserPages)
    <3> DEFINE s == MemoryState[d].UserPages
               n == MemoryState'[d].UserPages
               e == [PhysicalAddress |-> g, VirtualAddress |-> vm]
    <3>0. e \in UserPage /\ e.PhysicalAddress = g /\ e.VirtualAddress = vm
      BY DEF UserPage
    <3>1. /\ n = Append(s, e) /\ Len(s) \in Nat /\ DOMAIN s = 1 .. Len(s) /\ DOMAIN n = 1 .. Len(s) + 1
          /\ \A i \in 1 .. Len(s) : n[i] = s[i]
          /\ n[Len(s) + 1] = e
      BY <2>7, <3>0, ListTypes, ElementsAppend DEF PageAdded
    <3>2. Finds(memory, D, s)
      BY <1>0
    <3>3. \A i \in DOMAIN s : s[i].VirtualAddress \in VA /\ s[i].PhysicalAddress \in Page
      BY <1>v
    <3>4. Dir(d)' = D
      BY <2>6
    <3> HIDE DEF s, n, e, D
    <3>5. \A i \in DOMAIN s : s[i].VirtualAddress # vm
      BY <2>2, <3>2, <3>3, Sizes DEF Finds
    <3>6. \A i \in DOMAIN n : P4(memory', D, n[i].VirtualAddress) = n[i].PhysicalAddress
      <4>1. ASSUME NEW i \in 1 .. Len(s)
            PROVE  P4(memory', D, n[i].VirtualAddress) = n[i].PhysicalAddress
        BY <2>5, <3>1, <3>2, <3>3, <3>5 DEF Finds
      <4>2. P4(memory', D, e.VirtualAddress) = e.PhysicalAddress
        BY <2>5, <3>0
      <4>3. \A i \in DOMAIN n : i \in 1 .. Len(s) \/ i = Len(s) + 1
        BY <3>1
      <4> QED BY <3>1, <4>1, <4>2, <4>3
    <3>7. ASSUME NEW va \in VA, P4(memory', D, va) # Fault
          PROVE  \E i \in DOMAIN n : n[i].VirtualAddress = va
      <4>1. CASE va = vm
        BY <3>0, <3>1, <4>1
      <4>2. CASE va # vm
        <5>1. PICK i \in DOMAIN s : s[i].VirtualAddress = va
          BY <2>5, <3>2, <3>7, <4>2 DEF Finds
        <5>2. i \in DOMAIN n /\ n[i] = s[i]
          BY <3>1
        <5> QED BY <5>1, <5>2
      <4> QED BY <4>1, <4>2
    <3>8. Finds(memory', D, n)
      BY <3>6, <3>7 DEF Finds
    <3> QED BY <3>4, <3>8 DEF n
  <2> QED BY <2>8, <2>9
<1> QED BY <1>1, <1>2, <1>3, <1>4 DEF Next, OtherActions

-----------------------------------------------------------------------------
(***************************************************************************)
(* The walk of MapPage.                                                    *)
(***************************************************************************)
\* Walking, of an activation a and values of the tables.
Searching(a) == a.op # "none" /\ (a.at \in {"map", "walk"} \/ (Allocating(a) /\ a.use \in {"page", "directory", "table"}))

TableCall(a) == Allocating(a) /\ a.use = "table"

DirectoryCall(a) == Allocating(a) /\ a.use = "directory"

Walks(a, m, d) ==
    /\ Searching(a) => P4(m, d, a.va) = Fault
    /\ a.at = "walk" \/ TableCall(a) =>
         a.table = PathAt(m, d, a.va, a.level) /\ a.table \in TreeAt(m, d, a.level)
    /\ TableCall(a) => m[a.table][Index(a.va, a.level)] = Fault
    /\ DirectoryCall(a) => d = Null

LEMMA WalkingIs == Walking <=> Walks(Cur, memory, Dir(Cur.dst))
  BY DEF Walking, Walks, Mapping, InTable, Searching, TableCall, DirectoryCall

LEMMA WalkingAfter ==
    ASSUME NEW d, d = Cur'.dst, Walks(Cur', memory', Dir(d)')
    PROVE  Walking'
  BY DEF Walking, Walks, Mapping, InTable, Searching, TableCall, DirectoryCall, Allocating, Dir, Cur

\* The steps after which MapPage is not at work.
LEMMA NotMapping ==
    ASSUME Ready, Next,
           PageMapped \/ CopyProcess \/ NoUserPage \/ NewTaskStruct \/ CopyPage \/ PublishTask
             \/ MapTableEntry \/ OtherDataAbort \/ WriteMemory \/ Preempt
    PROVE  /\ ~Searching(Cur') /\ Cur'.at # "walk" /\ ~TableCall(Cur') /\ ~DirectoryCall(Cur')
<1> USE DEF Searching, TableCall, DirectoryCall, Allocating
<1>i. \A t \in Task : /\ Idle(t, "user").at = "user" /\ Idle(t, "user").op = "none"
                      /\ Idle(t, "hang").at = "hang" /\ Idle(t, "hang").op = "none"
                      /\ Idle(t, "halt").at = "halt" /\ Idle(t, "halt").op = "none"
  BY DEF Idle
<1>1. CASE OtherDataAbort \/ PageMapped \/ PublishTask \/ NoUserPage \/ NewTaskStruct
  BY <1>1, <1>i, Typed, OtherDataAbortEffect, PageMappedEffect, PublishTaskEffect, NoUserPageEffect, NewTaskStructEffect
<1>2. CASE CopyProcess \/ CopyPage \/ MapTableEntry
  BY <1>2, CopyProcessEffect, CopyPageEffect, MapTableEntryEffect
<1>3. CASE WriteMemory
  BY <1>3 DEF WriteMemory, Cur
<1>4. CASE Preempt
  BY <1>4, <1>i, PreemptIdle
<1> QED BY <1>1, <1>2, <1>3, <1>4

\* CopyVirtualMemory maps an address that the child does not have yet.
LEMMA NextIsUnmapped ==
    ASSUME Ready, TablesAvailable, Books, Trees, Mapped, Copying, Cur.at = "copy", Cur.op = "fork",
           Cur.curPage \in 1 .. Len(MemoryState[cpu].UserPages)
    PROVE  P4(memory, Dir(Cur.dst), MemoryState[cpu].UserPages[Cur.curPage].VirtualAddress) = Fault
<1>d. PICK d \in Task : d = Cur.dst
  BY Typed
<1> DEFINE parent == MemoryState[cpu].UserPages
           child == MemoryState[d].UserPages
           n == Cur.curPage
           va == parent[n].VirtualAddress
<1>1. Making
  BY DEF Making, Allocating
<1>2. /\ Len(child) = n - 1 /\ Len(child) <= Len(parent)
      /\ \A i \in 1 .. Len(child) : child[i].VirtualAddress = parent[i].VirtualAddress
  BY <1>d, <1>1 DEF Copying
<1>3. /\ parent \in Seq(UserPage) /\ child \in Seq(UserPage) /\ DOMAIN parent = 1 .. Len(parent)
      /\ DOMAIN child = 1 .. Len(child) /\ Len(child) \in Nat /\ Len(parent) \in Nat
      /\ n \in 1 .. Len(parent)
  BY ListTypes, Typed
<1>4. parent[n] \in UserPage
  BY <1>3
<1>5. va \in VA
  BY <1>4 DEF UserPage
<1>6. \A i, j \in DOMAIN parent : parent[i].PhysicalAddress = parent[j].PhysicalAddress => i = j
  BY Typed DEF Books, ListedOnce
<1>7. \A i \in DOMAIN parent : P4(memory, Dir(cpu), parent[i].VirtualAddress) = parent[i].PhysicalAddress
  BY Typed DEF Mapped
<1>8. P4(memory, Dir(d), va) # Fault => \E i \in DOMAIN child : child[i].VirtualAddress = va
  BY <1>5 DEF Mapped
<1> HIDE DEF parent, child, n
<1>9. ASSUME NEW i \in DOMAIN child, child[i].VirtualAddress = va PROVE FALSE
  <2>1. i \in DOMAIN parent /\ n \in DOMAIN parent /\ i # n
    BY <1>2, <1>3
  <2>2. parent[i].VirtualAddress = parent[n].VirtualAddress
    BY <1>2, <1>3, <1>9
  <2>3. parent[i].PhysicalAddress = parent[n].PhysicalAddress
    BY <1>7, <2>1, <2>2
  <2> QED BY <1>6, <2>1, <2>3
<1> QED BY <1>8, <1>9, <1>d DEF parent, n

LEMMA WalkingStep ==
    ASSUME Ready, Ready', Next, TablesAvailable, TablesAvailable', Books, Trees, Mapped, Walking,
           Untouched, Copying
    PROVE  Walking'
<1> USE DEF Searching, TableCall, DirectoryCall, Allocating
<1>o. OneUse
  BY DEF Books
<1>d. PICK d \in Task : d = Cur'.dst
  BY Typed DEF Ready, Types, Cur, Activation
<1>w. Walks(Cur, memory, Dir(Cur.dst))
  BY WalkingIs
<1>k. OtherActions => memory' = memory /\ \A t \in Task : Dir(t)' = Dir(t)
  BY <1>o, TablesKept DEF Dir
<1>g. SUFFICES Walks(Cur', memory', Dir(d)')
  BY <1>d, WalkingAfter
<1>1. CASE PageMapped \/ CopyProcess \/ NoUserPage \/ NewTaskStruct \/ CopyPage \/ PublishTask
             \/ MapTableEntry \/ OtherDataAbort \/ WriteMemory \/ Preempt
  <2>1. ~Searching(Cur') /\ Cur'.at # "walk" /\ ~TableCall(Cur') /\ ~DirectoryCall(Cur')
    BY <1>1, NotMapping
  <2> HIDE DEF Searching, TableCall, DirectoryCall
  <2> QED BY <2>1 DEF Walks
<1>2. CASE TestPage \/ LoadWord \/ StoreWord \/ ClearPage
  <2>1. /\ Continues(Cur, Cur') /\ SameTable(Cur, Cur') /\ SameUse(Cur, Cur')
        /\ Cur.at \in {"test", "load", "store", "clear"}
        /\ Cur'.at \in {"test", "load", "store", "clear", "got"}
    BY <1>2, TestPageEffect, LoadWordEffect, StoreWordEffect, ClearPageEffect
  <2>2. memory' = memory /\ Dir(d)' = Dir(d) /\ d = Cur.dst
    BY <1>2, <1>d, <1>k, <2>1 DEF OtherActions, Continues
  <2> QED BY <1>w, <2>1, <2>2 DEF Walks, Continues, SameTable, SameUse
<1>3. CASE MapDirectory
  <2>1. memory' = memory /\ Dir(d)' = Dir(d) /\ d = Cur.dst
    BY <1>3, <1>d, <1>k, MapDirectoryEffect DEF OtherActions, Continues
  <2>2. P4(memory, Dir(d), Cur'.va) = Fault
    BY <1>3, <1>w, <2>1, MapDirectoryEffect, Phases DEF Walks, Continues, Resting
  <2>3. CASE Dir(d) = Null
    BY <1>3, <2>1, <2>2, <2>3, MapDirectoryEffect DEF Walks
  <2>4. CASE Dir(d) # Null
    <3>1. Cur'.at = "walk" /\ Cur'.level = 0 /\ Cur'.table = Dir(d)
      BY <1>3, <2>1, <2>4, MapDirectoryEffect
    <3>2. Dir(d) \in TreeAt(memory, Dir(d), 0) /\ Dir(d) = PathAt(memory, Dir(d), Cur'.va, 0)
      BY <2>4 DEF TreeAt, PathAt, T0
    <3> QED BY <2>1, <2>2, <3>1, <3>2 DEF Walks
  <2> QED BY <2>3, <2>4
<1>4. CASE NewDirectory
  <2>1. /\ Cur.dst = d /\ Cur'.at = "walk" /\ Cur'.level = 0 /\ Cur'.table = Cur.free
    BY <1>4, <1>d, NewDirectoryEffect DEF Continues
  <2>2. Cur.free \in Page /\ Blank(memory, Cur.free) /\ memory' = memory /\ Dir(d)' = Cur.free
    BY <1>4, <1>o, <2>1, NewDirectoryTakes
  <2>f. PICK f \in Page : f = Cur.free
    BY <2>2
  <2>3. Cur'.va \in VA
    BY <1>4, NewDirectoryEffect, Typed DEF Continues
  <2>4. P4(memory, f, Cur'.va) = Fault
    BY <2>2, <2>3, <2>f, BlankDirectory, Sizes
  <2>5. f \in TreeAt(memory, f, 0) /\ f = PathAt(memory, f, Cur'.va, 0)
    BY Sizes DEF TreeAt, PathAt, T0
  <2> QED BY <2>1, <2>2, <2>f, <2>4, <2>5 DEF Walks
<1>5. CASE MapTable
  <2>1. memory' = memory /\ Dir(d)' = Dir(d) /\ d = Cur.dst /\ Cur'.va = Cur.va /\ Cur'.op = Cur.op
    BY <1>5, <1>d, <1>k, MapTableEffect DEF OtherActions, Continues
  <2>2. /\ Cur.at = "walk" /\ Cur.level \in 0 .. 2 /\ Cur.op # "none" /\ Cur.table \in Frame
        /\ Index(Cur.va, Cur.level) \in Entry
    BY <1>5, MapTableEffect, Phases, Typed, IndexType DEF Resting
  <2>3. /\ P4(memory, Dir(d), Cur.va) = Fault
        /\ Cur.table = PathAt(memory, Dir(d), Cur.va, Cur.level)
        /\ Cur.table \in TreeAt(memory, Dir(d), Cur.level)
    BY <1>w, <2>1, <2>2 DEF Walks
  <2> DEFINE entry == memory[Cur.table][Index(Cur.va, Cur.level)]
  <2>4. CASE entry = Fault
    <3>1. Cur'.at = "test" /\ Cur'.use = "table" /\ SameTable(Cur, Cur')
      BY <1>5, <2>4, MapTableEffect, Sizes
    <3> QED BY <2>1, <2>2, <2>3, <2>4, <3>1 DEF Walks, SameTable
  <2>5. CASE entry # Fault
    <3>1. Cur'.at = "walk" /\ Cur'.level = Cur.level + 1 /\ Cur'.table = entry
      BY <1>5, <2>5, MapTableEffect, Sizes
    <3>2. entry = PathAt(memory, Dir(d), Cur.va, Cur.level + 1)
      <4>1. entry = StepIn(memory, PathAt(memory, Dir(d), Cur.va, Cur.level), Cur.va, Cur.level)
        BY <2>2, <2>3, Sizes DEF StepIn
      <4> HIDE DEF entry
      <4>2. Cur.level = 0 \/ Cur.level = 1 \/ Cur.level = 2
        BY <2>2
      <4>3. CASE Cur.level = 0
        BY <4>1, <4>3 DEF PathAt, P1
      <4>4. CASE Cur.level = 1
        BY <4>1, <4>4 DEF PathAt, P2
      <4>5. CASE Cur.level = 2
        BY <4>1, <4>5 DEF PathAt, P3
      <4> QED BY <4>2, <4>3, <4>4, <4>5
    <3>3. entry \in TreeAt(memory, Dir(d), Cur.level + 1)
      <4>1. entry \in ChildrenIn(memory, TreeAt(memory, Dir(d), Cur.level))
        BY <2>2, <2>3, <2>5 DEF ChildrenIn
      <4> HIDE DEF entry
      <4> QED BY <2>2, <4>1 DEF TreeAt, T1, T2, T3
    <3> HIDE DEF entry
    <3> QED BY <2>1, <2>3, <3>1, <3>2, <3>3 DEF Walks
  <2> QED BY <2>4, <2>5
<1>6. CASE NewTable
  <2>p. PICK k \in 0 .. 2, va \in VA, f \in Frame, g \in Frame :
          k = Cur.level /\ va = Cur.va /\ f = Cur.table /\ g = Cur.free
    BY <1>6, NewTableEffect, Typed
  <2>1. Putting(d, k, f, Index(va, k), g) /\ Dir(d)' = Dir(d) /\ Cur.dst = d
    BY <1>6, <1>d, <2>p, NewTablePuts, NewTableEffect DEF Continues, Putting
  <2>2. /\ Cur.at = "got" /\ Cur.use = "table" /\ Cur.op # "none"
        /\ Cur'.at = "walk" /\ Cur'.level = k + 1 /\ Cur'.table = g /\ Cur'.va = va
    BY <1>6, <2>p, NewTableEffect, Phases DEF Continues, Resting
  <2>3. P4(memory, Dir(d), va) = Fault /\ f = PathAt(memory, Dir(d), va, k)
    BY <1>w, <2>1, <2>2, <2>p DEF Walks
  <2>4. /\ P4(memory', Dir(d), va) = Fault /\ PathAt(memory', Dir(d), va, k + 1) = g
        /\ g \in TreeAt(memory', Dir(d), k + 1)
    BY <1>o, <2>1, <2>3, PutPaths
  <2> QED BY <2>1, <2>2, <2>4 DEF Walks
<1>7. CASE MoveToUserMode
  <2>1. /\ memory' = memory /\ Dir(d)' = Dir(d) /\ d = cpu /\ Cur'.va \in VA
        /\ Cur'.at = "test" /\ Cur'.use = "page" /\ Cur.at = "move"
    BY <1>7, <1>d, <1>k, MoveToUserModeEffect, VAType DEF OtherActions
  <2>2. Dir(d) = Null
    BY <2>1 DEF Untouched
  <2>3. P4(memory, Null, Cur'.va) = Fault
    BY <2>1, NullBlank, BlankDirectory, Sizes
  <2> QED BY <2>1, <2>2, <2>3 DEF Walks
<1>8. CASE do_mem_abort
  <2>1. /\ memory' = memory /\ Dir(d)' = Dir(d) /\ d = cpu /\ Translate(cpu, Cur'.va) = Fault
        /\ Cur'.at = "test" /\ Cur'.use = "page"
    BY <1>8, <1>d, <1>k, do_mem_abortEffect DEF OtherActions
  <2>2. P4(memory, Dir(d), Cur'.va) = Fault
    BY <2>1, TranslateIs
  <2> QED BY <2>1, <2>2 DEF Walks
<1>9. CASE NewUserPage
  <2>1. /\ memory' = memory /\ Dir(d)' = Dir(d) /\ d = Cur.dst /\ Cur'.va = Cur.va
        /\ Cur'.at = "map" /\ Cur.at = "got" /\ Cur.use = "page" /\ Cur.op # "none"
    BY <1>9, <1>d, <1>k, NewUserPageEffect, Phases DEF OtherActions, Continues, Resting
  <2> QED BY <1>w, <2>1 DEF Walks
<1>10. CASE CopyNextPage
  <2>1. memory' = memory /\ Dir(d)' = Dir(d) /\ d = Cur.dst /\ Cur.at = "copy" /\ Cur.op = "fork"
    BY <1>10, <1>d, <1>k, CopyNextPageEffect DEF OtherActions
  <2>2. CASE Cur'.at = "publish"
    BY <2>2 DEF Walks
  <2>3. CASE Cur'.at # "publish"
    <3>1. /\ Cur.curPage \in 1 .. Len(MemoryState[cpu].UserPages)
          /\ Cur'.va = MemoryState[cpu].UserPages[Cur.curPage].VirtualAddress
          /\ Cur'.at = "test" /\ Cur'.use = "page"
      BY <1>10, <2>3, CopyNextPageEffect
    <3>2. P4(memory, Dir(d), Cur'.va) = Fault
      BY <2>1, <3>1, NextIsUnmapped
    <3> QED BY <2>1, <3>1, <3>2 DEF Walks
  <2> QED BY <2>2, <2>3
<1> QED
  BY <1>1, <1>2, <1>3, <1>4, <1>5, <1>6, <1>7, <1>8, <1>9, <1>10 DEF Next

-----------------------------------------------------------------------------
(***************************************************************************)
(* Data, and the loop of CopyVirtualMemory.                                *)
(***************************************************************************)
\* Copying, of an activation a, the data s and the lists of the two tasks.
Makes(a) == a.op = "fork" /\ ~(Allocating(a) /\ a.use = "task")

Copies(a, s, parent, child) ==
    /\ Len(child) = (IF a.at = "mapped" THEN a.curPage ELSE a.curPage - 1)
    /\ Len(child) <= Len(parent)
    /\ a.at \notin {"copy", "publish"} =>
         a.curPage \in 1 .. Len(parent) /\ a.va = parent[a.curPage].VirtualAddress
    /\ a.at = "mapped" => child[a.curPage].PhysicalAddress = a.page
    /\ \A i \in 1 .. Len(child) : child[i].VirtualAddress = parent[i].VirtualAddress
    /\ \A i \in 1 .. a.curPage - 1 : s[child[i].PhysicalAddress] = s[parent[i].PhysicalAddress]

LEMMA CopyingIs ==
    Copying <=> /\ Cur.op = "fork" /\ ~Makes(Cur) => Cur.curPage = 1
                /\ Makes(Cur) => Copies(Cur, data, MemoryState[cpu].UserPages, MemoryState[Cur.dst].UserPages)
  BY DEF Copying, Copies, Making, Makes

LEMMA CopyingAfter ==
    ASSUME NEW d, d = Cur'.dst,
           Cur'.op = "fork" /\ ~Makes(Cur') => Cur'.curPage = 1,
           Makes(Cur') => Copies(Cur', data', MemoryState'[cpu'].UserPages, MemoryState'[d].UserPages)
    PROVE  Copying'
  BY DEF Copying, Copies, Making, Makes, Allocating, Cur

\* The frame that is read is one that the running task has mapped.
LEMMA CopySource ==
    ASSUME Ready, Mapped, Copying, CopyPage
    PROVE  /\ Making /\ Cur.curPage \in 1 .. Len(MemoryState[cpu].UserPages)
           /\ MemoryState[cpu].UserPages[Cur.curPage].PhysicalAddress \in Page
           /\ Copied = data[MemoryState[cpu].UserPages[Cur.curPage].PhysicalAddress]
<1> DEFINE parent == MemoryState[cpu].UserPages
           n == Cur.curPage
<1>1. Making /\ Cur.at = "mapped"
  BY CopyPageEffect DEF Making, Allocating
<1>2. n \in 1 .. Len(parent) /\ Cur.va = parent[n].VirtualAddress
  BY <1>1 DEF Copying
<1>3. parent \in Seq(UserPage) /\ DOMAIN parent = 1 .. Len(parent)
  BY ListTypes, Typed
<1>4. parent[n] \in UserPage
  BY <1>2, <1>3
<1>5. P4(memory, Dir(cpu), Cur.va) = parent[n].PhysicalAddress
  BY <1>2, <1>3, Typed DEF Mapped
<1>6. Translate(cpu, Cur.va) = parent[n].PhysicalAddress
  BY <1>5, TranslateIs
<1> QED BY <1>1, <1>2, <1>4, <1>6 DEF Copied, UserPage

LEMMA DataStep ==
    ASSUME Ready, Next, data \in [Frame -> 0 .. 2], Mapped, Copying
    PROVE  data' \in [Frame -> 0 .. 2]
<1>n. 0 \in 0 .. 2 /\ 1 \in 0 .. 2 /\ 2 \in 0 .. 2
  OBVIOUS
<1>1. CASE ClearPage
  BY <1>1, <1>n DEF ClearPage
<1>2. CASE PageMapped
  BY <1>2, <1>n DEF PageMapped
<1>3. CASE WriteMemory
  BY <1>3, <1>n DEF WriteMemory
<1>4. CASE CopyPage
  <2>1. Copied \in 0 .. 2
    BY <1>4, CopySource, Sizes
  <2> QED BY <1>4, <2>1 DEF CopyPage
<1>5. CASE ~ClearPage /\ ~PageMapped /\ ~WriteMemory /\ ~CopyPage
  BY <1>5 DEF Next, TestPage, LoadWord, StoreWord, MapDirectory, NewDirectory, MapTable, NewTable,
     MapTableEntry, MoveToUserMode, do_mem_abort, OtherDataAbort, NewUserPage, NoUserPage, CopyProcess,
     NewTaskStruct, CopyNextPage, PublishTask, Preempt
<1> QED BY <1>1, <1>2, <1>3, <1>4, <1>5

\* A step that goes on with the page of the loop.
LEMMA CopiesOn ==
    ASSUME NEW a, NEW b, NEW s, NEW parent, NEW child, Copies(a, s, parent, child),
           Continues(a, b), a.at # "mapped", b.at # "mapped",
           a.at \notin {"copy", "publish"} \/ b.at \in {"copy", "publish"}
    PROVE  Copies(b, s, parent, child)
  BY DEF Copies, Continues

\* Data that is elsewhere does not matter.
LEMMA CopiesElsewhere ==
    ASSUME NEW a, NEW s, NEW r, NEW parent, NEW child, Copies(a, s, parent, child),
           \A i \in 1 .. a.curPage - 1 : /\ r[child[i].PhysicalAddress] = s[child[i].PhysicalAddress]
                                         /\ r[parent[i].PhysicalAddress] = s[parent[i].PhysicalAddress]
    PROVE  Copies(a, r, parent, child)
  BY DEF Copies

LEMMA CopyingStep ==
    ASSUME Ready, Ready', Next, data \in [Frame -> 0 .. 2], Books, Mapped, Untouched, Copying
    PROVE  Copying'
<1>d. PICK d \in Task : d = Cur'.dst
  BY Typed DEF Ready, Types, Cur, Activation
<1> DEFINE parent == MemoryState[cpu].UserPages
           child == MemoryState[d].UserPages
<1>s. /\ parent \in Seq(UserPage) /\ child \in Seq(UserPage) /\ DOMAIN parent = 1 .. Len(parent)
      /\ DOMAIN child = 1 .. Len(child) /\ Len(child) \in Nat /\ Len(parent) \in Nat
  BY ListTypes, Typed
<1>c. Makes(Cur) /\ d = Cur.dst => Copies(Cur, data, parent, child)
  BY CopyingIs
<1>e. Cur.op = "fork" /\ ~Makes(Cur) => Cur.curPage = 1
  BY CopyingIs
<1>g. SUFFICES /\ Cur'.op = "fork" /\ ~Makes(Cur') => Cur'.curPage = 1
               /\ Makes(Cur') => Copies(Cur', data', MemoryState'[cpu'].UserPages, MemoryState'[d].UserPages)
  BY <1>d, CopyingAfter
<1>i. \A t \in Task : Idle(t, "user").op = "none" /\ Idle(t, "hang").op = "none"
                      /\ Idle(t, "halt").op = "none"
  BY DEF Idle
<1>1. CASE PageMapped \/ PublishTask \/ Preempt \/ WriteMemory \/ MoveToUserMode \/ do_mem_abort
           \/ OtherDataAbort
  <2>1. CASE PageMapped \/ PublishTask \/ Preempt \/ MoveToUserMode \/ do_mem_abort
             \/ OtherDataAbort
    BY <1>i, <2>1, Typed, PageMappedEffect, PublishTaskEffect, PreemptIdle, MoveToUserModeEffect,
       do_mem_abortEffect, OtherDataAbortEffect DEF Makes
  <2>2. CASE WriteMemory
    <3>1. Cur' = Cur /\ Cur.at = "user"
      BY <2>2 DEF WriteMemory, Cur
    <3>2. Cur'.op = "none"
      BY <3>1, Phases DEF Resting, Idle
    <3> QED BY <3>2 DEF Makes
  <2> QED BY <1>1, <2>1, <2>2
<1>2. CASE CopyProcess
  BY <1>2, CopyProcessEffect DEF Makes, Allocating
<1>3. CASE TestPage \/ LoadWord \/ StoreWord \/ ClearPage
  <2>1. /\ Continues(Cur, Cur') /\ SameUse(Cur, Cur') /\ cpu' = cpu
        /\ Cur.at \in {"test", "load", "store", "clear"}
        /\ Cur'.at \in {"test", "load", "store", "clear", "got"} /\ MemoryState' = MemoryState
    BY <1>3, TestPageEffect, LoadWordEffect, StoreWordEffect, ClearPageEffect
       DEF Stays, TestPage, LoadWord, StoreWord, ClearPage
  <2>2. Makes(Cur') <=> Makes(Cur)
    BY <2>1 DEF Makes, Allocating, Continues, SameUse
  <2>3. Cur'.op = "fork" /\ ~Makes(Cur') => Cur'.curPage = 1
    BY <1>e, <2>1, <2>2 DEF Continues
  <2>4. ASSUME Makes(Cur') PROVE Copies(Cur', data', parent, child)
    <3>1. Copies(Cur, data, parent, child)
      BY <1>c, <1>d, <2>1, <2>2, <2>4 DEF Continues
    <3>2. Copies(Cur', data, parent, child)
      BY <2>1, <3>1, CopiesOn
    <3>3. CASE ~ClearPage
      <4>1. data' = data
        BY <1>3, <3>3 DEF TestPage, LoadWord, StoreWord
      <4> QED BY <3>2, <4>1
    <3>4. CASE ClearPage
      <4>1. \A p \in Page : p # Cur.free => data'[p] = data[p]
        BY <3>4, Sizes DEF ClearPage
      <4>2. Cur.free \in Page /\ Cur.free \in HeldBy(Cur)
        BY <3>4, ClearPageEffect, Sizes DEF HeldBy
      <4>3. Cur.free \notin UserPagesOf(cpu) /\ Cur.free \notin UserPagesOf(d)
        BY <4>2, HeldFree, Typed DEF Books
      <4>4. /\ Len(child) <= Len(parent) /\ Len(child) = Cur'.curPage - 1
        BY <2>1, <3>2 DEF Copies
      <4>5. ASSUME NEW i \in 1 .. Cur'.curPage - 1
            PROVE  /\ data'[child[i].PhysicalAddress] = data[child[i].PhysicalAddress]
                   /\ data'[parent[i].PhysicalAddress] = data[parent[i].PhysicalAddress]
        <5>1. i \in DOMAIN child /\ i \in DOMAIN parent
          BY <1>s, <4>4
        <5>2. child[i] \in UserPage /\ parent[i] \in UserPage
          BY <1>s, <5>1
        <5>3. child[i].PhysicalAddress \in UserPagesOf(d) /\ parent[i].PhysicalAddress \in UserPagesOf(cpu)
          BY <5>1 DEF UserPagesOf, Elements
        <5> QED BY <4>1, <4>3, <5>2, <5>3 DEF UserPage
      <4> HIDE DEF parent, child
      <4> QED BY <3>2, <4>5, CopiesElsewhere
    <3> QED BY <3>3, <3>4
  <2> QED BY <2>1, <2>3, <2>4
<1>4. CASE MapDirectory \/ NewDirectory \/ MapTable \/ NewTable \/ NewUserPage
  <2>1. /\ Continues(Cur, Cur') /\ cpu' = cpu
        /\ Cur.at \in {"map", "walk", "got"} /\ Cur'.at \in {"walk", "map", "test"}
        /\ Cur.at = "got" => Cur.use \in {"directory", "table", "page"}
        /\ Cur'.at = "test" => Cur'.use \in {"directory", "table", "page"}
    BY <1>4, MapDirectoryEffect, NewDirectoryEffect, MapTableEffect, NewTableEffect,
       NewUserPageEffect DEF Stays
  <2>2. Makes(Cur') <=> Makes(Cur)
    BY <2>1 DEF Makes, Allocating, Continues
  <2>3. Cur'.op = "fork" /\ ~Makes(Cur') => Cur'.curPage = 1
    BY <1>e, <2>1, <2>2 DEF Continues
  <2>4. data' = data
    BY <1>4 DEF MapDirectory, NewDirectory, MapTable, NewTable, NewUserPage
  <2>5. \A t \in Task : MemoryState'[t].UserPages = MemoryState[t].UserPages
    BY <1>4, OtherActionsKeep, NewDirectoryAdds, NewTableAdds, Typed DEF TableAdded, OtherActions
  <2>6. ASSUME Makes(Cur') PROVE Copies(Cur', data, parent, child)
    <3>1. Copies(Cur, data, parent, child)
      BY <1>c, <1>d, <2>1, <2>2, <2>6 DEF Continues
    <3> QED BY <2>1, <3>1, CopiesOn
  <2> QED BY <2>1, <2>3, <2>4, <2>5, <2>6, Typed
<1>5. CASE NoUserPage
  <2>1. MemoryState' = MemoryState /\ data' = data /\ cpu' = cpu
    BY <1>5, NoUserPageEffect DEF NoUserPage, Stays
  <2>2. CASE Cur'.op = "fork"
    <3>1. Cur.at = "got" /\ Cur.use = "page" /\ Continues(Cur, Cur') /\ Cur'.at = "publish"
      BY <1>5, <1>i, <2>2, Typed, NoUserPageEffect
    <3>2. Makes(Cur') /\ Makes(Cur) /\ d = Cur.dst
      BY <1>d, <2>2, <3>1 DEF Makes, Allocating, Continues
    <3>3. Copies(Cur', data, parent, child)
      BY <1>c, <3>1, <3>2, CopiesOn
    <3> QED BY <2>1, <3>2, <3>3
  <2> QED BY <2>2 DEF Makes
<1>6. CASE MapTableEntry
  <2>p. PICK g \in Page, va \in VA, k \in Nat : g = Cur.page /\ va = Cur.va /\ k = Cur.curPage
    BY <1>6, Typed, MapTableEntryEffect
  <2>1. /\ d = Cur.dst /\ cpu' = cpu /\ data' = data /\ Cur.at = "walk" /\ Cur'.at = "mapped"
        /\ Cur'.op = Cur.op /\ Cur'.va = va /\ Cur'.curPage = k /\ Cur'.page = g
    BY <1>6, <1>d, <2>p, MapTableEntryEffect DEF MapTableEntry, Continues, Stays
  <2>2. PageAdded(d, g, va)
    BY <1>6, <2>1, <2>p, MapTableEntryAdds
  <2>3. CASE Cur'.op = "fork"
    <3>1. Makes(Cur) /\ Makes(Cur') /\ d # cpu
      BY <2>1, <2>3, Phases DEF Makes, Allocating, InScope, Resting
    <3> DEFINE n == MemoryState'[d].UserPages
               e == [PhysicalAddress |-> g, VirtualAddress |-> va]
    <3>2. e \in UserPage /\ e.PhysicalAddress = g /\ e.VirtualAddress = va
      BY DEF UserPage
    <3>3. /\ n = Append(child, e) /\ Len(n) = Len(child) + 1
          /\ \A i \in 1 .. Len(child) : n[i] = child[i]
          /\ n[Len(child) + 1] = e
      BY <1>s, <2>2, <3>2, ElementsAppend DEF PageAdded
    <3>4. MemoryState'[cpu].UserPages = parent
      BY <2>2, <3>1, Typed DEF PageAdded
    <3>5. /\ Len(child) = k - 1 /\ k \in 1 .. Len(parent) /\ va = parent[k].VirtualAddress
          /\ \A i \in 1 .. Len(child) : child[i].VirtualAddress = parent[i].VirtualAddress
          /\ \A i \in 1 .. k - 1 : data[child[i].PhysicalAddress] = data[parent[i].PhysicalAddress]
      BY <1>c, <2>1, <2>p, <3>1 DEF Copies
    <3> HIDE DEF n, e, parent, child
    <3>6. Len(n) = k /\ n[k] = e /\ \A i \in 1 .. k - 1 : n[i] = child[i]
      BY <1>s, <3>3, <3>5
    <3>7. \A i \in 1 .. Len(n) : n[i].VirtualAddress = parent[i].VirtualAddress
      <4>1. \A i \in 1 .. Len(n) : i = k \/ i \in 1 .. k - 1
        BY <3>6
      <4> QED BY <3>2, <3>5, <3>6, <4>1
    <3>8. Copies(Cur', data, parent, n)
      BY <1>s, <2>1, <3>2, <3>5, <3>6, <3>7 DEF Copies
    <3> QED BY <2>1, <3>1, <3>4, <3>8 DEF n
  <2> QED BY <2>3 DEF Makes
<1>7. CASE NewTaskStruct
  <2>1. MemoryState' = MemoryState /\ data' = data /\ cpu' = cpu
    BY <1>7, NewTaskStructEffect DEF NewTaskStruct, Stays
  <2>2. CASE Cur'.op = "fork"
    <3>1. Cur.at = "got" /\ Cur.use = "task" /\ Continues(Cur, Cur') /\ Cur'.at = "copy" /\ Cur.op = "fork"
      BY <1>7, <1>i, <2>2, Typed, NewTaskStructEffect
    <3>2. ~Making /\ ~Makes(Cur) /\ Makes(Cur') /\ d = Cur.dst
      BY <1>d, <2>2, <3>1 DEF Making, Makes, Allocating, Continues
    <3>3. Cur'.curPage = 1
      BY <1>e, <3>1, <3>2 DEF Continues
    <3>4. ~Created(d)
      BY <3>1, <3>2, Phases DEF InScope, Resting
    <3>5. child = << >>
      BY <3>2, <3>4 DEF Untouched
    <3>6. Copies(Cur', data, parent, child)
      BY <1>s, <3>1, <3>3, <3>5 DEF Copies
    <3> QED BY <2>1, <3>2, <3>6
  <2> QED BY <2>2 DEF Makes
<1>8. CASE CopyNextPage
  <2>1. /\ MemoryState' = MemoryState /\ data' = data /\ cpu' = cpu /\ d = Cur.dst
        /\ Cur.at = "copy" /\ Cur.op = "fork" /\ Cur'.curPage = Cur.curPage
    BY <1>8, <1>d, CopyNextPageEffect DEF CopyNextPage, Stays
  <2>2. Makes(Cur) /\ Makes(Cur')
    BY <1>8, <2>1, CopyNextPageEffect DEF Makes, Allocating
  <2>3. Copies(Cur, data, parent, child)
    BY <1>c, <2>1, <2>2
  <2>4. Copies(Cur', data, parent, child)
    <3>1. \/ Cur'.at = "publish"
          \/ /\ Cur'.at = "test" /\ Cur.curPage \in 1 .. Len(parent)
             /\ Cur'.va = parent[Cur.curPage].VirtualAddress
      BY <1>8, CopyNextPageEffect
    <3> HIDE DEF parent, child
    <3> QED BY <2>1, <2>3, <3>1 DEF Copies
  <2> QED BY <2>1, <2>2, <2>4
<1>9. CASE CopyPage
  <2>p. PICK g \in Page, k \in Nat : g = Cur.page /\ k = Cur.curPage
    BY <1>9, Typed, CopyPageEffect
  <2>1. /\ MemoryState' = MemoryState /\ cpu' = cpu /\ d = Cur.dst
        /\ Cur.at = "mapped" /\ Cur.op = "fork" /\ Cur'.op = "fork" /\ Cur'.at = "copy"
        /\ Cur'.curPage = k + 1
    BY <1>9, <1>d, <2>p, CopyPageEffect DEF CopyPage, Stays
  <2>2. Makes(Cur) /\ Makes(Cur') /\ d # cpu
    BY <2>1, Phases DEF Makes, Allocating, InScope, Resting
  <2>3. /\ Len(child) = k /\ k \in 1 .. Len(parent) /\ child[k].PhysicalAddress = g
        /\ \A i \in 1 .. Len(child) : child[i].VirtualAddress = parent[i].VirtualAddress
        /\ \A i \in 1 .. k - 1 : data[child[i].PhysicalAddress] = data[parent[i].PhysicalAddress]
    BY <1>c, <2>1, <2>2, <2>p DEF Copies
  <2>4. /\ data' = [data EXCEPT ![g] = Copied] /\ Copied = data[parent[k].PhysicalAddress]
    BY <1>9, <2>p, CopySource DEF CopyPage
  <2>5. \A i, j \in DOMAIN child : child[i].PhysicalAddress = child[j].PhysicalAddress => i = j
    BY DEF Books, ListedOnce
  <2>6. \A i \in 1 .. k : i \in DOMAIN child /\ i \in DOMAIN parent
    BY <1>s, <2>3
  <2>7. \A i \in 1 .. k : child[i].PhysicalAddress \in Page /\ parent[i].PhysicalAddress \in Page
    <3>1. ASSUME NEW i \in 1 .. k PROVE child[i] \in UserPage /\ parent[i] \in UserPage
      BY <1>s, <2>6
    <3> QED BY <3>1 DEF UserPage
  <2>8. \A i \in 1 .. k : parent[i].PhysicalAddress # g
    <3>1. k \in 1 .. k
      BY <2>3
    <3>2. g \in UserPagesOf(d)
      BY <2>3, <2>6, <3>1 DEF UserPagesOf, Elements
    <3>3. g \notin UserPagesOf(cpu)
      BY <2>2, <3>2, UsesAre, Typed DEF Books, OneUse, Uses
    <3> QED BY <2>6, <3>3 DEF UserPagesOf, Elements
  <2> HIDE DEF parent, child
  <2>9. \A p \in Page : data'[p] = IF p = g THEN Copied ELSE data[p]
    BY <2>4, Sizes
  <2>10. ASSUME NEW i \in 1 .. k
         PROVE  data'[child[i].PhysicalAddress] = data'[parent[i].PhysicalAddress]
    <3>1. data'[parent[i].PhysicalAddress] = data[parent[i].PhysicalAddress]
      BY <2>7, <2>8, <2>9
    <3>2. CASE i = k
      BY <2>3, <2>4, <2>7, <2>9, <3>1, <3>2
    <3>3. CASE i # k
      <4>1. i \in 1 .. k - 1 /\ k \in 1 .. k
        BY <2>3, <3>3
      <4>2. child[i].PhysicalAddress # g
        BY <2>3, <2>5, <2>6, <3>3, <4>1
      <4> QED BY <2>3, <2>7, <2>9, <3>1, <4>1, <4>2
    <3> QED BY <3>2, <3>3
  <2>11. Copies(Cur', data', parent, child)
    <3>1. Len(child) = Cur'.curPage - 1 /\ Len(child) <= Len(parent) /\ 1 .. Cur'.curPage - 1 = 1 .. k
      BY <1>s, <2>1, <2>3
    <3> QED BY <2>1, <2>3, <2>10, <3>1 DEF Copies
  <2> QED BY <2>1, <2>2, <2>11 DEF parent, child
<1> QED
  BY <1>1, <1>2, <1>3, <1>4, <1>5, <1>6, <1>7, <1>8, <1>9 DEF Next

-----------------------------------------------------------------------------
(***************************************************************************)
(* The invariant.                                                          *)
(***************************************************************************)
LEMMA InitIInv == Init => IInv
<1> SUFFICES ASSUME Init PROVE IInv
  OBVIOUS
<1>1. /\ FirstTask \in Task /\ cpu = FirstTask /\ PageInUse = {1} /\ 1 \in Page
  BY MemoryManagerAssumption DEF Init, Page
<1>2. \A t \in Task : /\ MemoryState[t].PageGlobalDirectory = Null /\ Dir(t) = Null
                      /\ MemoryState[t].UserPages = << >> /\ MemoryState[t].KernelPages = << >>
                      /\ home[t] = (IF t = FirstTask THEN 1 ELSE Null)
                      /\ act[t] = Idle(t, IF t = FirstTask THEN "move" ELSE "none")
  BY DEF Init, Dir
<1>3. \A f \in Frame : data[f] = 0 /\ \A i \in Entry : memory[f][i] = Fault
  BY DEF Init, Entry
<1>4. /\ Cur = Idle(cpu, "move") /\ Cur.at = "move" /\ Cur.op = "none"
      /\ Cur.page = Null /\ Cur.dst = cpu
  BY <1>1, <1>2 DEF Cur, Idle
<1>5. \A t \in Task : Created(t) <=> t = FirstTask
  <2>1. \A t, at : Idle(t, at).at = at
    BY DEF Idle
  <2>2. \A t \in Task : act[t].at = IF t = FirstTask THEN "move" ELSE "none"
    BY <1>2, <2>1
  <2> QED BY <2>2 DEF Created
<1>6. Types
  <2>1. memory \in [Frame -> [Entry -> Word]]
    BY DEF Init, Entry, Word
  <2>2. home \in [Task -> Frame]
    BY <1>1, Sizes DEF Init
  <2>3. MemoryState \in [Task -> [PageGlobalDirectory : Frame, UserPages : Seq(UserPage),
                                  KernelPages : Seq(Frame)]]
    BY Sizes DEF Init
  <2>4. act \in [Task -> Activation]
    <3>1. \A t \in Task : Idle(t, IF t = FirstTask THEN "move" ELSE "none") \in Activation
      BY IdleType
    <3> QED BY <3>1 DEF Init
  <2> QED BY <1>1, <2>1, <2>2, <2>3, <2>4 DEF Types
<1>7. Control
  <2>1. Alone
    BY <1>1, <1>5 DEF Alone
  <2>2. \A t \in Task \ {cpu} : act[t] = Idle(t, "none")
    BY <1>1, <1>2
  <2> QED BY <1>4, <2>1, <2>2 DEF Control
<1> USE DEF Ready
<1>8. \A t \in Task : KernelPagesOf(t) = {} /\ UserPagesOf(t) = {}
  BY <1>2 DEF KernelPagesOf, UserPagesOf, Elements
<1>9. \A t \in Task : Held(t) = {}
  BY <1>4, <1>6, <1>7, HeldIs DEF HeldBy
<1>10. Books
  <2>1. ASSUME NEW t \in Task, NEW k \in Uses
        PROVE  Used(t, k) = IF k = "home" /\ t = FirstTask THEN {1} ELSE {}
    <3>1. Used(t, "user") = {} /\ Used(t, "kernel") = {} /\ Used(t, "held") = {}
      BY <1>8, <1>9 DEF Used
    <3>2. Used(t, "home") = {home[t]} \ {Null}
      BY DEF Used
    <3>3. home[t] = IF t = FirstTask THEN 1 ELSE Null
      BY <1>2
    <3>4. Used(t, "home") = IF t = FirstTask THEN {1} ELSE {}
      BY <3>2, <3>3, Sizes
    <3> QED BY <3>1, <3>4 DEF Uses
  <2>2. OneUse
    BY <2>1 DEF OneUse
  <2>3. Exact
    BY <1>1, <2>1 DEF Exact, Uses
  <2>4. \A t \in Task : ListedOnce(t)
    BY <1>2 DEF ListedOnce
  <2> QED BY <2>2, <2>3, <2>4 DEF Books
<1>11. Choosing
  BY <1>4 DEF Choosing
<1>12. Untouched
  BY <1>1, <1>2, <1>5 DEF Untouched
<1>13. \A f \in Frame : Blank(memory, f)
  BY <1>3 DEF Blank
<1>14. Trees
  <2>1. OneParent(memory) /\ \A t \in Task : NoParent(memory, Dir(t))
    BY <1>3 DEF OneParent, NoParent
  <2> QED BY <1>2, <1>8, <1>13, <2>1, NullTree DEF Trees
<1>15. Mapped
  <2>1. \A va \in VA : \A t \in Task : P4(memory, Dir(t), va) = Fault
    BY <1>2, <1>13, BlankDirectory, Sizes
  <2> QED BY <1>2, <2>1 DEF Mapped
<1>16. Walking /\ Copying
  BY <1>4 DEF Walking, Copying, Mapping, InTable, Making, Allocating
<1>17. data \in [Frame -> 0 .. 2]
  BY DEF Init
<1> QED
  BY <1>6, <1>7, <1>10, <1>11, <1>12, <1>14, <1>15, <1>16, <1>17 DEF IInv, Good

LEMMA NextIInv ==
    ASSUME ConcurrentFaults = FALSE, IInv, Next
    PROVE  IInv'
<1>1. Ready
  BY DEF IInv, Ready
<1>2. Types' /\ Control'
  BY <1>1, TypesStep, ControlStep
<1>3. Ready'
  BY <1>2 DEF Ready
<1>4. ASSUME TablesAvailable' PROVE Good'
  <2>1. TablesAvailable
    BY <1>1, <1>4, AvailableBefore
  <2>2. /\ data \in [Frame -> 0 .. 2] /\ Books /\ OneUse /\ Choosing /\ Untouched /\ Trees /\ Mapped
        /\ Walking /\ Copying
    BY <2>1 DEF IInv, Good, Books
  <2>3. data' \in [Frame -> 0 .. 2]
    BY <1>1, <2>2, DataStep
  <2>4. Books' /\ Choosing' /\ Untouched'
    BY <1>1, <1>3, <1>4, <2>2, BooksStep, ChoosingStep, UntouchedStep
  <2>5. Trees' /\ Mapped' /\ Walking'
    BY <1>1, <1>3, <1>4, <2>1, <2>2, TreesStep, MappedStep, WalkingStep
  <2>6. Copying'
    BY <1>1, <1>3, <2>2, CopyingStep
  <2> QED BY <2>3, <2>4, <2>5, <2>6 DEF Good
<1> QED BY <1>2, <1>4 DEF IInv

LEMMA StutterIInv ==
    ASSUME IInv, UNCHANGED vars
    PROVE  IInv'
<1>1. /\ PageInUse' = PageInUse /\ memory' = memory /\ data' = data /\ home' = home
      /\ MemoryState' = MemoryState /\ cpu' = cpu /\ act' = act
  BY DEF vars
<1>2. Types' /\ Control'
  BY <1>1 DEF IInv, Types, Control, Cur, Alone, Created, InScope, WellFormed, Allocating
<1>3. TablesAvailable' = TablesAvailable
  BY <1>1 DEF TablesAvailable, KernelPagesOf
<1>4. Cur' = Cur /\ (Making' <=> Making)
  BY <1>1 DEF Cur, Making, Allocating
<1>5. \A t \in Task : /\ Held(t)' = Held(t) /\ KernelPagesOf(t)' = KernelPagesOf(t)
                      /\ UserPagesOf(t)' = UserPagesOf(t) /\ Dir(t)' = Dir(t)
  BY <1>1 DEF Held, KernelPagesOf, UserPagesOf, Dir
<1>6. Books => Books'
  <2>1. \A t \in Task : \A k \in Uses : Used(t, k)' = Used(t, k)
    BY <1>1, <1>5 DEF Used, Uses
  <2>2. OneUse /\ Exact => OneUse' /\ Exact'
    BY <1>1, <2>1, SameUses
  <2>3. (\A t \in Task : ListedOnce(t)) => \A t \in Task : ListedOnce(t)'
    BY <1>1 DEF ListedOnce
  <2> QED BY <2>2, <2>3 DEF Books
<1>7. (Choosing => Choosing') /\ (Untouched => Untouched')
  BY <1>1, <1>4 DEF Choosing, Untouched, Created, Dir
<1>8. (Trees => Trees') /\ (Mapped => Mapped')
  BY <1>1, <1>5 DEF Trees, Mapped, Dir
<1>9. (Walking => Walking') /\ (Copying => Copying')
  BY <1>1, <1>4 DEF Walking, Copying, Mapping, InTable, Allocating, Dir
<1> QED BY <1>1, <1>2, <1>3, <1>6, <1>7, <1>8, <1>9 DEF IInv, Good

\* The inductive invariant, of MapPage, GetFreePage and CopyVirtualMemory at every
\* step between two of their loads and stores.
THEOREM MemoryInvariance == ASSUME ConcurrentFaults = FALSE PROVE Spec => []IInv
<1>1. IInv /\ [Next]_vars => IInv'
  BY NextIInv, StutterIInv
<1> QED BY <1>1, InitIInv, PTL DEF Spec

\* Every variable of MemoryManager.cpp has its type: always the bitset, the tables
\* and the books, and while tables are available the bytes that programs see too.
THEOREM MemoryTypes ==
    ASSUME ConcurrentFaults = FALSE
    PROVE  Spec => [](Types /\ (TablesAvailable => TypeOK))
<1>1. ASSUME IInv PROVE Types /\ (TablesAvailable => TypeOK)
  <2>1. Types
    BY <1>1 DEF IInv
  <2>2. ASSUME TablesAvailable PROVE TypeOK
    <3>1. data \in [Frame -> 0 .. 2]
      BY <1>1, <2>2 DEF IInv, Good
    <3> QED BY <2>1, <3>1 DEF Types, TypeOK, Entry, UserPage
  <2> QED BY <2>1, <2>2
<1> QED BY <1>1, MemoryInvariance, PTL

\* A list without repetitions has as many elements as entries.
LEMMA ListSize ==
    ASSUME NEW n \in Nat, NEW g, \A i, j \in 1 .. n : g[i] = g[j] => i = j,
           NEW S, \A x : x \in S <=> \E i \in 1 .. n : x = g[i]
    PROVE  Cardinality(S) = n
<1> DEFINE h == [i \in 1 .. n |-> g[i]]
<1>1. h \in Bijection(1 .. n, S)
  BY DEF Bijection, Injection, Surjection, IsInjective
<1>2. ExistsBijection(1 .. n, S)
  BY <1>1 DEF ExistsBijection
<1>3. IsFiniteSet(1 .. n) /\ Cardinality(1 .. n) = n
  BY FS_Interval
<1> QED BY <1>2, <1>3, FS_Bijection

\* A page in two roles at once would be overwritten by one of its owners: each page
\* holds one TaskStruct, or is one table, or is mapped once, or is on its way.
THEOREM OneUsePerPage == ASSUME ConcurrentFaults = FALSE PROVE Spec => []PagesHaveOneUse
<1>1. ASSUME IInv, TablesAvailable
      PROVE  /\ \A t \in Task :
                  /\ Cardinality(UserPagesOf(t)) = Len(MemoryState[t].UserPages)
                  /\ Cardinality(KernelPagesOf(t)) = Len(MemoryState[t].KernelPages)
                  /\ UserPagesOf(t) \intersect KernelPagesOf(t) = {}
                  /\ home[t] \notin UserPagesOf(t) \union KernelPagesOf(t) \union Held(t)
                  /\ \A u \in Task : Held(t) \intersect (UserPagesOf(u) \union KernelPagesOf(u)) = {}
             /\ \A t, u \in Task : t # u =>
                  ({home[t]} \union UserPagesOf(t) \union KernelPagesOf(t) \union Held(t))
                    \intersect ({home[u]} \union UserPagesOf(u) \union KernelPagesOf(u) \union Held(u))
                  \subseteq {Null}
  <2>1. Ready /\ Books
    BY <1>1 DEF IInv, Good, Ready
  <2>2. \A t \in Task : \A k \in Uses : Used(t, k) \subseteq Page
    BY <1>1, <2>1, UsedType
  <2>3. \A t \in Task : /\ UserPagesOf(t) \subseteq Page /\ KernelPagesOf(t) \subseteq Page
                        /\ Held(t) \subseteq Page /\ home[t] \in Page \union {Null}
    BY <2>1, <2>2, UsesAre DEF Uses
  <2>4. ASSUME NEW t \in Task
        PROVE  /\ Cardinality(UserPagesOf(t)) = Len(MemoryState[t].UserPages)
               /\ Cardinality(KernelPagesOf(t)) = Len(MemoryState[t].KernelPages)
    <3> DEFINE users == MemoryState[t].UserPages
               tables == MemoryState[t].KernelPages
    <3>1. /\ DOMAIN users = 1 .. Len(users) /\ Len(users) \in Nat
          /\ DOMAIN tables = 1 .. Len(tables) /\ Len(tables) \in Nat
      BY <2>1, ListTypes
    <3>2. /\ \A i, j \in 1 .. Len(users) : users[i].PhysicalAddress = users[j].PhysicalAddress => i = j
          /\ \A i, j \in 1 .. Len(tables) : tables[i] = tables[j] => i = j
      BY <2>1, <3>1 DEF Books, ListedOnce
    <3>3. \A x : x \in KernelPagesOf(t) <=> \E i \in 1 .. Len(tables) : x = tables[i]
      BY <3>1 DEF KernelPagesOf, Elements
    <3>4. Cardinality(KernelPagesOf(t)) = Len(tables)
      <4>1. PICK n \in Nat : n = Len(tables)
        BY <3>1
      <4> HIDE DEF tables
      <4>2. /\ \A i, j \in 1 .. n : tables[i] = tables[j] => i = j
            /\ \A x : x \in KernelPagesOf(t) <=> \E i \in 1 .. n : x = tables[i]
        BY <3>2, <3>3, <4>1
      <4>3. Cardinality(KernelPagesOf(t)) = n
        BY ONLY <4>2, ListSize
      <4> QED BY <4>1, <4>3
    <3> DEFINE g == [i \in 1 .. Len(users) |-> users[i].PhysicalAddress]
    <3>5. \A i \in 1 .. Len(users) : g[i] = users[i].PhysicalAddress
      OBVIOUS
    <3>6. \A x : x \in UserPagesOf(t) <=> \E i \in 1 .. Len(users) : x = g[i]
      BY <3>1 DEF UserPagesOf, Elements
    <3>7. \A i, j \in 1 .. Len(users) : g[i] = g[j] => i = j
      BY <3>2, <3>5
    <3>8. Cardinality(UserPagesOf(t)) = Len(users)
      <4> HIDE DEF g
      <4>1. PICK n \in Nat, h \in {g} : n = Len(users)
        BY <3>1
      <4>2. \A i, j \in 1 .. n : h[i] = h[j] => i = j
        BY <3>7, <4>1
      <4>3. \A x : x \in UserPagesOf(t) <=> \E i \in 1 .. n : x = h[i]
        BY <3>6, <4>1
      <4>4. Cardinality(UserPagesOf(t)) = n
        BY <4>2, <4>3, ListSize
      <4> QED BY <4>1, <4>4
    <3> QED BY <3>4, <3>8
  <2>5. ASSUME NEW p \in Page, NEW t \in Task, NEW u \in Task
        PROVE  /\ ~(p \in UserPagesOf(t) /\ p \in KernelPagesOf(t))
               /\ p = home[t] => p \notin UserPagesOf(t) /\ p \notin KernelPagesOf(t) /\ p \notin Held(t)
               /\ p \in Held(t) => p \notin UserPagesOf(u) /\ p \notin KernelPagesOf(u)
    <3>1. p # Null
      BY Sizes
    <3> QED BY <2>1, <3>1, UsesAre DEF Books, OneUse, Uses
  <2>6. ASSUME NEW p \in Page, NEW t \in Task, NEW u \in Task, t # u,
               p \in {home[t]} \union UserPagesOf(t) \union KernelPagesOf(t) \union Held(t),
               p \in {home[u]} \union UserPagesOf(u) \union KernelPagesOf(u) \union Held(u)
        PROVE  FALSE
    <3>1. p # Null
      BY Sizes
    <3>2. (\E k \in Uses : p \in Used(t, k)) /\ (\E k \in Uses : p \in Used(u, k))
      BY <2>1, <2>6, <3>1, UsesAre DEF Uses
    <3> QED BY <2>1, <2>6, <3>2 DEF Books, OneUse
  <2>7. \A t \in Task :
          /\ UserPagesOf(t) \intersect KernelPagesOf(t) = {}
          /\ home[t] \notin UserPagesOf(t) \union KernelPagesOf(t) \union Held(t)
          /\ \A u \in Task : Held(t) \intersect (UserPagesOf(u) \union KernelPagesOf(u)) = {}
    BY <2>3, <2>5, Sizes
  <2>8. \A t, u \in Task : t # u =>
          ({home[t]} \union UserPagesOf(t) \union KernelPagesOf(t) \union Held(t))
            \intersect ({home[u]} \union UserPagesOf(u) \union KernelPagesOf(u) \union Held(u))
          \subseteq {Null}
    BY <2>3, <2>6
  <2> QED BY <2>4, <2>7, <2>8
<1>2. IInv => PagesHaveOneUse
  BY <1>1 DEF PagesHaveOneUse
<1> QED BY <1>2, MemoryInvariance, PTL

\* GetFreePage and its callers leak no page and mark none twice: a bit of the bitset
\* is set for the pages that some task uses, and for no other.
THEOREM BitsetIsExact == ASSUME ConcurrentFaults = FALSE PROVE Spec => []BitsetExact
<1>1. ASSUME IInv, TablesAvailable
      PROVE  PageInUse =
               (UNION {{home[t]} \union UserPagesOf(t) \union KernelPagesOf(t) \union Held(t) : t \in Task})
                 \ {Null}
  <2>1. Ready /\ Books /\ PageInUse \subseteq Page
    BY <1>1 DEF IInv, Good, Ready, Types
  <2> DEFINE All(t) == {home[t]} \union UserPagesOf(t) \union KernelPagesOf(t) \union Held(t)
  <2>2. ASSUME NEW p, p # Null, NEW t \in Task
        PROVE  p \in All(t) <=> \E k \in Uses : p \in Used(t, k)
    BY <2>1, <2>2, UsesAre DEF Uses
  <2>3. \A t \in Task : \A k \in Uses : Used(t, k) \subseteq Page
    BY <1>1, <2>1, UsedType
  <2>4. ASSUME NEW p \in PageInUse PROVE p # Null /\ \E t \in Task : p \in All(t)
    <3>1. p \in Page /\ p # Null
      BY <2>1, Sizes
    <3>2. \E t \in Task : \E k \in Uses : p \in Used(t, k)
      BY <2>1, <3>1 DEF Books, Exact
    <3> QED BY <2>2, <3>1, <3>2
  <2>5. ASSUME NEW p, p # Null, NEW t \in Task, p \in All(t) PROVE p \in PageInUse
    <3>1. PICK k \in Uses : p \in Used(t, k)
      BY <2>2, <2>5
    <3>2. p \in Page
      BY <2>3, <3>1
    <3> QED BY <2>1, <3>1, <3>2 DEF Books, Exact
  <2>6. \A p : p \in PageInUse <=> p # Null /\ \E t \in Task : p \in All(t)
    BY <2>4, <2>5
  <2>7. PageInUse = (UNION {All(t) : t \in Task}) \ {Null}
    BY <2>6
  <2> QED BY <2>7
<1>2. IInv => BitsetExact
  BY <1>1 DEF BitsetExact
<1> QED BY <1>2, MemoryInvariance, PTL

\* MapPage writes the tables and the lists of MemoryState in separate steps, and
\* they agree: the MMU translates what UserPages lists, to the page that it lists,
\* and no other address, and it walks the tables that KernelPages lists.
THEOREM TablesAndBooks == ASSUME ConcurrentFaults = FALSE PROVE Spec => []TablesMatchBooks
<1>1. ASSUME IInv, TablesAvailable, NEW t \in Task
      PROVE  /\ \A va \in VA :
                  LET listed == {u \in Elements(MemoryState[t].UserPages) : u.VirtualAddress = va}
                  IN  IF listed = {} THEN Translate(t, va) = Fault
                      ELSE \A u \in listed : Translate(t, va) = u.PhysicalAddress
             /\ Reachable(t) = KernelPagesOf(t) \union UserPagesOf(t)
  <2>1. Ready /\ Trees /\ Mapped
    BY <1>1 DEF IInv, Good, Ready
  <2> DEFINE pages == MemoryState[t].UserPages
  <2>2. ASSUME NEW u \in Elements(pages)
        PROVE  P4(memory, Dir(t), u.VirtualAddress) = u.PhysicalAddress
    <3>1. PICK i \in DOMAIN pages : u = pages[i]
      BY DEF Elements
    <3> QED BY <2>1, <3>1 DEF Mapped
  <2>3. ASSUME NEW va \in VA, \A u \in Elements(pages) : u.VirtualAddress # va
        PROVE  P4(memory, Dir(t), va) = Fault
    <3>1. \A i \in DOMAIN pages : pages[i].VirtualAddress # va
      BY <2>3 DEF Elements
    <3> QED BY <2>1, <3>1 DEF Mapped
  <2>4. \A va \in VA :
          LET listed == {u \in Elements(pages) : u.VirtualAddress = va}
          IN  IF listed = {} THEN Translate(t, va) = Fault
              ELSE \A u \in listed : Translate(t, va) = u.PhysicalAddress
    BY <2>2, <2>3, TranslateIs
  <2>5. \A frames : Children(frames) = ChildrenIn(memory, frames)
    BY DEF Children, ChildrenIn, Entry
  <2> DEFINE d == Dir(t)
             Z == T0(memory, d)
             A == T1(memory, d)
             B == T2(memory, d)
             C == T3(memory, d)
             D == T4(memory, d)
  <2>6. /\ {MemoryState[t].PageGlobalDirectory} \ {Null} = Z
        /\ Children(Z) = A /\ Children(A) = B /\ Children(B) = C /\ Children(C) = D
    BY <2>5 DEF T0, T1, T2, T3, T4, Dir
  <2>7. Reachable(t) = UNION {Z, A, B, C, D}
    <3> HIDE DEF Z, A, B, C, D
    <3> QED BY <2>6 DEF Reachable
  <2>8. KernelPagesOf(t) = Z \union A \union B \union C /\ UserPagesOf(t) = D
    BY <2>1 DEF Trees, Tables
  <2>9. UNION {Z, A, B, C, D} = Z \union A \union B \union C \union D
    <3> HIDE DEF Z, A, B, C, D
    <3> QED OBVIOUS
  <2> QED BY <2>4, <2>7, <2>8, <2>9
<1>2. IInv => TablesMatchBooks
  BY <1>1 DEF TablesMatchBooks
<1> QED BY <1>2, MemoryInvariance, PTL

\* CopyVirtualMemory, which reads its parent's pages through the user's addresses
\* while it allocates, maps and fills the child's: a complete child sees what its
\* parent sees, on pages of its own.
THEOREM ForkCopies == ASSUME ConcurrentFaults = FALSE PROVE Spec => []ForkCopiesMemory
<1>1. ASSUME IInv, TablesAvailable, Cur.at = "publish", Cur.curPage > Len(MemoryState[cpu].UserPages),
             NEW va \in VA, Translate(cpu, va) # Fault
      PROVE  /\ Translate(Cur.dst, va) # Fault
             /\ Translate(Cur.dst, va) # Translate(cpu, va)
             /\ data[Translate(Cur.dst, va)] = data[Translate(cpu, va)]
  <2>1. Ready /\ Books /\ Mapped /\ Copying
    BY <1>1 DEF IInv, Good, Ready
  <2>d. PICK d \in Task, n \in Nat : d = Cur.dst /\ n = Cur.curPage
    BY <2>1, Typed
  <2> DEFINE parent == MemoryState[cpu].UserPages
             child == MemoryState[d].UserPages
  <2>2. Making /\ d # cpu
    BY <1>1, <2>1, <2>d, Phases DEF Resting, Making, Allocating, InScope, WellFormed
  <2>3. /\ Len(child) = n - 1 /\ Len(child) <= Len(parent) /\ n > Len(parent)
        /\ \A i \in 1 .. Len(child) : child[i].VirtualAddress = parent[i].VirtualAddress
        /\ \A i \in 1 .. n - 1 : data[child[i].PhysicalAddress] = data[parent[i].PhysicalAddress]
    BY <1>1, <2>1, <2>2, <2>d DEF Copying
  <2>4. /\ DOMAIN parent = 1 .. Len(parent) /\ Len(parent) \in Nat /\ parent \in Seq(UserPage)
        /\ DOMAIN child = 1 .. Len(child) /\ Len(child) \in Nat /\ child \in Seq(UserPage)
    BY <2>1, ListTypes, Typed
  <2>5. PICK i \in DOMAIN parent : parent[i].VirtualAddress = va
    BY <1>1, <2>1, TranslateIs, Typed DEF Mapped
  <2>6. i \in DOMAIN child /\ i \in 1 .. n - 1 /\ i \in 1 .. Len(child)
    BY <2>3, <2>4, <2>5
  <2>7. child[i].VirtualAddress = va /\ data[child[i].PhysicalAddress] = data[parent[i].PhysicalAddress]
    BY <2>3, <2>5, <2>6
  <2>8. /\ P4(memory, Dir(cpu), va) = parent[i].PhysicalAddress
        /\ P4(memory, Dir(d), va) = child[i].PhysicalAddress
    <3>1. /\ P4(memory, Dir(cpu), parent[i].VirtualAddress) = parent[i].PhysicalAddress
          /\ P4(memory, Dir(d), child[i].VirtualAddress) = child[i].PhysicalAddress
      BY <2>1, <2>5, <2>6, Typed DEF Mapped
    <3> QED BY <2>5, <2>7, <3>1
  <2>9. /\ parent[i].PhysicalAddress \in UserPagesOf(cpu)
        /\ child[i].PhysicalAddress \in UserPagesOf(d) /\ child[i].PhysicalAddress \in Page
    <3>1. child[i].PhysicalAddress \in UserPagesOf(d) /\ parent[i].PhysicalAddress \in UserPagesOf(cpu)
      BY <2>5, <2>6 DEF UserPagesOf, Elements
    <3> QED BY <2>1, <3>1, ListTypes
  <2>10. child[i].PhysicalAddress # parent[i].PhysicalAddress
    BY <2>1, <2>2, <2>9, UsesAre, Typed DEF Books, OneUse, Uses
  <2> QED BY <2>7, <2>8, <2>9, <2>10, <2>d, TranslateIs, Sizes
<1>2. IInv => ForkCopiesMemory
  BY <1>1 DEF ForkCopiesMemory
<1> QED BY <1>2, MemoryInvariance, PTL

\* What the MMU finds for a task is one of its pages.
LEMMA FoundIsOwn ==
    ASSUME Ready, TablesAvailable, Trees, NEW t \in Task, NEW va \in VA, Translate(t, va) # Fault
    PROVE  Translate(t, va) \in UserPagesOf(t) /\ Translate(t, va) \in Page
<1>1. CASE Dir(t) # Null
  <2>1. Typing(memory) /\ Dir(t) \in Frame \ {Null}
    BY <1>1, MemoryTyping, ListTypes
  <2>2. P4(memory, Dir(t), va) \in T4(memory, Dir(t)) \union {Fault}
    BY <2>1, PathInTree
  <2>3. Translate(t, va) \in UserPagesOf(t)
    BY <2>2, TranslateIs DEF Trees
  <2> QED BY <2>3, ListTypes
<1>2. CASE Dir(t) = Null
  <2>1. P4(memory, Null, va) = Fault
    BY NullBlank, BlankDirectory, Sizes
  <2> QED BY <1>2, <2>1, TranslateIs
<1> QED BY <1>1, <1>2

\* Another task exists, so the running one is not serving a fault.
LEMMA OthersExist ==
    ASSUME Ready, NEW t \in Task, t # cpu, Created(t), Cur.op \in {"move", "fault", "fork"}
    PROVE  Cur.op = "fork" /\ Cur.dst # t /\ Cur.dst # cpu
<1>1. ~Alone /\ ~Resting(Cur)
  BY DEF Alone, Ready, Control, Idle, WellFormed, Allocating, Resting
<1> QED BY <1>1, Phases DEF InScope

LEMMA PrivateStep ==
    ASSUME ConcurrentFaults = FALSE, IInv, Next, TablesAvailable, NEW t \in Task, t # cpu, Created(t),
           NEW va \in VA, Translate(t, va) # Fault
    PROVE  /\ Translate(t, va)' = Translate(t, va)
           /\ (data[Translate(t, va)])' = data[Translate(t, va)]
<1>1. Ready /\ Books /\ OneUse /\ Trees /\ Mapped /\ Walking /\ Copying
  BY DEF IInv, Good, Ready, Books
<1> DEFINE p == Translate(t, va)
<1>2. p \in Page /\ p \in UserPagesOf(t) /\ p = P4(memory, Dir(t), va)
  BY <1>1, FoundIsOwn, TranslateIs
<1>3. \A u \in Task \ {t} : p \notin UserPagesOf(u)
  BY <1>1, <1>2, UsesAre DEF OneUse, Uses
<1>a. Translate(t, va)' = P4(memory', Dir(t)', va)
  BY TranslateIs DEF Translate, Step, P4, P3, P2, P1, StepIn, Dir
<1> SUFFICES P4(memory', Dir(t)', va) = p /\ data'[p] = data[p]
  BY <1>a, <1>2
<1> HIDE DEF p
<1>4. CASE OtherActions
  <2>1. P4(memory', Dir(t)', va) = p
    <3>1. memory' = memory /\ Dir(t)' = Dir(t)
      BY <1>1, <1>4, TablesKept DEF Dir
    <3> QED BY <1>2, <3>1
  <2>2. CASE ClearPage
    <3>1. Cur.free \in Page /\ Cur.free \in HeldBy(Cur)
      BY <1>1, <2>2, ClearPageEffect, Sizes DEF HeldBy
    <3>2. p # Cur.free
      BY <1>1, <1>2, <3>1, HeldFree
    <3> QED BY <1>2, <2>1, <2>2, <3>2, Sizes DEF ClearPage
  <2>3. CASE PageMapped
    <3>1. Cur.op \in {"move", "fault"}
      BY <1>1, <2>3, PageMappedEffect
    <3> QED BY <1>1, <3>1, OthersExist
  <2>4. CASE CopyPage
    <3>d. PICK d \in Task, k \in Nat : d = Cur.dst /\ k = Cur.curPage
      BY <1>1, Typed
    <3>1. d # t /\ Making /\ Cur.at = "mapped"
      BY <1>1, <2>4, <3>d, CopyPageEffect, OthersExist DEF Making, Allocating
    <3> DEFINE child == MemoryState[d].UserPages
    <3>2. child[k].PhysicalAddress = Cur.page /\ Len(child) = k /\ k # 0
      <4>1. Copying /\ child = MemoryState[Cur.dst].UserPages
        BY <1>1, <3>d
      <4> HIDE DEF child
      <4>2. child[k].PhysicalAddress = Cur.page /\ Len(child) = k
        BY ONLY <4>1, <3>1, <3>d DEF Copying
      <4>3. k # 0
        BY <1>1, <2>4, <3>d, CopySource
      <4> QED BY <4>2, <4>3
    <3>3. DOMAIN child = 1 .. Len(child)
      BY <1>1, ListTypes
    <3>4. Cur.page \in UserPagesOf(d)
      <4>1. k \in DOMAIN child
        BY <3>2, <3>3
      <4> QED BY <3>2, <4>1 DEF UserPagesOf, Elements
    <3>5. p # Cur.page
      BY <1>3, <3>1, <3>4
    <3> QED BY <1>2, <2>1, <2>4, <3>5, Sizes DEF CopyPage
  <2>5. CASE WriteMemory
    <3>1. PICK vb \in VA :
            /\ Translate(cpu, vb) # Fault
            /\ data' = [data EXCEPT ![Translate(cpu, vb)] = 2]
      BY <2>5 DEF WriteMemory
    <3>2. Translate(cpu, vb) \in UserPagesOf(cpu)
      BY <1>1, <3>1, FoundIsOwn, Typed
    <3>3. p # Translate(cpu, vb)
      BY <1>1, <1>3, <3>2, Typed
    <3> QED BY <1>1, <1>2, <2>1, <3>1, <3>3, Sizes DEF IInv, Good
  <2>6. CASE ~ClearPage /\ ~PageMapped /\ ~CopyPage /\ ~WriteMemory
    <3>1. data' = data
      BY <1>4, <2>6 DEF OtherActions, TestPage, LoadWord, StoreWord, MapDirectory, MapTable,
         MoveToUserMode, do_mem_abort, OtherDataAbort, NewUserPage, NoUserPage, CopyProcess,
         NewTaskStruct, CopyNextPage, PublishTask, Preempt
    <3> QED BY <2>1, <3>1
  <2> QED BY <2>2, <2>3, <2>4, <2>5, <2>6
<1>5. CASE NewDirectory \/ NewTable \/ MapTableEntry
  <2>d. PICK d \in Task, f \in Frame : d = Cur.dst /\ f = Cur.table
    BY <1>1, Typed
  <2>1. data' = data
    BY <1>5 DEF NewDirectory, NewTable, MapTableEntry
  <2>2. d # t
    <3>1. ~Resting(Cur)
      BY <1>1, <1>5, NewDirectoryEffect, NewTableEffect, MapTableEntryEffect DEF Resting
    <3> QED BY <1>1, <2>d, <3>1, Phases, OthersExist
  <2>3. Dir(t)' = Dir(t)
    BY <1>1, <1>5, <2>2, <2>d, NewDirectoryAdds, NewTableAdds, MapTableEntryAdds DEF PageAdded
  <2>4. CASE NewDirectory
    <3>1. memory' = memory
      BY <2>4 DEF NewDirectory
    <3> QED BY <1>2, <2>1, <2>3, <3>1
  <2>5. CASE NewTable \/ MapTableEntry
    <3>1. Cur.at = "walk" \/ (Allocating(Cur) /\ Cur.use = "table")
      BY <1>1, <2>5, NewTableEffect, MapTableEntryEffect DEF Allocating
    <3>2. f \in TreeAt(memory, Dir(d), Cur.level) /\ Cur.level \in 0 .. 3
      BY <1>1, <2>d, <3>1, Typed DEF Walking, InTable
    <3>3. f \in Tables(memory, Dir(d))
      BY <3>2, TreeAtTables
    <3>4. f # Null /\ f \notin Tables(memory, Dir(t))
      BY <1>1, <2>2, <3>3, TreesApart, Sizes
    <3>5. \A h \in Frame \ {f} : memory'[h] = memory[h]
      BY <1>1, <2>5, <2>d DEF NewTable, MapTableEntry, Ready, Types
    <3>6. Typing(memory) /\ Dir(t) \in Frame /\ Blank(memory, Null)
      BY <1>1, MemoryTyping, ListTypes, NullBlank
    <3>7. P4(memory', Dir(t), va) = P4(memory, Dir(t), va)
      BY <3>4, <3>5, <3>6, PathElsewhere
    <3> QED BY <1>2, <2>1, <2>3, <3>7
  <2> QED BY <1>5, <2>4, <2>5
<1> QED BY <1>4, <1>5 DEF Next, OtherActions

\* The page tables are shared with no lock: a step of one task, of its data aborts or
\* of its CopyProcess, changes neither what another task's addresses translate to
\* nor what is in the pages there.
THEOREM PrivateMemory == ASSUME ConcurrentFaults = FALSE PROVE Spec => MemoryIsPrivate
<1> DEFINE A == \A t \in Task : TablesAvailable /\ t # cpu /\ Created(t) =>
                  \A va \in VA : Translate(t, va) # Fault =>
                      /\ Translate(t, va)' = Translate(t, va)
                      /\ (data[Translate(t, va)])' = data[Translate(t, va)]
<1>1. IInv /\ [Next]_vars => [A]_vars
  BY PrivateStep
<1> HIDE DEF A
<1>2. Spec => [][A]_vars
  BY <1>1, MemoryInvariance, PTL DEF Spec
<1> QED BY <1>2 DEF A, MemoryIsPrivate

-----------------------------------------------------------------------------
(***************************************************************************)
(* GetFreePage finds a page as long as there is one.                       *)
(***************************************************************************)
\* GetFreePage returns 0 only when every page is in use.
NullOnlyWhenFull ==
    \A t \in Task : act[t].at = "got" /\ act[t].free = Null => PageInUse = Page

\* The pages that the loop has passed are in use, and the word it stores is not stale.
Scanning ==
    /\ Cur.at = "test" => \A p \in Page : p < Cur.free => p \in PageInUse
    /\ Cur.at = "store" => Cur.word = PageInUse
    /\ Cur.at = "got" /\ Cur.free = Null => PageInUse = Page

\* Every call of GetFreePage begins with the first page, and only its own steps change
\* the bitset.
LEMMA CallsBegin ==
    ASSUME Ready, Next, ~TestPage, ~LoadWord, ~StoreWord, ~ClearPage
    PROVE  PageInUse' = PageInUse /\ (Cur'.at = "test" => Cur'.free = 1)
<1>i. \A t \in Task : Idle(t, "user").at = "user" /\ Idle(t, "hang").at = "hang"
                      /\ Idle(t, "halt").at = "halt"
  BY DEF Idle
<1>1. CASE MapDirectory \/ NewDirectory \/ MapTable \/ NewTable \/ MapTableEntry
  <2>1. PageInUse' = PageInUse
    BY <1>1 DEF MapDirectory, NewDirectory, MapTable, NewTable, MapTableEntry
  <2> QED BY <1>1, <2>1, MapDirectoryEffect, NewDirectoryEffect, MapTableEffect, NewTableEffect,
         MapTableEntryEffect
<1>2. CASE MoveToUserMode \/ do_mem_abort \/ NewUserPage \/ CopyProcess \/ CopyNextPage \/ CopyPage
  <2>1. PageInUse' = PageInUse
    BY <1>2 DEF MoveToUserMode, do_mem_abort, OtherDataAbort, NewUserPage, CopyProcess, CopyNextPage, CopyPage
  <2> QED BY <1>2, <2>1, MoveToUserModeEffect, do_mem_abortEffect, NewUserPageEffect,
         CopyProcessEffect, CopyNextPageEffect, CopyPageEffect
<1>3. CASE OtherDataAbort \/ NoUserPage \/ PageMapped \/ NewTaskStruct \/ PublishTask
  <2>1. PageInUse' = PageInUse
    BY <1>3 DEF OtherDataAbort, NoUserPage, PageMapped, NewTaskStruct, PublishTask
  <2> QED BY <1>3, <1>i, <2>1, Typed, OtherDataAbortEffect, NoUserPageEffect, PageMappedEffect, NewTaskStructEffect,
         PublishTaskEffect
<1>4. CASE WriteMemory
  BY <1>4 DEF WriteMemory, Cur
<1>5. CASE Preempt
  BY <1>5, <1>i, PreemptIdle DEF Preempt
<1> QED BY <1>1, <1>2, <1>3, <1>4, <1>5 DEF Next

LEMMA ScanningStep ==
    ASSUME Ready, Next, Scanning
    PROVE  Scanning'
<1>1. CASE TestPage
  <2>1. PageInUse' = PageInUse /\ Cur.at = "test"
    BY <1>1 DEF TestPage
  <2>2. CASE Cur'.at = "got"
    <3>1. ~(Cur.free <= PageCount)
      BY <1>1, <2>2, Typed DEF TestPage, Become, Cur, InBitset
    <3>2. \A p \in Page : p < Cur.free
      BY <3>1, Typed, Sizes
    <3> QED BY <2>1, <2>2, <3>2 DEF Scanning, Ready, Types
  <2>3. CASE Cur'.at = "test"
    <3>1. Cur'.free = Cur.free + 1 /\ Cur.free \in PageInUse
      BY <1>1, <2>3, Typed, TestPageEffect DEF TestPage, Become, Cur, InBitset
    <3>2. \A p \in Page : p < Cur.free + 1 => p < Cur.free \/ p = Cur.free
      BY Typed, Sizes
    <3> QED BY <2>1, <2>3, <3>1, <3>2 DEF Scanning
  <2>4. CASE Cur'.at = "load"
    BY <2>1, <2>4 DEF Scanning
  <2> QED BY <1>1, <2>2, <2>3, <2>4, TestPageEffect
<1>2. CASE LoadWord
  BY <1>2, LoadWordEffect DEF Scanning, LoadWord
<1>3. CASE StoreWord
  BY <1>3, StoreWordEffect DEF Scanning
<1>4. CASE ClearPage
  <2>1. PageInUse' = PageInUse
    BY <1>4 DEF ClearPage
  <2> QED BY <1>4, <2>1, ClearPageEffect, Sizes DEF Scanning
<1>5. CASE ~TestPage /\ ~LoadWord /\ ~StoreWord /\ ~ClearPage
  <2>1. \A p \in Page : ~(p < 1)
    BY Sizes
  <2> QED BY <1>5, <2>1, CallsBegin, OthersLeave DEF Scanning
<1> QED BY <1>1, <1>2, <1>3, <1>4, <1>5

LEMMA ScanningAlways == ASSUME ConcurrentFaults = FALSE PROVE Spec => []Scanning
<1>1. ASSUME Init PROVE Scanning
  <2>1. FirstTask \in Task /\ Cur = Idle(FirstTask, "move")
    BY <1>1, MemoryManagerAssumption DEF Init, Cur
  <2>2. Cur.at = "move"
    BY <2>1 DEF Idle
  <2> QED BY <2>2 DEF Scanning
<1>2. IInv /\ Scanning /\ [Next]_vars => Scanning'
  <2>1. ASSUME IInv, Scanning, Next PROVE Scanning'
    BY <2>1, ScanningStep DEF IInv, Ready
  <2>2. ASSUME Scanning, UNCHANGED vars PROVE Scanning'
    BY <2>2 DEF vars, Scanning, Cur
  <2> QED BY <2>1, <2>2
<1> QED BY <1>1, <1>2, MemoryInvariance, PTL DEF Spec

\* GetFreePage returns 0 only when there is no page left, in whatever order the pages were
\* taken and whoever called it: the failures that its callers handle, or do not, are those
\* of a full memory.
THEOREM FailsOnlyWhenFull == ASSUME ConcurrentFaults = FALSE PROVE Spec => []NullOnlyWhenFull
<1>1. Control /\ Scanning => NullOnlyWhenFull
  <2> SUFFICES ASSUME Control, Scanning, NEW t \in Task, act[t].at = "got", act[t].free = Null
               PROVE  PageInUse = Page
    BY DEF NullOnlyWhenFull
  <2>1. t = cpu
    BY DEF Control, Idle
  <2> QED BY <2>1 DEF Scanning, Cur
<1>2. IInv => Control
  BY DEF IInv
<1> QED BY <1>1, <1>2, ScanningAlways, MemoryInvariance, PTL
=============================================================================
