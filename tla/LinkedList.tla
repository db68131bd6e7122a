----------------------------- MODULE LinkedList -----------------------------
(***************************************************************************)
(* CODE/linked_list: a list of four nodes is made, printed and searched,   *)
(* and then the heap is filled.  A step is an allocation with the stores   *)
(* to the new node, or a round of a loop.                                  *)
(***************************************************************************)
EXTENDS Library, FiniteSets

CONSTANTS
  ListHead,    \* where the pointer head is
  SizeOfNode   \* sizeof(node_t)

ASSUME ListAssumption ==
  /\ ListHead \in (Sbss .. Ebss - 1) \ {SbrkHeapEnd, Errno, MallocTop}
  /\ SizeOfNode \in Nat \ {0}

Persons == <<"Evan", "Billie", "Sam", "Hendrik">>

VARIABLE heap    \* the blocks that malloc has given: the nodes, by address

-----------------------------------------------------------------------------

\* A step of main.
Step(from, to) ==
  /\ prog = "linked_list" /\ at = from /\ at' = to
  /\ UNCHANGED <<image, prog, pointer, mtvec, resets, time, timer>>

EnterMain ==
  /\ Step("main", "new")
  /\ frame' = [current |-> NULL, prev |-> NULL, count |-> 0]
  /\ UNCHANGED <<ram, out, heap>>

CannotAllocate(m) ==
  /\ m.block = NULL
  /\ ram' = m.ram /\ out' = <<"Cannot allocate node!">>
  /\ UNCHANGED <<frame, heap>>

Node(name) == [name |-> name, next |-> NULL]

\* The blocks, and what is stored at the one that malloc has given.
Given(blocks, a, block) ==
  [b \in DOMAIN blocks \cup {a} |-> IF b = a THEN block ELSE blocks[b]]

\* The node is made, and linked to the one before.
NewNode(m) ==
  LET made == Given(heap, m.block, Node(Persons[Cardinality(DOMAIN heap) + 1]))
  IN /\ m.block # NULL
     /\ CASE ram[ListHead] = NULL ->
               /\ ram' = [m.ram EXCEPT ![ListHead] = m.block]
               /\ heap' = made
               /\ UNCHANGED frame
          [] OTHER ->
               /\ ram' = m.ram
               /\ heap' = [made EXCEPT
                    ![IF frame.prev = NULL THEN ram[ListHead] ELSE frame.prev].next = m.block]
               /\ frame' = [frame EXCEPT !.current = m.block, !.prev = m.block]
     /\ UNCHANGED out

MakeNode ==
  \E m \in malloc(SizeOfNode) :
    \/ Step("new", "exit") /\ CannotAllocate(m)
    \/ Step("new", IF Cardinality(DOMAIN heap) + 1 = Len(Persons) THEN "head" ELSE "new")
       /\ NewNode(m)

\* The loops over the list begin at the head.
FirstNode(from, to) ==
  /\ Step(from, to)
  /\ frame' = [frame EXCEPT !.current = ram[ListHead]]
  /\ UNCHANGED <<ram, out, heap>>

\* Mutant: the search goes on from the head, not from the node it is at.
NextOfHead == heap[IF at = "find" THEN ram[ListHead] ELSE frame.current].next

Following == heap[frame.current].next

PrintNode ==
  /\ Step("print", "print") /\ frame.current # NULL
  /\ out' = Append(out, heap[frame.current].name)
  /\ frame' = [frame EXCEPT !.current = Following]
  /\ UNCHANGED <<ram, heap>>

SkipNode ==
  /\ Step("find", "find") /\ frame.current # NULL
  /\ frame' = [frame EXCEPT !.prev = frame.current, !.current = Following]
  /\ UNCHANGED <<ram, out, heap>>

ListPrinted == FirstNode("print", "find") /\ frame.current = NULL

\* The last node is printed.
ListSearched ==
  /\ Step("find", "fill") /\ frame.current = NULL
  /\ out' = Append(out, heap[frame.prev].name)
  /\ UNCHANGED <<ram, frame, heap>>

\* Fill up all memory, but don't penetrate the stack.
Fill ==
  \E m \in malloc(SizeOfNode) :
    /\ Step("fill", IF m.block = NULL THEN "total" ELSE "fill")
    /\ ram' = m.ram
    /\ frame' = [current |-> m.block, prev |-> frame.current,
                 count |-> IF m.block = NULL THEN frame.count ELSE frame.count + 1]
    /\ heap' = IF m.block = NULL THEN heap ELSE Given(heap, m.block, Node(""))
    /\ UNCHANGED out

\* The number of nodes and the last one are printed; _exit loops for ever.
Total ==
  /\ Step("total", "exit")
  /\ out' = <<frame.count, frame.prev>>
  /\ UNCHANGED <<ram, frame, heap>>

LinkedListNext ==
  \/ EnterMain \/ MakeNode \/ FirstNode("head", "print") \/ PrintNode \/ ListPrinted
  \/ SkipNode \/ ListSearched \/ Fill \/ Total

-----------------------------------------------------------------------------
(* Properties *)

Running == at \in {"new", "head", "print", "find", "fill", "total", "get", "store", "exit"}

\* The blocks of the other programs are given with their size.
SizeOf(a) == IF prog = "linked_list" THEN SizeOfNode ELSE heap[a].size

\* The blocks of the heap lie between the program's data and the reserved
\* stack, inside what _sbrk has given, and do not overlap (sys_sbrk.c:28-38,
\* linked_list.c:154-162, malloc.c:8-49).
HeapIsSound ==
  Running =>
    /\ ram[SbrkHeapEnd] # NULL => ram[SbrkHeapEnd] \in EndOfData .. StackLimit
    /\ \A a \in DOMAIN heap :
         /\ EndOfData <= a /\ a + SizeOf(a) <= ram[SbrkHeapEnd] - ram[MallocTop]
         /\ \A b \in DOMAIN heap : a < b => a + SizeOf(a) <= b

\* The filling of the heap ends, and with it main (linked_list.c:154-169); the
\* other programs that return do so too.
MainReturns ==
  prog \in {"linked_list", "global", "malloc", "test", "qsort_int"} /\ at = "main" ~> at = "exit"
=============================================================================
