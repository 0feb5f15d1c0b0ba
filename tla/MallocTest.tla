----------------------------- MODULE MallocTest -----------------------------
(***************************************************************************)
(* chpt7_q2 of c/chpt7/q2.c, the one client of the allocator in the        *)
(* repository: 36 calls in a fixed order, and after most of them asserts   *)
(* about every link in the heap.  Here it is the environment of Malloc.    *)
(*                                                                         *)
(* The asserts after a call spell out one heap layout.  A layout is given  *)
(* as the blocks in order of address, each with the client's variable that *)
(* points to it, or "free", and the length of its body.  The links follow  *)
(* from the layout by the invariants of Malloc.                            *)
(***************************************************************************)
EXTENDS Malloc, SequencesExt

VARIABLES
  step,  \* the number of calls that chpt7_q2 has made
  ptr    \* its variables p, pp, ppp and pppp

testVars == <<vars, step, ptr>>

Pointers == {"p", "pp", "ppp", "pppp"}

(* The statement x = __malloc(size), or __free(x), and the layout asserted. *)
Gets(x, size, heap) ==
  [op |-> "malloc", ptr |-> x, size |-> size, heap |-> heap]
Frees(x, heap) == [op |-> "free", ptr |-> x, size |-> 0, heap |-> heap]

NoAsserts == <<>>

M == MINIMUM_BLOCK_SZ

-----------------------------------------------------------------------------
(* One block, at the start of the heap, that grows from 0 to M bytes. *)
OneBlock ==
  << Gets("p", 0, << <<"p", 0>> >>), Frees("p", << <<"free", 0>> >>),
     Gets("p", 1, << <<"p", 1>> >>), Frees("p", << <<"free", 1>> >>),
     Gets("p", 1, << <<"p", 1>> >>), Frees("p", << <<"free", 1>> >>),
     Gets("p", M, << <<"p", M>> >>), Frees("p", << <<"free", M>> >>) >>

(* Two empty blocks in its place, freed in either order. *)
TwoBlocks ==
  << Gets("p", 0, << <<"free", 0>>, <<"p", 0>> >>),
     Gets("pp", 0, << <<"pp", 0>>, <<"p", 0>> >>),
     Frees("pp", << <<"free", 0>>, <<"p", 0>> >>),
     Frees("p", << <<"free", M>> >>),
     Gets("p", 0, NoAsserts),
     Gets("pp", 0, NoAsserts),
     Frees("p", << <<"pp", 0>>, <<"free", 0>> >>),
     Frees("pp", << <<"free", M>> >>) >>

(* A large block behind it, then three blocks, and the middle one is freed. *)
ThreeBlocks ==
  << Gets("p", M, NoAsserts),
     Gets("ppp", 2 * M, << <<"p", M>>, <<"ppp", 2 * M>> >>),
     Frees("p", << <<"free", M>>, <<"ppp", 2 * M>> >>),
     Gets("pp", 0, << <<"free", 0>>, <<"pp", 0>>, <<"ppp", 2 * M>> >>),
     Gets("p", 0, << <<"p", 0>>, <<"pp", 0>>, <<"ppp", 2 * M>> >>),
     Frees("pp", << <<"p", 0>>, <<"free", 0>>, <<"ppp", 2 * M>> >>) >>

(* Steps 1 and 2 of the test: allocated and free blocks in turn. *)
Strided ==
  << Frees("ppp", << <<"p", 0>>, <<"free", 3 * M>> >>),
     Gets("ppp", 0, << <<"p", 0>>, <<"free", 2 * M>>, <<"ppp", 0>> >>),
     Gets("pppp", 0,
          << <<"p", 0>>, <<"free", M>>, <<"pppp", 0>>, <<"ppp", 0>> >>),
     Gets("pp", 0, << <<"p", 0>>, <<"free", 0>>, <<"pp", 0>>, <<"pppp", 0>>,
                      <<"ppp", 0>> >>),
     Frees("pppp", << <<"p", 0>>, <<"free", 0>>, <<"pp", 0>>, <<"free", 0>>,
                      <<"ppp", 0>> >>) >>

(* Steps 3 to 6: a request that fits nowhere, and one that fits everywhere. *)
FirstFitOverStrides ==
  LET strides == << <<"p", 0>>, <<"free", 0>>, <<"pp", 0>>, <<"free", 0>>,
                    <<"ppp", 0>>, <<"free", M>> >>
  IN  << Gets("pppp", M, [strides EXCEPT ![6] = <<"pppp", M>>]),
         Frees("pppp", strides),
         Gets("pppp", 0, [strides EXCEPT ![2] = <<"pppp", 0>>]),
         Frees("pppp", strides),
         Gets("pppp", 0, NoAsserts) >>

(* The first, the third and then the second block are freed. *)
DoubleMerge ==
  << Frees("p", << <<"free", 0>>, <<"pppp", 0>>, <<"pp", 0>>, <<"free", 0>>,
                   <<"ppp", 0>>, <<"free", M>> >>),
     Frees("pp", << <<"free", 0>>, <<"pppp", 0>>, <<"free", M>>, <<"ppp", 0>>,
                    <<"free", M>> >>),
     Frees("pppp", << <<"free", 3 * M>>, <<"ppp", 0>>, <<"free", M>> >>),
     Frees("ppp", NoAsserts) >>

Script ==
  OneBlock \o TwoBlocks \o ThreeBlocks \o Strided \o FirstFitOverStrides
    \o DoubleMerge

-----------------------------------------------------------------------------
TestInit ==
  /\ Init
  /\ step = 0
  /\ ptr = [x \in Pointers |-> NULL]

(* When __malloc returns, its result is assigned to the variable x. *)
Assign(x) ==
  ptr' = [ptr EXCEPT ![x] =
            IF DOMAIN held' \subseteq DOMAIN held THEN @
            ELSE CHOOSE q \in DOMAIN held' : q \notin DOMAIN held]

(* The next statement of chpt7_q2 makes its call. *)
Call ==
  /\ pc = "idle"
  /\ step < Len(Script)
  /\ step' = step + 1
  /\ LET next == Script[step + 1]
     IN  /\ IF next.op = "malloc" THEN Malloc(next.size)
            ELSE Free(ptr[next.ptr] - ALLOC_BLOCK_HEADER_SZ)
         /\ Assign(next.ptr)

Return ==
  /\ Continue
  /\ Assign(Script[step].ptr)
  /\ UNCHANGED step

TestNext == Call \/ Return

TestSpec == TestInit /\ [][TestNext]_testVars /\ WF_testVars(TestNext)

-----------------------------------------------------------------------------
(* The blocks in order of address, as the layouts of the script show them. *)
HeapNow ==
  LET Owner(b) == IF \E x \in Pointers : ptr[x] = Body(b) /\ b \in AllocBlocks
                    THEN CHOOSE x \in Pointers : ptr[x] = Body(b) /\ b \in AllocBlocks
                  ELSE "free"
      order == SetToSortSeq(Blocks, <)
  IN  [i \in DOMAIN order |-> <<Owner(order[i]), length[order[i]]>>]

(***************************************************************************)
(* No assert of chpt7_q2 fails: after each call that is followed by        *)
(* asserts the heap is laid out as they say, without a gap, and its links  *)
(* and list heads are those of the layout.                                 *)
(***************************************************************************)
AsAsserted ==
  pc = "idle" /\ step > 0 /\ Script[step].heap # NoAsserts =>
    /\ HeapNow = Script[step].heap
    /\ Tiling
    /\ NeighbourLinks
    /\ FreeListSorted
    /\ LastAllocExact

(***************************************************************************)
(* The test gets to its _exit(0): no call hangs, and none finds itself in  *)
(* a case that the code does not handle.                                   *)
(***************************************************************************)
Exits == <>(step = Len(Script) /\ pc = "idle")

=============================================================================
