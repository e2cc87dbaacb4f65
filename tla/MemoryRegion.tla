---------------------------- MODULE MemoryRegion -----------------------------
(****************************************************************************)
(* Memory management, kernel/mm/memory.c: the quantum region, from which    *)
(* quantum_memory_alloc cuts pieces at region->start and to which           *)
(* quantum_memory_free gives them back by moving region->start down.        *)
(*                                                                          *)
(* Both functions hold ctrlxt_mm.lock from end to end, so a call is one     *)
(* step.  The region does not record who has which piece: `pieces` is what  *)
(* its callers know, and each of them frees a piece once, with its size.    *)
(* A page is the unit of every address and size.                            *)
(****************************************************************************)
EXTENDS Integers, Sequences

CONSTANTS
  Base,         \* the address that __get_free_pages returns, not 0
  RegionPages,  \* the size of the quantum region
  PieceSizes,   \* the sizes callers ask for
  Limit,        \* bound: callers ask for no piece that ends after it
  InitFaults    \* the regions whose allocation can fail

ASSUME RegionConstants ==
  /\ Base \in Nat \ {0} /\ RegionPages \in Nat
  /\ PieceSizes \subseteq Nat \ {0}
  /\ Limit \in Nat /\ Limit >= Base

VARIABLES
  mm_loaded,   \* ctrlxt_mm_init returned 0
  regions,     \* the regions on ctrlxt_mm.memory_regions
  start,       \* region->start of the quantum region
  obtained,    \* the address and size of the pages that the module has
  pieces,      \* the pieces that callers have, the oldest first
  ordered      \* history: since the load, each piece that was freed was the
               \* last one, and began in the region

vars == <<mm_loaded, regions, start, obtained, pieces, ordered>>

End == Base + RegionPages

Without(i) == SubSeq(pieces, 1, i - 1) \o SubSeq(pieces, i + 1, Len(pieces))

Nothing == [at |-> 0, size |-> 0]

Init ==
  /\ mm_loaded = FALSE
  /\ regions = {}
  /\ start = 0
  /\ obtained = Nothing
  /\ pieces = <<>>
  /\ ordered = TRUE

(****************************************************************************)
(* ctrlxt_mm_init and mm_exit                                               *)
(****************************************************************************)
Load ==
  /\ ~mm_loaded
  /\ mm_loaded' = TRUE
  /\ regions' = {"normal", "quantum"}
  /\ start' = Base
  /\ obtained' = [at |-> Base, size |-> RegionPages]
  /\ ordered' = TRUE
  /\ UNCHANGED pieces

\* The normal region is not allocated; or the quantum region, or its pages, are
\* not, and the normal region stays behind.
LoadFail ==
  /\ ~mm_loaded
  /\ \/ "normal" \in InitFaults /\ regions' = {}
     \/ "quantum" \in InitFaults /\ regions' = {"normal"}
  /\ UNCHANGED <<mm_loaded, start, obtained, pieces, ordered>>

\* free_pages of what is between region->start and region->end now: the pages
\* are the kernel's again when these are the pages that were obtained.  The
\* users of the module are gone, and have freed their pieces.
Exit ==
  /\ mm_loaded /\ pieces = <<>>
  /\ mm_loaded' = FALSE
  /\ regions' = {}
  /\ obtained' = IF obtained = [at |-> start, size |-> End - start] THEN Nothing
                 ELSE obtained
  /\ UNCHANGED <<start, pieces, ordered>>

(****************************************************************************)
(* quantum_memory_alloc and quantum_memory_free                             *)
(****************************************************************************)
\* Mutant: the piece is not accounted for in full.
AllocShort(n) ==
  /\ mm_loaded
  /\ start + n <= Limit
  /\ pieces' = Append(pieces, [at |-> start, size |-> n])
  /\ start' = start + n - 1
  /\ UNCHANGED <<mm_loaded, regions, obtained, ordered>>

\* Whether the region has n pages left is not looked at.
Alloc(n) ==
  /\ mm_loaded
  /\ start + n <= Limit
  /\ pieces' = Append(pieces, [at |-> start, size |-> n])
  /\ start' = start + n
  /\ UNCHANGED <<mm_loaded, regions, obtained, ordered>>

\* History of the frees.
Freed(i) ==
  ordered' = (ordered /\ i = Len(pieces) /\ pieces[i].at <= End)

\* Mutant: the address is not compared with the last piece.
FreeAny(i) ==
  /\ mm_loaded
  /\ Freed(i)
  /\ start' = IF pieces[i].at <= End THEN start - pieces[i].size ELSE start
  /\ pieces' = Without(i)
  /\ UNCHANGED <<mm_loaded, regions, obtained>>

\* Mutant: a piece that starts where the region now ends is not taken back.
FreeStrict(i) ==
  /\ mm_loaded
  /\ Freed(i)
  /\ start' = IF pieces[i].at > start - pieces[i].size THEN start - pieces[i].size
              ELSE start
  /\ pieces' = Without(i)
  /\ UNCHANGED <<mm_loaded, regions, obtained>>

\* The i-th piece is given back: region->start moves down by its size when it
\* reaches up to region->start, and a piece below that is forgotten.
Free(i) ==
  /\ mm_loaded
  /\ Freed(i)
  /\ LET addr == pieces[i].at
         size == pieces[i].size
     IN  start' = IF addr >= start - size /\ addr <= End THEN start - size ELSE start
  /\ pieces' = Without(i)
  /\ UNCHANGED <<mm_loaded, regions, obtained>>

Next ==
  \/ Load
  \/ LoadFail
  \/ Exit
  \/ \E n \in PieceSizes : Alloc(n)
  \/ \E i \in DOMAIN pieces : Free(i)

Spec == Init /\ [][Next]_vars

(****************************************************************************)
(* Properties                                                               *)
(****************************************************************************)
TypeOK ==
  /\ mm_loaded \in BOOLEAN
  /\ regions \subseteq {"normal", "quantum"}
  /\ start \in {0} \cup Base .. Limit
  /\ obtained \in [at : Nat, size : Nat]
  /\ pieces \in Seq([at : Nat, size : PieceSizes])
  /\ ordered \in BOOLEAN

\* In whatever order callers free their pieces, two pieces never overlap, and
\* none reaches past the point from which the next one is cut: a free that
\* comes out of order is lost, it takes nothing from the others (lines 127-151).
Disjoint ==
  /\ \A i, j \in DOMAIN pieces :
        i < j => pieces[i].at + pieces[i].size <= pieces[j].at
  /\ \A i \in DOMAIN pieces : pieces[i].at + pieces[i].size <= start

\* When every piece was freed, the last one first, the whole region can be
\* allocated again (lines 145-151).
FreedIsFree == mm_loaded /\ pieces = <<>> /\ ordered => start = Base

\* A module that was unloaded after such frees has given back the pages it
\* obtained, and no other (lines 169-174).
ExitFreesAll == ~mm_loaded /\ ordered => obtained = Nothing
==============================================================================
