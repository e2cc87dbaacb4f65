----------------------------- MODULE ContextRefs -----------------------------
(****************************************************************************)
(* The reference counted contexts that kernel/security/security.c and       *)
(* kernel/performance/performance.c keep in the same way: one global        *)
(* context, published at load, and private ones that tasks create.          *)
(*                                                                          *)
(* Get and put do all they do under the lock of the module, so each is one  *)
(* step.  Exit takes the global context back under the lock and frees it    *)
(* after, whatever its count, so it is the contract of the callers that     *)
(* none of them still holds a reference then.  A get may come in between.   *)
(****************************************************************************)
EXTENDS Integers, FiniteSets

CONSTANTS
  Tasks,       \* the tasks that hold references, each at most one to a context
  Contexts,    \* the contexts kzalloc can return, freed ones again
  NoContext    \* NULL

ASSUME ContextConstants == IsFiniteSet(Tasks) /\ NoContext \notin Contexts

VARIABLES
  loaded,          \* the module is loaded, and not being unloaded
  global_context,
  leaving,         \* ctx of the exit: unpublished and not yet freed
  live,            \* the contexts allocated and not freed
  ref_count,       \* ref_count of each context
  held             \* the contexts each task has references to

refVars == <<loaded, global_context, leaving, live, ref_count, held>>

RefsInit ==
  /\ loaded = FALSE
  /\ global_context = NoContext /\ leaving = NoContext
  /\ live = {}
  /\ ref_count = [c \in Contexts |-> 0]
  /\ held = [t \in Tasks |-> {}]

Holders(c) == {t \in Tasks : c \in held[t]}

Hold(t, c) == held' = [held EXCEPT ![t] = @ \cup {c}]

\* The init function; when kzalloc fails nothing has changed.
Publish(c) ==
  /\ ~loaded /\ leaving = NoContext
  /\ c \in Contexts \ live
  /\ live' = live \cup {c}
  /\ ref_count' = [ref_count EXCEPT ![c] = 1]
  /\ global_context' = c
  /\ loaded' = TRUE
  /\ UNCHANGED <<leaving, held>>

\* Mutant: the context is freed before it is unpublished.
UnpublishFreed ==
  /\ loaded /\ \A t \in Tasks : held[t] = {}
  /\ leaving' = global_context
  /\ live' = live \ {global_context}
  /\ loaded' = FALSE
  /\ UNCHANGED <<global_context, ref_count, held>>

\* The exit function, up to its unlock.
Unpublish ==
  /\ loaded /\ \A t \in Tasks : held[t] = {}
  /\ leaving' = global_context
  /\ global_context' = NoContext
  /\ loaded' = FALSE
  /\ UNCHANGED <<live, ref_count, held>>

\* The rest of it.
Release ==
  /\ leaving # NoContext
  /\ live' = live \ {leaving}
  /\ leaving' = NoContext
  /\ UNCHANGED <<loaded, global_context, ref_count, held>>

Create(t, c) ==
  /\ loaded
  /\ c \in Contexts \ live
  /\ live' = live \cup {c}
  /\ ref_count' = [ref_count EXCEPT ![c] = 1]
  /\ Hold(t, c)
  /\ UNCHANGED <<loaded, global_context, leaving>>

\* Mutant: get does not count the reference.
GetUncounted(t) ==
  /\ global_context \notin held[t] \cup {NoContext}
  /\ Hold(t, global_context)
  /\ UNCHANGED <<loaded, global_context, leaving, live, ref_count>>

\* A get that finds no global context changes nothing.
Get(t) ==
  /\ global_context \notin held[t] \cup {NoContext}
  /\ ref_count' = [ref_count EXCEPT ![global_context] = @ + 1]
  /\ Hold(t, global_context)
  /\ UNCHANGED <<loaded, global_context, leaving, live>>

\* The put that drops the last reference frees the context.
Put(t, c) ==
  /\ c \in held[t]
  /\ ref_count' = [ref_count EXCEPT ![c] = @ - 1]
  /\ live' = IF ref_count'[c] = 0 THEN live \ {c} ELSE live
  /\ held' = [held EXCEPT ![t] = @ \ {c}]
  /\ UNCHANGED <<loaded, global_context, leaving>>

(****************************************************************************)
(* Properties                                                               *)
(****************************************************************************)
RefsOK ==
  /\ loaded \in BOOLEAN
  /\ {global_context, leaving} \subseteq Contexts \cup {NoContext}
  /\ live \subseteq Contexts
  /\ ref_count \in [Contexts -> Nat]
  /\ held \in [Tasks -> SUBSET Contexts]

\* A context is counted once for each holder and once for being the global
\* one, or the one that exit is about to free; so it is freed by its last
\* holder, never while it can be found, and none that nobody can put any more
\* stays behind (security.c:53-120).
RefsCounted ==
  \A c \in live :
    /\ ref_count[c] = Cardinality(Holders(c))
                        + (IF c \in {global_context, leaving} THEN 1 ELSE 0)
    /\ ref_count[c] > 0

\* No reference, published or held, is to a context that was freed: a get
\* while the module is unloaded finds the context or NULL, never one that is
\* gone (security.c:53-66, 94-105).
NoDangling ==
  /\ {global_context, leaving} \ {NoContext} \subseteq live
  /\ \A t \in Tasks : held[t] \subseteq live
==============================================================================
