--------------------------- MODULE SecurityContext ---------------------------
(****************************************************************************)
(* Security contexts and the policy check, kernel/security/security.c.      *)
(*                                                                          *)
(* A task works on contexts it holds references to.  The level and the      *)
(* flags of a context are set and read without security_lock, and a check   *)
(* of the policy reads one after the other, so it is two steps.  The init   *)
(* functions of the mechanisms (lines 178-245) read one flag, print a line  *)
(* and change nothing: they are left out.                                   *)
(****************************************************************************)
EXTENDS ContextRefs

CONSTANTS
  Levels,      \* the levels callers set: QUANTUM_SECURITY_LEVEL_NONE (0) to
               \* _MAXIMUM (4), and values outside, which are refused
  Flags,       \* the flags
  DefaultLevel, MinLevel, Required   \* the default level and policy

ASSUME SecurityConstants ==
  /\ Levels \subseteq Int /\ Required \subseteq Flags
  /\ DefaultLevel \in 0 .. 4 /\ MinLevel \in Int

VARIABLES
  security_level, flags,  \* of each context
  checking,   \* the context whose flags each task has yet to check
  met,        \* history: whether level and flags met the policy, a pair for
              \* each moment of the check
  verdict     \* what the last check of each task returned

values == <<security_level, flags>>
checks == <<checking, met, verdict>>
vars == <<refVars, values, checks>>

ValidLevel(l) == l \in 0 .. 4

Meets(l, f) == <<l >= MinLevel, Required \subseteq f>>

Init ==
  /\ RefsInit
  /\ security_level = [c \in Contexts |-> 0]
  /\ flags = [c \in Contexts |-> {}]
  /\ checking = [t \in Tasks |-> NoContext]
  /\ met = [t \in Tasks |-> {}]
  /\ verdict = [t \in Tasks |-> "none"]

SetValues(c, l, f) ==
  /\ security_level' = [security_level EXCEPT ![c] = l]
  /\ flags' = [flags EXCEPT ![c] = f]

Load(c) ==
  /\ Publish(c)
  /\ SetValues(c, DefaultLevel, Required)
  /\ UNCHANGED checks

Exit == (Unpublish \/ Release) /\ UNCHANGED <<values, checks>>

CreateContext(t, c, l, f) ==
  /\ ValidLevel(l)
  /\ Create(t, c)
  /\ SetValues(c, l, f)
  /\ UNCHANGED checks

GetContext(t) == Get(t) /\ UNCHANGED <<values, checks>>

PutContext(t, c) ==
  /\ checking[t] = NoContext
  /\ Put(t, c)
  /\ UNCHANGED <<values, checks>>

\* History: the checks of c that are under way have seen its new values too.
Seen(c, l, f) ==
  met' = [t \in Tasks |-> IF checking[t] = c THEN met[t] \cup {Meets(l, f)}
                          ELSE met[t]]

SetLevel(t, c, l) ==
  /\ c \in held[t] /\ checking[t] = NoContext
  /\ ValidLevel(l)
  /\ security_level' = [security_level EXCEPT ![c] = l]
  /\ Seen(c, l, flags[c])
  /\ UNCHANGED <<refVars, flags, checking, verdict>>

SetFlags(t, c, f) ==
  /\ c \in held[t] /\ checking[t] = NoContext
  /\ flags' = [flags EXCEPT ![c] = f]
  /\ Seen(c, security_level[c], f)
  /\ UNCHANGED <<refVars, security_level, checking, verdict>>

\* Mutant: the level must be above the minimum.
CheckLevelStrict(t, c) ==
  /\ c \in held[t] /\ checking[t] = NoContext
  /\ met' = [met EXCEPT ![t] = {Meets(security_level[c], flags[c])}]
  /\ \/ /\ security_level[c] <= MinLevel
        /\ verdict' = [verdict EXCEPT ![t] = "denied"]
        /\ UNCHANGED checking
     \/ /\ security_level[c] > MinLevel
        /\ checking' = [checking EXCEPT ![t] = c]
        /\ verdict' = [verdict EXCEPT ![t] = "none"]
  /\ UNCHANGED <<refVars, values>>

CheckLevel(t, c) ==
  /\ c \in held[t] /\ checking[t] = NoContext
  /\ met' = [met EXCEPT ![t] = {Meets(security_level[c], flags[c])}]
  /\ \/ /\ security_level[c] < MinLevel
        /\ verdict' = [verdict EXCEPT ![t] = "denied"]
        /\ UNCHANGED checking
     \/ /\ security_level[c] >= MinLevel
        /\ checking' = [checking EXCEPT ![t] = c]
        /\ verdict' = [verdict EXCEPT ![t] = "none"]
  /\ UNCHANGED <<refVars, values>>

\* Mutant: one of the required flags is enough.
CheckAnyFlag(t) ==
  /\ checking[t] # NoContext
  /\ verdict' = [verdict EXCEPT ![t] =
       IF Required \cap flags[checking[t]] # {} THEN "granted" ELSE "denied"]
  /\ checking' = [checking EXCEPT ![t] = NoContext]
  /\ UNCHANGED <<refVars, values, met>>

CheckFlags(t) ==
  /\ checking[t] # NoContext
  /\ verdict' = [verdict EXCEPT ![t] =
       IF Required \subseteq flags[checking[t]] THEN "granted" ELSE "denied"]
  /\ checking' = [checking EXCEPT ![t] = NoContext]
  /\ UNCHANGED <<refVars, values, met>>

Operation(t, c) ==
  \/ \E l \in Levels, f \in SUBSET Flags : CreateContext(t, c, l, f)
  \/ PutContext(t, c)
  \/ \E l \in Levels : SetLevel(t, c, l)
  \/ \E f \in SUBSET Flags : SetFlags(t, c, f)
  \/ CheckLevel(t, c)

Next ==
  \/ \E c \in Contexts : Load(c)
  \/ Exit
  \/ \E t \in Tasks : \/ GetContext(t)
                      \/ \E c \in Contexts : Operation(t, c)
                      \/ CheckFlags(t)

Spec == Init /\ [][Next]_vars

(****************************************************************************)
(* Properties                                                               *)
(****************************************************************************)
TypeOK ==
  /\ RefsOK
  /\ security_level \in [Contexts -> 0 .. 4]
  /\ flags \in [Contexts -> SUBSET Flags]
  /\ checking \in [Tasks -> Contexts \cup {NoContext}]
  /\ met \in [Tasks -> SUBSET (BOOLEAN \X BOOLEAN)]
  /\ verdict \in [Tasks -> {"none", "granted", "denied"}]

\* A check denies only if the context did not meet the policy at some moment
\* of the check, whoever changes it meanwhile (lines 162-175).
DeniesUnmet ==
  \A t \in Tasks :
    verdict[t] = "denied" => \E m \in met[t] : m # <<TRUE, TRUE>>

\* A check grants only if the context met the policy at some moment of the
\* check, when one of level and flags is enough at all its moments: with only
\* one of them in question, reading them apart is harmless (lines 168-171).
GrantsSteady ==
  \A t \in Tasks :
    /\ verdict[t] = "granted"
    /\ (\A m \in met[t] : m[1]) \/ (\A m \in met[t] : m[2])
    => <<TRUE, TRUE>> \in met[t]
==============================================================================
