--------------------------- MODULE BackupLimiter ---------------------------
(***************************************************************************)
(* The limit ws-daemon puts on concurrent backups: a buffered channel that *)
(* an upload sends to before it starts and receives from when it is over,  *)
(* unless it waited longer than 15 minutes.  ws-daemon has two versions of *)
(* it, and RemembersTimeout tells them apart:                              *)
(*   FALSE  components/ws-daemon/pkg/content/service.go                    *)
(*   TRUE   components/ws-daemon/pkg/controller/workspace_operations.go    *)
(* The channel carries empty structs, so its state is how many it holds.   *)
(***************************************************************************)
EXTENDS Integers, FiniteSets

CONSTANTS
    Uploads,            \* the goroutines that call uploadWorkspaceContent, again and again
    Limit,              \* the channel's capacity: 5 in the code
    RemembersTimeout    \* whether an upload knows at its end that it timed out

ASSUME LimiterAssumption ==
    /\ IsFiniteSet(Uploads)
    /\ Limit \in Nat \ {0}
    /\ RemembersTimeout \in BOOLEAN

VARIABLES
    tokens,     \* len(backupWorkspaceLimiter)
    upload,     \* upload[u]: where u's call is
    timedOut    \* the uploads under way that stopped waiting for a token

limiterVars == <<tokens, upload, timedOut>>

LimiterInit ==
    /\ tokens = 0
    /\ upload = [u \in Uploads |-> "idle"]
    /\ timedOut = {}

Call(u) ==
    /\ upload[u] = "idle"
    /\ upload' = [upload EXCEPT ![u] = "waiting"]
    /\ UNCHANGED <<tokens, timedOut>>

\* Mutant of HasRoom: one token more than the channel's capacity.
MutHasRoomOffByOne == tokens <= Limit

\* A send to the channel can proceed.
HasRoom == tokens < Limit

Acquire(u) ==
    /\ upload[u] = "waiting"
    /\ HasRoom
    /\ tokens' = tokens + 1
    /\ upload' = [upload EXCEPT ![u] = "uploading"]
    /\ UNCHANGED timedOut

\* time.After(15 * time.Minute) fires in a select whose send is still blocked;
\* the upload goes ahead.
TimeOut(u) ==
    /\ upload[u] = "waiting"
    /\ ~HasRoom
    /\ upload' = [upload EXCEPT ![u] = "uploading"]
    /\ timedOut' = timedOut \union {u}
    /\ UNCHANGED tokens

\* The upload succeeds or fails; the deferred receive is next.
UploadEnds(u) ==
    /\ upload[u] = "uploading"
    /\ upload' = [upload EXCEPT ![u] = "releasing"]
    /\ UNCHANGED <<tokens, timedOut>>

\* Mutant of Owes: every upload gives a token back, as content/service.go does.
MutOwesAlways(u) == TRUE

\* Whether u's deferred function receives from the channel.
Owes(u) == RemembersTimeout => u \notin timedOut

\* The deferred function: a receive blocks while the channel is empty.
Release(u) ==
    /\ upload[u] = "releasing"
    /\ \/ Owes(u) /\ tokens > 0 /\ tokens' = tokens - 1
       \/ ~Owes(u) /\ UNCHANGED tokens
    /\ upload' = [upload EXCEPT ![u] = "idle"]
    /\ timedOut' = timedOut \ {u}

LimiterNext == \E u \in Uploads :
    Call(u) \/ Acquire(u) \/ TimeOut(u) \/ UploadEnds(u) \/ Release(u)

LimiterSpec == LimiterInit /\ [][LimiterNext]_limiterVars

\* A select whose send goes through or whose timer fires returns, an upload ends
\* (the storage client has its own timeouts), and a receive that stays possible
\* happens.
LimiterFairSpec == LimiterSpec /\ \A u \in Uploads :
    /\ WF_limiterVars(Acquire(u) \/ TimeOut(u))
    /\ WF_limiterVars(UploadEnds(u))
    /\ WF_limiterVars(Release(u))

-----------------------------------------------------------------------------
Running == {u \in Uploads : upload[u] \in {"uploading", "releasing"}}

\* The uploads under way are the ones that hold a token, which the channel counts, and
\* the ones that timed out waiting for it: what makes BackupsLimited inductive.
TokensExact ==
    /\ upload \in [Uploads -> {"idle", "waiting", "uploading", "releasing"}]
    /\ timedOut \subseteq Running
    /\ tokens = Cardinality(Running \ timedOut) /\ tokens \in 0..Limit

\* At most Limit uploads run at a time besides the ones that timed out waiting: no
\* sequence of timeouts and releases gives a later upload a token that is in use.
BackupsLimited == Cardinality(Running \ timedOut) <= Limit

\* Every upload ends: neither the wait for a token nor the deferred receive blocks
\* one for ever ("we don't want to actually block an upload").
UploadsReturn == \A u \in Uploads : upload[u] = "waiting" ~> upload[u] = "idle"
=============================================================================
