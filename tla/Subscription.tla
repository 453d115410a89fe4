----------------------------- MODULE Subscription -----------------------------
(***************************************************************************)
(* The institution's subscription and the limits of the tiers              *)
(* (internal/subscription/subscription.go and its Postgres adapter).       *)
(* Administrators change the one row by reading it, applying their change  *)
(* and writing it back against the version they read, together with an     *)
(* entry of the history; a loser of that race starts over.  The history is *)
(* read back by the time its transactions began.  Expiry is a column no    *)
(* operation writes.                                                       *)
(***************************************************************************)
EXTENDS Naturals, FiniteSets

CONSTANTS
    Tier, Initial,      \* the tiers, and the one the institution starts with
    Limit,              \* the limits a tier sets and an override replaces
    Stored,             \* those of them UpdateTierLimits writes
    Value,
    NoOverride,
    Call,               \* each call is made once
    MaxUpdateRetries,   \* rounds of a write that keeps losing (3 in the code)
    Change,             \* what administrators ask for
    Unedited

SubscriptionAssumption ==
    /\ Initial \in Tier /\ Stored \subseteq Limit /\ NoOverride \notin Value
    /\ MaxUpdateRetries \in Nat \ {0}
    /\ Change \subseteq [tier : Tier]
                        \cup [set : UNION {[L -> Value] : L \in SUBSET Limit \ {{}}}]
                        \cup {[clear |-> TRUE]}

VARIABLES
    subscription,       \* the row
    history,            \* the subscription_history table
    tierLimits,         \* the tier_limits table
    answered,           \* the limits an edit of each tier last answered with
    clock,              \* begins of transactions, each later than the one before
    call

vars == <<subscription, history, tierLimits, answered, clock, call>>

Override == [Limit -> Value \cup {NoOverride}]

Row == [tier : Tier, overrides : Override]

Limits == [Limit -> Value]

TypeOK ==
    /\ subscription \in [row : Row, version : Nat]
    /\ \A entry \in history : entry.at \in 0..clock /\ entry.row \in Row
    /\ tierLimits \in [Tier -> Limits]
    /\ answered \in [Tier -> Limits \cup {Unedited}]
    /\ clock \in Nat
    /\ \A c \in Call : call[c].pc \in {"new", "read", "begin", "write", "done", "conflict", "failed"}

NoOverrides == [l \in Limit |-> NoOverride]

Setup == [tier |-> Initial, overrides |-> NoOverrides]

Init ==
    /\ subscription = [row |-> Setup, version |-> 0]
    /\ history = {[at |-> 0, row |-> Setup, change |-> "initial setup"]}
    /\ tierLimits \in [Tier -> {[l \in Limit |-> v] : v \in Value}]
    /\ answered = [t \in Tier |-> Unedited]
    /\ clock = 0
    /\ call = [c \in Call |-> [pc |-> "new"]]

-----------------------------------------------------------------------------
(* Changes of the row *)

\* An override not named is kept.
ApplyOverridesTo(overrides, set) ==
    [l \in Limit |-> IF l \in DOMAIN set THEN set[l] ELSE overrides[l]]

Apply(change, row) ==
    IF "tier" \in DOMAIN change THEN [row EXCEPT !.tier = change.tier]
    ELSE IF "set" \in DOMAIN change
         THEN [row EXCEPT !.overrides = ApplyOverridesTo(@, change.set)]
    ELSE [row EXCEPT !.overrides = NoOverrides]

Start(c) ==
    /\ call[c].pc = "new"
    /\ \E change \in Change :
          call' = [call EXCEPT ![c] = [pc |-> "read", change |-> change, round |-> 1,
                                       since |-> subscription.version]]
    /\ UNCHANGED <<subscription, history, tierLimits, answered, clock>>

Get(c) ==
    /\ call[c].pc = "read"
    /\ call' = [call EXCEPT ![c] = [pc |-> "begin", change |-> @.change, round |-> @.round,
                                    since |-> @.since, seen |-> subscription]]
    /\ UNCHANGED <<subscription, history, tierLimits, answered, clock>>

\* The time of an entry is the time its transaction began.
BeginTx(c) ==
    /\ call[c].pc = "begin"
    /\ clock' = clock + 1
    /\ call' = [call EXCEPT ![c] = [pc |-> "write", change |-> @.change, round |-> @.round,
                                    since |-> @.since, seen |-> @.seen, at |-> clock']]
    /\ UNCHANGED <<subscription, history, tierLimits, answered>>

\* Mutant: the write goes by the row's id alone.
VersionNotCompared(c) == TRUE

VersionHolds(c) == subscription.version = call[c].seen.version

\* Row and entry, or neither.
UpdateWithHistory(c) ==
    /\ call[c].pc = "write" /\ VersionHolds(c)
    /\ LET updated == Apply(call[c].change, call[c].seen.row)
       IN  /\ subscription' = [row |-> updated, version |-> subscription.version + 1]
           /\ history' = history \cup {[at |-> call[c].at, row |-> updated,
                                        change |-> call[c].change]}
    /\ call' = [call EXCEPT ![c] = [pc |-> "done"]]
    /\ UNCHANGED <<tierLimits, answered, clock>>

LoseTheRace(c) ==
    /\ call[c].pc = "write" /\ ~VersionHolds(c)
    /\ call' = [call EXCEPT ![c] =
          IF @.round < MaxUpdateRetries
          THEN [pc |-> "read", change |-> @.change, round |-> @.round + 1, since |-> @.since]
          ELSE [pc |-> "conflict", since |-> @.since]]
    /\ UNCHANGED <<subscription, history, tierLimits, answered, clock>>

\* Any other error rolls the transaction back and ends the call.
Fail(c) ==
    /\ call[c].pc \in {"read", "begin", "write"}
    /\ call' = [call EXCEPT ![c] = [pc |-> "failed"]]
    /\ UNCHANGED <<subscription, history, tierLimits, answered, clock>>

(* Edits of a tier: every limit is asked for and answered with. *)
UpdateTierLimits(t) ==
    /\ \E asked \in Limits :
          /\ tierLimits' = [tierLimits EXCEPT ![t] =
                [l \in Limit |-> IF l \in Stored THEN asked[l] ELSE @[l]]]
          /\ answered' = [answered EXCEPT ![t] = asked]
    /\ UNCHANGED <<subscription, history, clock, call>>

Next ==
    \/ \E c \in Call : \/ Start(c) \/ Get(c) \/ BeginTx(c)
                       \/ UpdateWithHistory(c) \/ LoseTheRace(c) \/ Fail(c)
    \/ \E t \in Tier : UpdateTierLimits(t)

Spec == Init /\ [][Next]_vars

-----------------------------------------------------------------------------
(* Properties *)

Later(e, f) == e.at > f.at

\* The history in the order it is read back, each entry with the one before it.
Consecutive ==
    {pair \in history \X history :
        /\ Later(pair[2], pair[1])
        /\ ~\E e \in history : Later(e, pair[1]) /\ Later(pair[2], e)}

\* No change is lost: in the order of the times, each entry is the one before
\* it under one call's change, and the newest is the row.
HistoryIsTheChain ==
    /\ \A pair \in Consecutive : pair[2].row = Apply(pair[2].change, pair[1].row)
    /\ \E e \in history : e.row = subscription.row /\ \A f \in history \ {e} : Later(e, f)
    /\ Cardinality(history) = subscription.version + 1

\* A call gives up with ErrConflict only after as many calls as it has rounds
\* got through while it ran.
GivesUpOnlyOvertaken ==
    \A c \in Call : call[c].pc = "conflict" =>
        subscription.version >= call[c].since + MaxUpdateRetries

(* However changes of the subscription race, retry and fail, none of them   *)
(* is lost or taken back: the history, read back by its times, is the chain *)
(* of changes that leads to the row; and no call is turned away unless      *)
(* others kept getting through (updateSubscription in subscription.go and   *)
(* UpdateWithHistory in postgres/subscription.go).                          *)
ChangesAreChained == HistoryIsTheChain /\ GivesUpOnlyOvertaken

(* Editing a tier replaces its limits: those it answers with are the row's  *)
(* (subscription.go:314, "UpdateTierLimits replaces one tier's limit row",  *)
(* and the answer of http/subscription.go:256).                             *)
TierLimitsAreReplaced ==
    \A t \in Tier : answered[t] # Unedited => tierLimits[t] = answered[t]
===============================================================================
