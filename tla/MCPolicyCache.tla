---------------------------- MODULE MCPolicyCache ----------------------------
(* What administrators of the platform write, in three parts of which one is  *)
(* in motion: the policies and their cache (PolicyCache), the subscription,   *)
(* and the limits of its tiers (both Subscription).                           *)
EXTENDS TLC

CONSTANTS
    Key, Permission, KeyOf, Default, Request, Call, MaxFaults, None, k1, k2, p1, p2, p3

VARIABLES row, lock, cached, entry, reader, writer, faults, raced, overtaken, spoiled

policyVars == <<row, lock, cached, entry, reader, writer, faults, raced, overtaken, spoiled>>

Cache == INSTANCE PolicyCache

ASSUME CacheAssumption == Cache!PolicyCacheAssumption

\* A pair with a default and another permission, and a pair with one default.
Pair == p1 :> k1 @@ p2 :> k1 @@ p3 :> k2

-----------------------------------------------------------------------------

CONSTANTS
    free, basic, Tier, seats, Limit, StoredLimit, Value, NoOverride, Unedited,
    Administrator, MaxUpdateRetries, Change

VARIABLES subscription, history, tierLimits, answered, clock, admins

subscriptionVars == <<subscription, history, tierLimits, answered, clock, admins>>

\* A tier, an override, and the removal of every override.
Changes == {[tier |-> basic], [set |-> seats :> 1], [clear |-> TRUE]}

Subs == INSTANCE Subscription WITH
    Initial <- free, Stored <- StoredLimit, Call <- Administrator, call <- admins

ASSUME SubscriptionAssumption == Subs!SubscriptionAssumption

-----------------------------------------------------------------------------

VARIABLE part

Interchangeable == Permutations(Call) \cup Permutations(Administrator)

MCInit ==
    /\ Cache!Init /\ Subs!Init
    /\ part \in {"policies", "subscription", "tiers"}
    /\ part # "tiers" => tierLimits = [t \in Tier |-> [l \in Limit |-> 1]]
    /\ part # "policies" => row = [p \in Permission |-> "none"]

MCNext ==
    /\ UNCHANGED part
    /\ \/ part = "policies" /\ Cache!Next /\ UNCHANGED subscriptionVars
       \/ part = "subscription" /\ Subs!Next /\ answered' = answered /\ UNCHANGED policyVars
       \/ part = "tiers" /\ (\E t \in Tier : Subs!UpdateTierLimits(t)) /\ UNCHANGED policyVars

MCSpec == MCInit /\ [][MCNext]_<<part, policyVars, subscriptionVars>>

-----------------------------------------------------------------------------
(* The cache answers as the store would, except while the call that changed   *)
(* the policy has yet to clear it, after a clearing that failed, and after a  *)
(* request that loaded before a change and set behind it (PolicyCache, of     *)
(* redis/policy.go).                                                          *)
FreshUnlessSpoiled == Cache!FreshUnlessSpoiled

(* Boots and resets, of any number of instances at once, leave in the table   *)
(* what they promise (PolicyCache, of postgres/policy.go: Seed, Reset).       *)
TableIsWhatWasAsked == Cache!TableIsWhatWasAsked

(* However changes of the subscription race, retry and fail, none is lost:   *)
(* the history is the chain of changes that leads to the row, and a call     *)
(* gives up only when others kept getting through (Subscription, of          *)
(* subscription.go).                                                         *)
ChangesAreChained == Subs!ChangesAreChained
=============================================================================
