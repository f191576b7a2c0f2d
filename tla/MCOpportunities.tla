-------------------------- MODULE MCOpportunities --------------------------
(* The life of a card and its offer from run to run, and one run of the       *)
(* engine seen from within; a behaviour is about the one or the other.        *)
EXTENDS OpportunityInbox, OpportunityRun

CONSTANTS cycle, personal, machine, ann, bob, tea, cup     \* model values

(* The reminder of the personal model takes the place of the common one. *)
MCChallenger == [c \in {cycle} |-> personal]

(* A floor both rungs of the ladders keep, and one the larger breaks. *)
MCBases == {[margin |-> 24, floor |-> 10], [margin |-> 24, floor |-> 20]}

Action(who, what, kind, value) == [customer |-> who, product |-> what, kind |-> kind, value |-> value]
Gap(who, value) == [customer |-> who, category |-> cup, value |-> value, confidence |-> "high"]

(* Two customers; three cards at most compete for one customer's two slots.  *)
MCPlans ==
    LET common == {Action(ann, tea, "cycle", 40), Action(bob, tea, "cycle", 25)}
        selling == {Action(ann, cup, "crossSell", 45), Action(bob, NoProduct, "rescue", 50)} IN
    {[actions |-> A, gaps |-> G] :
        A \in {common, selling, common \cup selling},
        G \in {{}, {Gap(ann, 100)}, {Gap(ann, 60), Gap(bob, 60)}}}

MCCadences ==
    {{}} \cup {{[customer |-> ann, product |-> tea, interval |-> 30, elapsed |-> e, spend |-> 50, probability |-> p]} :
              e \in {23, 24, 40}, p \in {0, 2000, 9000}}

MCWhales == {{}, {[customer |-> ann, probability |-> 7000], [customer |-> bob, probability |-> 5000]}}

World(capacity, floor, rungs, shares, denied, uplift) ==
    [denied |-> denied, outbox |-> {}, stamps |-> {}, fileCosts |-> FALSE,
     floor |-> floor, margins |-> [p \in {tea} |-> 2400], capacity |-> capacity,
     ladder |-> rungs, shares |-> [c \in {ann, bob} |-> shares],
     basket |-> [c \in {bob} |-> 3000], uplift |-> uplift,
     state |-> [c \in {ann} |-> "active"]]

Seldom == [bp |-> 4000, lines |-> 5]
Always == [bp |-> 9500, lines |-> 5]
MCWorlds ==
    {World(n, Unknown, {}, Seldom, {}, Unknown) : n \in {Unknown, 1, 2, 3}}
    \cup {World(Unknown, f, {500, 1000}, s, {}, Unknown) : f \in {2000, 2500}, s \in {Seldom, Always}}
    \cup {World(2, Unknown, {}, Seldom, {bob}, u) :
            u \in {Unknown, [k \in {<<"cycle", "active">>} |-> "useless"]}}

(* Every read fails alone, or all of them together. *)
MCFailures == {{}, Reads} \cup {{r} : r \in Reads}

VARIABLE focus

Start ==
    /\ focus \in {"inbox", "run"}
    /\ Init /\ RunInit
Step ==
    \/ focus = "inbox" /\ Next /\ UNCHANGED <<runVars, focus>>
    \/ focus = "run" /\ RunNext /\ UNCHANGED <<vars, focus>>
OpportunitiesSpec == Start /\ [][Step]_<<vars, runVars, focus>>

(* The inbox alone. *)
InboxOnly == Init /\ RunInit /\ focus = "inbox"
InboxSpec == InboxOnly /\ [][Step]_<<vars, runVars, focus>>
=============================================================================
