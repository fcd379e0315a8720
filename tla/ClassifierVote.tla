---------------------------- MODULE ClassifierVote ----------------------------
(***************************************************************************)
(* domains/network/workflow.py:513-601: attack_classification_agent asks   *)
(* the LLM several times and puts one verdict together from the answers    *)
(* that came back.  A confidence is a number of ten-thousandths; the agent *)
(* reports thousandths.  The prompt and the texts of an answer are left    *)
(* out.                                                                    *)
(***************************************************************************)
EXTENDS Integers, Sequences, FiniteSets

CONSTANTS
  Labels,           \* classifications the LLM may give
  Unhashable,       \* those that are lists or objects, which no dict has as key
  Confidences,      \* confidences it may give, which nothing clamps; 0 for none too
  ClassifierVotes   \* CLASSIFIER_VOTES: 5

One == 10000        \* the confidence 1.0

\* That there are fewer than 2000 votes: one vote among so many would vanish in
\* the rounding of the confidence.
ASSUME VoteAssumption ==
  /\ Confidences \subseteq Int
  /\ Unhashable \subseteq Labels
  /\ ClassifierVotes \in Nat \ {0} /\ ClassifierVotes < 2000

VARIABLES
  asked,      \* how often the LLM was asked
  votes,      \* the votes that came back: label and confidence, in order
  verdict     \* nd["attack_classification"]

voteVars == <<asked, votes, verdict>>

NoVerdict == [kind |-> "none"]

VoteInit ==
  /\ asked = 0
  /\ votes = <<>>
  /\ verdict = NoVerdict

\* float(r.get("confidence", 0.5) or 0.5): a zero counts as no confidence given.
Confidence(c) == IF c = 0 THEN One \div 2 ELSE c

\* The LLM is asked once more.  An exception, also one about the confidence's
\* form, loses the vote.
Vote ==
  /\ asked < ClassifierVotes
  /\ asked' = asked + 1
  /\ \/ \E l \in Labels, c \in Confidences :
          votes' = Append(votes, [label |-> l, conf |-> Confidence(c)])
     \/ UNCHANGED votes
  /\ UNCHANGED verdict

\* tally[l] and votes.index(l).
Tally(l) == Cardinality({k \in 1 .. Len(votes) : votes[k].label = l})
Voted == {votes[k].label : k \in 1 .. Len(votes)}
First(l) == CHOOSE k \in 1 .. Len(votes) :
              votes[k].label = l /\ \A j \in 1 .. k - 1 : votes[j].label # l

\* Mutant of Winner: the index is compared before the tally.
WinnerFirst ==
  CHOOSE l \in Voted : \A m \in Voted \ {l} : First(l) < First(m)

\* max() by tally, and for equal ones by the earlier first vote.
Winner ==
  CHOOSE l \in Voted : \A m \in Voted \ {l} :
    Tally(l) > Tally(m) \/ (Tally(l) = Tally(m) /\ First(l) < First(m))

\* The sums of the confidences of the first votes among vs, by their number.
Sums(vs) ==
  LET sum[n \in 0 .. Len(vs)] == IF n = 0 THEN 0 ELSE sum[n - 1] + vs[n].conf
  IN  sum

Total == Sums(votes)[Len(votes)]

\* round(x, 3) of num/den ten-thousandths: the nearest thousandth; of two that
\* are equally near, which one depends on how the floats have been rounded.
Rounded(num, den) ==
  LET down == num \div (10 * den)
  IN  {t \in {down, down + 1} : 10 * den * t - num \in -5 * den .. 5 * den}

\* Mutant of Aggregate: the vote fraction alone.
AggregateFraction == Rounded(One * Tally(Winner), Len(votes))

\* The mean confidence times the winner's part of the votes that came back.
Aggregate == Rounded(Total * Tally(Winner), Len(votes) * Len(votes))

\* All have been asked for: the record is written.  Without a vote, or if the
\* tally raises a TypeError for a label, it is an error.
Verdict ==
  /\ asked = ClassifierVotes
  /\ verdict = NoVerdict
  /\ \/ /\ votes = <<>> \/ Voted \cap Unhashable # {}
        /\ verdict' = [kind |-> "error"]
     \/ /\ votes # <<>> /\ Voted \cap Unhashable = {}
        /\ \E t \in Aggregate :
             verdict' = [kind |-> "classified", label |-> Winner,
                         response |-> First(Winner), confidence |-> t]
  /\ UNCHANGED <<asked, votes>>

VoteDone == verdict # NoVerdict /\ UNCHANGED voteVars

VoteNext == Vote \/ Verdict \/ VoteDone

VoteSpec == VoteInit /\ [][VoteNext]_voteVars

------------------------------------------------------------------------------

Classified == verdict.kind = "classified"

(***************************************************************************)
(* A label that more than half of the planned votes gave is the verdict,   *)
(* whichever votes failed and in whichever order they came; no label has   *)
(* more votes than the verdict; and the answer that the record is made of, *)
(* with its evidence and its reasoning, is one that voted for it.          *)
(***************************************************************************)
MajorityWins ==
  Classified =>
    /\ \A l \in Labels : 2 * Tally(l) > ClassifierVotes => verdict.label = l
    /\ \A l \in Labels : Tally(l) <= Tally(verdict.label)
    /\ votes[verdict.response].label = verdict.label

(***************************************************************************)
(* A certain verdict is reported for certain votes only (workflow.py:      *)
(* 518-520), as far as rounding to three places lets that be: confidence   *)
(* 1.0 means that all votes that came back agree, and that they fall short *)
(* of certainty by half a thousandth per vote at most, together.  It is    *)
(* reported if none falls short.  All this unless the LLM claims more than *)
(* 1.0 for some vote: that is not clamped, and makes up for unsure ones.   *)
(***************************************************************************)
UnsureNotCertain ==
  Classified /\ (\A k \in 1 .. Len(votes) : votes[k].conf <= One) =>
    /\ verdict.confidence <= 1000
    /\ verdict.confidence = 1000 =>
         /\ \A k \in 1 .. Len(votes) : votes[k].label = verdict.label
         /\ One * Len(votes) - Total <= 5 * Len(votes)
    /\ (\A k \in 1 .. Len(votes) : votes[k] = [label |-> verdict.label, conf |-> One])
         => verdict.confidence = 1000

\* What the docstring, workflow.py:518-520, says the aggregate is: the mean
\* times matching votes / N, the classifier being run N times.
ConfidenceAsDocumented ==
  Classified =>
    verdict.confidence \in
      Rounded(Total * Tally(verdict.label), Len(votes) * ClassifierVotes)

==============================================================================
