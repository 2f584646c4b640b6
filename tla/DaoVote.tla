------------------------------ MODULE DaoVote -------------------------------
(***************************************************************************)
(* What the DAO oracle promises: members, never twice for the same ballot, *)
(* vote on which files a deal stores, and the list of a deal that pays is  *)
(* one a quorum has voted for.                                             *)
(***************************************************************************)
EXTENDS Integers, FiniteSets

CONSTANTS
  Members,    \* whoever may be a DAO member at some time
  Ballots,    \* records with a key (the deal), a recipient and a list of cids
  NoList      \* the list of a deal that has none yet

VARIABLES
  members,    \* the members now
  threshold,  \* the votes a quorum takes
  votes,      \* <<ballot, member>>: who has voted for what
  published   \* published[k]: the list of deal k

voteVars == <<members, threshold, votes, published>>

VotersOf(b, vs) == {m \in Members : <<b, m>> \in vs}

VoteInit ==
  /\ members = {} /\ threshold \in Nat /\ votes = {}
  /\ \A k \in DOMAIN published : published[k] = NoList

\* The administrator changes the members or the threshold, for votes to come.
Administer == members' \subseteq Members /\ threshold' \in Nat /\ UNCHANGED <<votes, published>>

\* A member votes, once; if that makes or keeps a quorum, the ballot's list may
\* become the list of the deal.
Vote(m, b) ==
  /\ m \in members /\ <<b, m>> \notin votes
  /\ votes' = votes \cup {<<b, m>>}
  /\ \/ UNCHANGED published
     \/ /\ Cardinality(VotersOf(b, votes')) >= threshold
        /\ b.list # NoList
        /\ published' = [published EXCEPT ![b.key] = b.list]
  /\ UNCHANGED <<members, threshold>>

VoteNext == Administer \/ \E m \in Members, b \in Ballots : Vote(m, b)

VoteSpec == VoteInit /\ [][VoteNext]_voteVars
=============================================================================
