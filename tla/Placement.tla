----------------------------- MODULE Placement -----------------------------
(***************************************************************************)
(* litecast/streaming.py: which members of a cluster own a shard.          *)
(*                                                                         *)
(* _weighted_score is a hash of the version, the index and the member,     *)
(* weighted by its profile: for each shard it is some ranking of the       *)
(* members, the same wherever it is computed from the same profiles.  A    *)
(* member with an empty failure domain counts as a domain of its own.      *)
(***************************************************************************)
EXTENDS Integers, Sequences, SequencesExt, FiniteSetsExt

(* Mutant: failure domains are not looked at. *)
SpreadAnyhow(ranked, domain, count) == SubSeq(ranked, 1, count)

(* m is selected unless there are enough, or one has its label already. *)
Take(s, m, label, count) ==
    IF Len(s) = count \/ \E k \in DOMAIN s : label[s[k]] = label[m]
    THEN s ELSE Append(s, m)

(* A pass over the ranking, which adds to the members selected first. *)
Pass(first, ranked, label, count) ==
    LET selected[k \in 0 .. Len(ranked)] ==
            IF k = 0 THEN first
            ELSE Take(selected[k - 1], ranked[k], label, count)
    IN selected[Len(ranked)]

(* The first pass of shard_owners takes one member of each failure domain. *)
Spread(ranked, domain, count) == Pass(<< >>, ranked, domain, count)

(* The second pass fills up with members not selected yet. *)
Fill(selected, ranked, count) ==
    Pass(selected, ranked, [m \in ToSet(ranked) |-> m], count)

(* The owners of a shard, primary first. *)
ShardOwners(ranked, domain, factor) ==
    LET count == Min({factor, Len(ranked)})
    IN Fill(Spread(ranked, domain, count), ranked, count)
=============================================================================
