-------------------------- MODULE ClientFetchProofs --------------------------
(***************************************************************************)
(* Theorems about ClientFetch for any servers, groups, contents and any    *)
(* number of changes of the servers.  The inductive invariant is FetchInv: *)
(* besides the types it says, for each place of the download, what it has  *)
(* to rely on there: which content was promised, that a shard whose worker *)
(* has ended is in the buffer as promised unless a worker failed, and that *)
(* what was hashed belongs to workers that have ended.                     *)
(***************************************************************************)
EXTENDS ClientFetch, TLAPS

Workers == {"stream", "sizes", "parts"}
Transfer == {"whole", "data", "again", "received"}

(* A content was promised: MeasuredClient looks for a manifest before it   *)
(* knows of any.                                                           *)
Promised ==
    /\ pc \notin {"group", "end"} => group # 0
    /\ pc \in Workers \cup Transfer \cup {"verify"} => claim \in Contents
    /\ pc = "manifest" /\ ~Measured => claim \in Contents
    /\ pc \in Workers => pending \subseteq Indexes(claim)
    /\ pc \in {"data", "again", "received"} =>
          whole.server \in Servers /\ whole.metadata \in Contents

(* The shards whose workers have ended, in _download_streaming. *)
Streamed ==
    pc = "stream" => failed \/ \A i \in Indexes(claim) \ pending : buf[i] = Payload[claim][i]

(* The frontier of the digest is behind the workers. *)
Behind ==
    /\ hashed \in Seq(Bytes)
    /\ pc \notin {"stream", "verify", "end"} => hashed = << >>
    /\ pc = "stream" => \A k \in 1 .. Len(hashed) : k \in Indexes(claim) \ pending

FetchInv ==
    TypeOK /\ Promised /\ Streamed /\ Behind /\ HashedIsKept /\ DownloadIsSound

-----------------------------------------------------------------------------
(* Contents and servers *)

LEMMA PayloadFacts ==
    ASSUME NEW c \in Contents
    PROVE  /\ Count(c) \in Nat /\ Indexes(c) \subseteq AllIndexes
           /\ Payload[c] = [i \in Indexes(c) |-> Payload[c][i]]
           /\ \A i \in Indexes(c) : Payload[c][i] \in Bytes
<1>1. Payload[c] \in Seq(DOMAIN Length)
  BY PayloadAssumption
<1>2. Len(Payload[c]) \in Nat /\ Payload[c] \in [1 .. Len(Payload[c]) -> DOMAIN Length]
  BY <1>1
<1>3. Indexes(c) = 1 .. Len(Payload[c])
  BY DEF Indexes, Count
<1>4. Indexes(c) \subseteq AllIndexes
  BY DEF AllIndexes
<1>5. \A i \in Indexes(c) : Payload[c][i] \in Bytes
  BY <1>2, <1>3 DEF Bytes, ToSet
<1> QED BY <1>2, <1>3, <1>4, <1>5 DEF Count

LEMMA NoneIsNoBytes == None \notin Bytes
<1>1. \A c \in Contents : ToSet(Payload[c]) \subseteq DOMAIN Length
  <2> SUFFICES ASSUME NEW c \in Contents PROVE ToSet(Payload[c]) \subseteq DOMAIN Length
    OBVIOUS
  <2>1. Payload[c] \in Seq(DOMAIN Length)
    BY PayloadAssumption
  <2> QED BY <2>1 DEF ToSet
<1> QED BY <1>1, NoneAssumption DEF Bytes

(* A server answers with a shard of some content or not at all. *)
LEMMA ServedFacts ==
    ASSUME TypeOK, NEW s \in Servers, NEW i
    PROVE  Served(s, i) \in Bytes \cup {None}
<1> SUFFICES ASSUME i \in srv[s].have PROVE Payload[srv[s].content][i] \in Bytes
  BY DEF Served
<1>1. srv[s] \in Holdings
  BY DEF TypeOK
<1>2. srv[s].content \in Contents /\ i \in DOMAIN Payload[srv[s].content]
  BY <1>1, HoldingsAssumption
<1> DEFINE c == srv[s].content
<1>3. Payload[c] \in Seq(DOMAIN Length)
  BY <1>2, PayloadAssumption
<1>4. DOMAIN Payload[c] = Indexes(c)
  BY <1>3 DEF Indexes, Count
<1> QED BY <1>2, <1>4, PayloadFacts

(* The servers of the group being tried. *)
LEMMA SourcesFacts ==
    ASSUME FetchInv, pc \notin {"group", "end"}
    PROVE  Sources \subseteq Servers
<1>1. group \in 1 .. Len(Groups)
  BY GroupsAssumption DEF FetchInv, TypeOK, Promised
<1> QED BY <1>1, GroupsAssumption DEF Sources

(* A server that lists the version, or has a manifest, has a content. *)
LEMMA ContentFacts ==
    ASSUME TypeOK, NEW s \in Servers
    PROVE  /\ srv[s].content \in Contents \cup {None}
           /\ HasManifest(s) => srv[s].content \in Contents
<1>1. srv[s] \in Holdings
  BY DEF TypeOK
<1> QED BY <1>1, HoldingsAssumption DEF HasManifest

(* When every shard is in the buffer as promised, so is the whole. *)
LEMMA DataFacts ==
    ASSUME claim \in Contents, \A i \in Indexes(claim) : buf[i] = Payload[claim][i]
    PROVE  Data = Payload[claim]
<1>1. Payload[claim] = [i \in Indexes(claim) |-> Payload[claim][i]]
  BY PayloadFacts
<1>2. Data = [i \in Indexes(claim) |-> Payload[claim][i]]
  BY DEF Data
<1> QED BY <1>1, <1>2

-----------------------------------------------------------------------------
LEMMA FetchInit == Init => FetchInv
<1> SUFFICES ASSUME Init PROVE FetchInv
  OBVIOUS
<1> USE DEF Init
<1>1. hashed \in Seq(Bytes) /\ Len(hashed) = 0
  OBVIOUS
<1>2. TypeOK
  <2>1. srv \in [Servers -> Holdings]
    BY StartsAssumption
  <2>2. group \in 0 .. Len(Groups)
    BY GroupsAssumption
  <2>3. buf \in [AllIndexes -> Bytes \cup {None}]
    BY DEF Empty
  <2> QED BY <1>1, <2>1, <2>2, <2>3 DEF TypeOK
<1>3. Promised /\ Streamed /\ DownloadIsSound
  BY DEF Promised, Streamed, DownloadIsSound, Workers, Transfer
<1>4. Behind /\ HashedIsKept
  BY <1>1 DEF Behind, HashedIsKept
<1> QED BY <1>2, <1>3, <1>4 DEF FetchInv

(* The servers change under the download. *)
LEMMA ChangeOK ==
    ASSUME FetchInv, NEW s \in Servers, NEW h \in Holdings, Change(s, h)
    PROVE  FetchInv'
<1> USE DEF Change
<1>1. TypeOK'
  BY DEF FetchInv, TypeOK
<1>2. Promised'
  BY DEF FetchInv, Promised, Measured
<1>3. Streamed' /\ Behind' /\ HashedIsKept'
  BY DEF FetchInv, Streamed, Behind, HashedIsKept
<1>4. DownloadIsSound'
  BY DEF FetchInv, DownloadIsSound, Data
<1> QED BY <1>1, <1>2, <1>3, <1>4 DEF FetchInv

LEMMA GroupFailsOK ==
    ASSUME FetchInv, UNCHANGED srv, GroupFails
    PROVE  FetchInv'
<1> USE DEF GroupFails
<1>1. hashed' \in Seq(Bytes) /\ Len(hashed') = 0
  OBVIOUS
<1>2. TypeOK'
  <2>1. buf' \in [AllIndexes -> Bytes \cup {None}]
    BY DEF Empty
  <2> QED BY <1>1, <2>1 DEF FetchInv, TypeOK
<1>3. Promised' /\ Streamed' /\ DownloadIsSound'
  BY DEF Promised, Streamed, DownloadIsSound, Workers, Transfer
<1>4. Behind' /\ HashedIsKept'
  BY <1>1 DEF Behind, HashedIsKept
<1> QED BY <1>2, <1>3, <1>4 DEF FetchInv

(* The fetch ends; the buffer and the digest stay. *)
LEMMA EndOK ==
    ASSUME FetchInv, pc' = "end", result' \in {"raised", "payload"}, pc \notin Workers,
           UNCHANGED <<srv, group, claim, pending, buf, hashed>>
    PROVE  FetchInv'
<1>1. TypeOK'
  BY DEF FetchInv, TypeOK, Workers
<1>2. Promised' /\ Streamed' /\ DownloadIsSound'
  BY DEF Promised, Streamed, DownloadIsSound, Workers, Transfer
<1>3. Behind' /\ HashedIsKept'
  BY DEF FetchInv, Behind, HashedIsKept
<1> QED BY <1>1, <1>2, <1>3 DEF FetchInv

(* A phase with workers begins. *)
LEMMA PhaseOK ==
    ASSUME FetchInv, NEW where \in Workers, NEW c \in Contents, Phase(where, c), Quiet,
           UNCHANGED srv, pc \notin {"group", "stream", "verify", "end"}
    PROVE  FetchInv'
<1> USE DEF Phase, Quiet
<1>1. Indexes(c) \subseteq AllIndexes
  BY PayloadFacts
<1>2. hashed = << >>
  BY DEF FetchInv, Behind
<1>3. TypeOK'
  BY <1>1 DEF FetchInv, TypeOK, Workers
<1>4. Promised'
  BY DEF FetchInv, Promised, Workers, Transfer
<1>5. Streamed' /\ DownloadIsSound'
  BY DEF Streamed, DownloadIsSound, Workers
<1>6. Behind' /\ HashedIsKept'
  BY <1>2 DEF FetchInv, Behind, HashedIsKept, Workers
<1> QED BY <1>3, <1>4, <1>5, <1>6 DEF FetchInv

(* The next question is asked; no worker runs. *)
LEMMA AskOK ==
    ASSUME FetchInv, pc \notin Workers \cup {"verify", "end"},
           pc' \in {"list", "manifest"} \cup Transfer,
           group' \in 1 .. Len(Groups), claim' \in Contents \cup {None},
           pc' \in Transfer => claim' \in Contents,
           pc' = "manifest" /\ ~Measured => claim' \in Contents,
           pc' \in {"data", "again", "received"} =>
              whole'.server \in Servers /\ whole'.metadata \in Contents,
           UNCHANGED <<transport, srv, pending, buf, hashed, result>>
    PROVE  FetchInv'
<1>1. TypeOK'
  BY GroupsAssumption DEF FetchInv, TypeOK, Workers, Transfer
<1>2. Promised'
  BY GroupsAssumption DEF Promised, Measured, Workers, Transfer
<1>3. Streamed' /\ DownloadIsSound'
  BY DEF Streamed, DownloadIsSound, Transfer
<1>4. Behind' /\ HashedIsKept'
  BY DEF FetchInv, Behind, HashedIsKept, Workers, Transfer
<1> QED BY <1>1, <1>2, <1>3, <1>4 DEF FetchInv

-----------------------------------------------------------------------------
(* fetch_publication, the list and the manifest *)

LEMMA NextGroupOK ==
    ASSUME FetchInv, NextGroup
    PROVE  FetchInv'
<1> USE DEF NextGroup, around, servers
<1>1. CASE group < Len(Groups)
  <2>1. group' \in 1 .. Len(Groups) /\ claim' \in Contents \cup {None}
    BY <1>1, GroupsAssumption DEF FetchInv, TypeOK
  <2>2. pc' \in {"list", "manifest"} /\ (pc' = "manifest" => Measured)
    BY <1>1
  <2> QED BY <1>1, <2>1, <2>2, AskOK DEF Workers, Transfer
<1>2. CASE ~(group < Len(Groups))
  BY <1>2, EndOK DEF Workers
<1> QED BY <1>1, <1>2

LEMMA VerifyOK ==
    ASSUME FetchInv, Verify
    PROVE  FetchInv'
BY GroupFailsOK, EndOK DEF Verify, around, servers, Workers

LEMMA ListVersionsOK ==
    ASSUME FetchInv, ListVersions
    PROVE  FetchInv'
<1>1. pc = "list" /\ Sources \subseteq Servers /\ UNCHANGED <<around>>
  BY SourcesFacts DEF ListVersions
<1>2. PICK s \in Servers :
         IF srv[s].content = None
         THEN GroupFails
         ELSE /\ IF Measured
                 THEN Phase("sizes", srv[s].content)
                 ELSE /\ pc' = IF Cardinality(Sources) >= 2 THEN "manifest" ELSE "whole"
                      /\ claim' = srv[s].content
                      /\ UNCHANGED <<pending, failed>>
              /\ UNCHANGED hashing
              /\ Quiet
  BY <1>1 DEF ListVersions, Sampled
<1>3. CASE srv[s].content = None
  BY <1>1, <1>2, <1>3, GroupFailsOK DEF around, servers
<1>4. CASE srv[s].content # None
  <2>1. srv[s].content \in Contents
    BY <1>4, ContentFacts DEF FetchInv
  <2>2. CASE Measured
    BY <1>1, <1>2, <1>4, <2>1, <2>2, PhaseOK DEF Workers, around, servers
  <2>3. CASE ~Measured
    <3>1. group' \in 1 .. Len(Groups)
      BY <1>1, <1>2, <1>4, GroupsAssumption DEF FetchInv, TypeOK, Promised, Quiet
    <3> QED BY <1>1, <1>2, <1>4, <2>1, <2>3, <3>1, AskOK
            DEF Workers, Transfer, around, servers, Quiet
  <2> QED BY <2>2, <2>3
<1> QED BY <1>3, <1>4

LEMMA ManifestLoadedOK ==
    ASSUME FetchInv, NEW s \in Servers, ManifestLoaded(s)
    PROVE  FetchInv'
<1> USE DEF ManifestLoaded, around, servers
<1>1. srv[s].content \in Contents /\ pc = "manifest"
  BY ContentFacts DEF FetchInv
<1>2. CASE GroupFails
  BY <1>2, GroupFailsOK
<1>3. CASE Phase("stream", srv[s].content) /\ Quiet
  BY <1>1, <1>3, PhaseOK DEF Workers
<1>4. CASE pc' = "whole" /\ UNCHANGED <<claim, pending, failed>> /\ transport = "auto" /\ Quiet
  <2>1. claim \in Contents
    BY <1>1, <1>4 DEF FetchInv, Promised, Measured
  <2>2. group' \in 1 .. Len(Groups)
    BY <1>1, <1>4, GroupsAssumption DEF FetchInv, TypeOK, Promised, Quiet
  <2> QED BY <1>1, <1>4, <2>1, <2>2, AskOK DEF Workers, Transfer, Quiet
<1> QED BY <1>2, <1>3, <1>4

LEMMA NoManifestOK ==
    ASSUME FetchInv, NoManifest
    PROVE  FetchInv'
<1> USE DEF NoManifest, around, servers
<1>1. group' \in 1 .. Len(Groups) /\ claim' \in Contents \cup {None}
  BY GroupsAssumption DEF FetchInv, TypeOK, Promised, Quiet
<1>2. ~Measured => claim' \in Contents
  BY DEF FetchInv, Promised
<1> QED BY <1>1, <1>2, AskOK DEF Workers, Transfer, Quiet

-----------------------------------------------------------------------------
(* The whole version in one transfer *)

LEMMA TransferOK ==
    ASSUME FetchInv, (\E s \in Servers : GetMetadata(s)) \/ GetData \/ SameMetadata
    PROVE  FetchInv'
<1> USE DEF At, servers
<1>1. /\ pc \in Transfer /\ claim \in Contents /\ claim' = claim
      /\ UNCHANGED <<transport, srv, pending, buf, hashed, result, group>>
  BY DEF GetMetadata, GetData, SameMetadata, FetchInv, Promised, Transfer
<1>2. group' \in 1 .. Len(Groups)
  BY <1>1, GroupsAssumption DEF FetchInv, TypeOK, Promised, Transfer
<1>3. /\ pc' \in {"data", "again", "received"}
      /\ whole'.server \in Servers /\ whole'.metadata \in Contents
  <2>1. CASE \E s \in Servers : GetMetadata(s)
    <3>1. PICK s \in Servers : GetMetadata(s)
      BY <2>1
    <3>2. srv[s].content \in Contents
      BY <3>1, ContentFacts DEF FetchInv, GetMetadata
    <3> QED BY <3>1, <3>2 DEF GetMetadata
  <2>2. CASE GetData
    BY <2>2 DEF GetData, FetchInv, Promised
  <2>3. CASE SameMetadata
    BY <2>3 DEF SameMetadata, FetchInv, Promised
  <2> QED BY <2>1, <2>2, <2>3
<1> QED BY <1>1, <1>2, <1>3, AskOK DEF Workers, Transfer

LEMMA WholeFetchedOK ==
    ASSUME FetchInv, WholeFetched
    PROVE  FetchInv'
<1> USE DEF WholeFetched, At, servers
<1>1. /\ pc = "received" /\ pc' = "verify" /\ claim \in Contents /\ claim' = claim
      /\ whole.data = Payload[claim] /\ hashed = << >> /\ hashed' = hashed
      /\ pending = {} /\ pending' = pending
  BY DEF FetchInv, TypeOK, Promised, Behind, DigestMatches, Transfer
<1>2. DOMAIN Payload[claim] = Indexes(claim)
  BY <1>1, PayloadFacts
<1>3. buf' = [i \in AllIndexes |-> IF i \in Indexes(claim) THEN Payload[claim][i] ELSE None]
  BY <1>1, <1>2
<1>4. \A i \in Indexes(claim) : buf'[i] = Payload[claim][i] /\ buf'[i] \in Bytes
  BY <1>1, <1>3, PayloadFacts
<1>5. Data' = Payload[claim']
  <2>1. Payload[claim] = [i \in Indexes(claim) |-> Payload[claim][i]]
    BY <1>1, PayloadFacts
  <2>2. Data' = [i \in Indexes(claim) |-> buf'[i]]
    BY <1>1 DEF Data
  <2> QED BY <1>1, <1>4, <2>1, <2>2
<1>6. TypeOK'
  <2>1. buf' \in [AllIndexes -> Bytes \cup {None}]
    BY <1>3, <1>4
  <2> QED BY <1>1, <2>1 DEF FetchInv, TypeOK
<1>7. Promised'
  BY <1>1 DEF FetchInv, Promised, Workers, Transfer
<1>8. Streamed' /\ DownloadIsSound' /\ Behind' /\ HashedIsKept'
  BY <1>1, <1>5 DEF FetchInv, Streamed, DownloadIsSound, Behind, HashedIsKept
<1> QED BY <1>6, <1>7, <1>8 DEF FetchInv

LEMMA WholeFailsOK ==
    ASSUME FetchInv, WholeFails
    PROVE  FetchInv'
<1> USE DEF WholeFails, servers
<1>1. pc \in Transfer /\ claim \in Contents
  BY DEF FetchInv, Promised, Transfer
<1>2. CASE Phase("sizes", claim) /\ Quiet
  BY <1>1, <1>2, PhaseOK DEF Workers, Transfer
<1>3. CASE GroupFails
  BY <1>3, GroupFailsOK
<1>4. CASE /\ pc' = "end" /\ result' = "raised"
           /\ UNCHANGED <<group, claim, hashing, pending, failed, buf, hashed, sizes>>
  BY <1>1, <1>4, EndOK DEF Workers, Transfer
<1> QED BY <1>2, <1>3, <1>4

-----------------------------------------------------------------------------
(* The workers *)

(* A worker ends, or writes its shard, where no digest is computed. *)
LEMMA ShardOK ==
    ASSUME FetchInv, NEW i \in pending, pc \in {"sizes", "parts"},
           pending' = pending \ {i}, NEW p \in Bytes \cup {None},
           buf' \in {buf, [buf EXCEPT ![i] = p]},
           UNCHANGED <<transport, srv, whole, group, pc, claim, hashed, result>>
    PROVE  FetchInv'
<1>1. buf' \in [AllIndexes -> Bytes \cup {None}]
  BY DEF FetchInv, TypeOK
<1>2. hashed = << >>
  BY DEF FetchInv, Behind
<1>3. TypeOK'
  BY <1>1 DEF FetchInv, TypeOK
<1>4. Promised'
  BY DEF FetchInv, Promised, Measured
<1>5. Streamed' /\ DownloadIsSound' /\ Behind' /\ HashedIsKept'
  BY <1>2 DEF FetchInv, Streamed, DownloadIsSound, Behind, HashedIsKept
<1> QED BY <1>3, <1>4, <1>5 DEF FetchInv

LEMMA SizeOfOK ==
    ASSUME FetchInv, NEW i, NEW s \in Servers, SizeOf(i, s)
    PROVE  FetchInv'
<1>1. /\ i \in pending /\ pc = "sizes" /\ pending' = pending \ {i} /\ buf' = buf
      /\ UNCHANGED <<transport, srv, whole, group, pc, claim, hashed, result>>
  BY DEF SizeOf, around, servers
<1> QED BY <1>1, ShardOK

LEMMA PartOK ==
    ASSUME FetchInv, NEW i, NEW s \in Servers, Part(i, s)
    PROVE  FetchInv'
<1>1. /\ i \in pending /\ pc = "parts" /\ pending' = pending \ {i}
      /\ buf' = [buf EXCEPT ![i] = Served(s, i)]
      /\ UNCHANGED <<transport, srv, whole, group, pc, claim, hashed, result>>
  BY DEF Part, around, servers
<1>2. Served(s, i) \in Bytes \cup {None}
  BY ServedFacts DEF FetchInv
<1> QED BY <1>1, <1>2, ShardOK

LEMMA UnavailableOK ==
    ASSUME FetchInv, NEW i, Unavailable(i)
    PROVE  FetchInv'
<1>1. /\ i \in pending /\ pc \in {"sizes", "parts"} /\ pending' = pending \ {i}
      /\ buf' = buf
      /\ UNCHANGED <<transport, srv, whole, group, pc, claim, hashed, result>>
  BY DEF Unavailable, around, servers
<1> QED BY <1>1, ShardOK

(* Bytes go to a shard that is still pending: nothing that was hashed, and *)
(* no shard of a worker that has ended, is written.                        *)
LEMMA ReceiveOK ==
    ASSUME FetchInv, NEW i, NEW s \in Servers, Receive(i, s)
    PROVE  FetchInv'
<1>1. /\ pc = "stream" /\ i \in pending /\ pending \subseteq Indexes(claim)
      /\ claim \in Contents /\ Indexes(claim) \subseteq AllIndexes
      /\ UNCHANGED <<transport, srv, whole, group, pc, claim, failed, hashed, result>>
  BY PayloadFacts DEF Receive, around, servers, FetchInv, Promised, Workers
<1>2. Served(s, i) \in Bytes \cup {None}
  BY ServedFacts DEF FetchInv
<1>3. /\ buf' = [buf EXCEPT ![i] = Served(s, i)]
      /\ pending' = IF Good(i, Served(s, i)) THEN pending \ {i} ELSE pending
  BY DEF Receive
<1>4. /\ buf' \in [AllIndexes -> Bytes \cup {None}] /\ buf'[i] = Served(s, i)
      /\ \A k \in AllIndexes : k # i => buf'[k] = buf[k]
  BY <1>1, <1>2, <1>3 DEF FetchInv, TypeOK
<1>5. pending' \subseteq pending
  BY <1>3
<1>6. TypeOK'
  BY <1>1, <1>4, <1>5 DEF FetchInv, TypeOK
<1>7. Promised'
  BY <1>1, <1>5 DEF FetchInv, Promised, Measured
<1>8. Streamed'
  <2> SUFFICES ASSUME ~failed, NEW k \in Indexes(claim) \ pending'
               PROVE  buf'[k] = Payload[claim][k]
    BY <1>1 DEF Streamed
  <2>1. CASE k # i
    BY <1>1, <1>3, <1>4, <2>1 DEF FetchInv, Streamed
  <2>2. CASE k = i
    BY <1>1, <1>3, <1>4, <2>2 DEF Good
  <2> QED BY <2>1, <2>2
<1>9. \A k \in 1 .. Len(hashed) : k \in Indexes(claim) \ pending
  BY <1>1 DEF FetchInv, Behind
<1>10. Behind'
  BY <1>1, <1>5, <1>9 DEF FetchInv, Behind
<1>11. HashedIsKept'
  BY <1>1, <1>4, <1>9 DEF FetchInv, HashedIsKept
<1>12. DownloadIsSound'
  BY <1>1 DEF DownloadIsSound
<1> QED BY <1>6, <1>7, <1>8, <1>10, <1>11, <1>12 DEF FetchInv

LEMMA GiveUpOK ==
    ASSUME FetchInv, NEW i, GiveUp(i)
    PROVE  FetchInv'
<1>1. /\ pc = "stream" /\ pending' \subseteq pending /\ failed' = TRUE
      /\ UNCHANGED <<transport, srv, whole, group, pc, claim, buf, hashed, result>>
  BY DEF GiveUp, around, servers
<1>2. TypeOK'
  BY <1>1 DEF FetchInv, TypeOK
<1>3. Promised'
  BY <1>1 DEF FetchInv, Promised, Measured
<1>4. Streamed' /\ DownloadIsSound'
  BY <1>1 DEF Streamed, DownloadIsSound
<1>5. Behind' /\ HashedIsKept'
  BY <1>1 DEF FetchInv, Behind, HashedIsKept
<1> QED BY <1>2, <1>3, <1>4, <1>5 DEF FetchInv

(* The main thread hashes the shard at the frontier: its worker has ended. *)
LEMMA HashOK ==
    ASSUME FetchInv, Hash
    PROVE  FetchInv'
<1> DEFINE f == Len(hashed) + 1
<1>1. /\ pc = "stream" /\ f \in Indexes(claim) \ pending /\ ~failed
      /\ hashed' = Append(hashed, buf[f])
      /\ UNCHANGED <<transport, srv, whole, group, pc, claim, pending, failed, buf, result>>
  BY DEF Hash, around, servers
<1>2. claim \in Contents /\ hashed \in Seq(Bytes) /\ Len(hashed) \in Nat
  BY <1>1 DEF FetchInv, Promised, Behind, Workers
<1>3. buf[f] \in Bytes
  <2>1. buf[f] = Payload[claim][f]
    BY <1>1 DEF FetchInv, Streamed
  <2> QED BY <1>1, <1>2, <2>1, PayloadFacts
<1>4. /\ hashed' \in Seq(Bytes) /\ Len(hashed') = f /\ hashed'[f] = buf[f]
      /\ \A k \in 1 .. Len(hashed) : hashed'[k] = hashed[k]
  BY <1>1, <1>2, <1>3
<1>5. \A k \in 1 .. Len(hashed') : k = f \/ k \in 1 .. Len(hashed)
  BY <1>2, <1>4
<1> HIDE DEF f
<1>6. TypeOK'
  <2>1. \A k \in 1 .. Len(hashed') : hashed'[k] \in Bytes
    BY <1>4
  <2> QED BY <1>1, <2>1 DEF FetchInv, TypeOK
<1>7. Promised'
  BY <1>1 DEF FetchInv, Promised, Measured
<1>8. Streamed' /\ DownloadIsSound'
  BY <1>1 DEF FetchInv, Streamed, DownloadIsSound
<1>9. Behind'
  BY <1>1, <1>4, <1>5 DEF FetchInv, Behind
<1>10. HashedIsKept'
  BY <1>1, <1>4, <1>5 DEF FetchInv, HashedIsKept
<1> QED BY <1>6, <1>7, <1>8, <1>9, <1>10 DEF FetchInv

-----------------------------------------------------------------------------
(* The ends of the phases *)

(* The bytes go to publication.verify. *)
LEMMA HandOverOK ==
    ASSUME FetchInv, pc \in {"stream", "parts"}, pc' = "verify", pending = {}, Quiet,
           UNCHANGED <<srv, claim, pending>>, Data = Payload[claim]
    PROVE  FetchInv'
<1> USE DEF Quiet
<1>1. TypeOK'
  BY DEF FetchInv, TypeOK
<1>2. Promised'
  BY DEF FetchInv, Promised, Workers, Transfer
<1>3. Streamed' /\ DownloadIsSound'
  BY DEF Streamed, DownloadIsSound, Data
<1>4. Behind' /\ HashedIsKept'
  BY DEF FetchInv, Behind, HashedIsKept
<1> QED BY <1>1, <1>2, <1>3, <1>4 DEF FetchInv

LEMMA StreamEndOK ==
    ASSUME FetchInv, StreamEnd
    PROVE  FetchInv'
<1>1. pc = "stream" /\ pending = {} /\ claim \in Contents /\ UNCHANGED <<transport, srv, whole>>
  BY DEF StreamEnd, around, servers, FetchInv, Promised, Workers
<1>2. CASE GroupFails
  BY <1>1, <1>2, GroupFailsOK
<1>3. CASE /\ pc' = "whole" /\ buf' = Empty /\ hashed' = << >>
           /\ UNCHANGED <<group, claim, pending, result>>
  <2>1. hashed' \in Seq(Bytes) /\ Len(hashed') = 0
    BY <1>3
  <2>2. TypeOK'
    <3>1. buf' \in [AllIndexes -> Bytes \cup {None}]
      BY <1>3 DEF Empty
    <3> QED BY <1>1, <1>3, <2>1, <3>1 DEF FetchInv, TypeOK
  <2>3. Promised'
    BY <1>1, <1>3 DEF FetchInv, Promised, Workers, Transfer
  <2>4. Streamed' /\ DownloadIsSound' /\ Behind' /\ HashedIsKept'
    BY <1>3, <2>1 DEF Streamed, DownloadIsSound, Behind, HashedIsKept
  <2> QED BY <2>2, <2>3, <2>4 DEF FetchInv
<1>4. CASE ~failed /\ pc' = "verify" /\ UNCHANGED <<claim, pending>> /\ Quiet
  <2>1. \A i \in Indexes(claim) : buf[i] = Payload[claim][i]
    BY <1>1, <1>4 DEF FetchInv, Streamed
  <2>2. Data = Payload[claim]
    BY <1>1, <2>1, DataFacts
  <2> QED BY <1>1, <1>4, <2>2, HandOverOK
<1> QED BY <1>2, <1>3, <1>4 DEF StreamEnd

LEMMA SizesEndOK ==
    ASSUME FetchInv, SizesEnd
    PROVE  FetchInv'
<1> USE DEF SizesEnd, around, servers
<1>1. CASE GroupFails
  BY <1>1, GroupFailsOK
<1>2. CASE Phase("parts", claim) /\ Quiet
  <2>1. claim \in Contents
    BY DEF FetchInv, Promised, Workers
  <2> QED BY <1>2, <2>1, PhaseOK DEF Workers
<1> QED BY <1>1, <1>2

LEMMA PartsEndOK ==
    ASSUME FetchInv, PartsEnd
    PROVE  FetchInv'
<1> USE DEF PartsEnd, around, servers
<1>1. CASE GroupFails
  BY <1>1, GroupFailsOK
<1>2. CASE /\ Data = Payload[claim] /\ pc' = "verify"
           /\ UNCHANGED <<claim, hashing, pending, failed>> /\ Quiet
  BY <1>2, HandOverOK
<1> QED BY <1>1, <1>2

-----------------------------------------------------------------------------
LEMMA FetchStep == FetchInv /\ [Next]_vars => FetchInv'
<1> SUFFICES ASSUME FetchInv, [Next]_vars PROVE FetchInv'
  OBVIOUS
<1>1. CASE UNCHANGED vars
  <2> USE <1>1 DEF vars, servers
  <2>1. TypeOK'
    BY DEF FetchInv, TypeOK
  <2>2. Promised'
    BY DEF FetchInv, Promised, Measured
  <2>3. Streamed' /\ Behind' /\ HashedIsKept'
    BY DEF FetchInv, Streamed, Behind, HashedIsKept
  <2>4. DownloadIsSound'
    BY DEF FetchInv, DownloadIsSound, Data
  <2> QED BY <2>1, <2>2, <2>3, <2>4 DEF FetchInv
<1>2. CASE Main
  <2>1. CASE NextGroup \/ Verify \/ ListVersions \/ NoManifest
    BY <2>1, NextGroupOK, VerifyOK, ListVersionsOK, NoManifestOK
  <2>2. CASE Hash \/ StreamEnd \/ SizesEnd \/ PartsEnd
    BY <2>2, HashOK, StreamEndOK, SizesEndOK, PartsEndOK
  <2>3. CASE GetData \/ SameMetadata \/ \E s \in Servers : GetMetadata(s)
    BY <2>3, TransferOK
  <2>4. CASE WholeFetched \/ WholeFails
    BY <2>4, WholeFetchedOK, WholeFailsOK
  <2>5. CASE \E s \in Servers : ManifestLoaded(s)
    BY <2>5, ManifestLoadedOK
  <2> QED BY <1>2, <2>1, <2>2, <2>3, <2>4, <2>5 DEF Main
<1>3. CASE \E i \in AllIndexes : Worker(i)
  <2> PICK i \in AllIndexes : Worker(i)
    BY <1>3
  <2>1. CASE GiveUp(i) \/ Unavailable(i)
    BY <2>1, GiveUpOK, UnavailableOK
  <2>2. CASE \E s \in Servers : Receive(i, s) \/ SizeOf(i, s) \/ Part(i, s)
    BY <2>2, ReceiveOK, SizeOfOK, PartOK
  <2> QED BY <2>1, <2>2 DEF Worker
<1>4. CASE \E s \in Servers, h \in Holdings : Change(s, h)
  BY <1>4, ChangeOK
<1> QED BY <1>1, <1>2, <1>3, <1>4 DEF Next

(* The invariant of a fetch: see FetchInv. *)
THEOREM FetchInvariant == Spec => []FetchInv
BY FetchInit, FetchStep, PTL DEF Spec

(* Type correctness of fetch_publication and the download inside it;       *)
(* workers run only in the phases that start them.                         *)
THEOREM FetchTypeCorrect == Spec => []TypeOK
<1>1. FetchInv => TypeOK
  BY DEF FetchInv
<1> QED BY <1>1, FetchInvariant, PTL

(* What _download_streaming, the whole transfer or the path without a      *)
(* manifest hands to publication.verify is the promised content, however   *)
(* the servers change between the requests.                                *)
THEOREM DownloadsAreSound == Spec => []DownloadIsSound
<1>1. FetchInv => DownloadIsSound
  BY DEF FetchInv
<1> QED BY <1>1, FetchInvariant, PTL

(* No worker of _download_streaming writes over what the main thread has   *)
(* put into the digest of the whole.                                       *)
THEOREM DigestCoversTheBuffer == Spec => []HashedIsKept
<1>1. FetchInv => HashedIsKept
  BY DEF FetchInv
<1> QED BY <1>1, FetchInvariant, PTL
=============================================================================
