--------------------------- MODULE UcxxLaneProofs ---------------------------
(***************************************************************************)
(* Type correctness of a UCXX lane and the integrity of what is received   *)
(* through it, for any number of threads, batches, timeouts and changes of *)
(* the store.                                                              *)
(*                                                                         *)
(* Answers carry no identity, so the argument is about the stream itself:  *)
(* whatever requests were cancelled, in the stream of an endpoint every    *)
(* control frame that announces shards is followed by exactly their bytes, *)
(* and a frame that announces a version names one that is announced        *)
(* (Streams).  A coroutine that has accepted a control frame is therefore  *)
(* in step: the bytes it expects are the next messages (InStep), each goes *)
(* to the place of its own shard, and a buffer once filled keeps its bytes.*)
(***************************************************************************)
EXTENDS UcxxLane, FiniteSetTheorems, WellFoundedInduction, TLAPS

(* A request for one shard or version names one; a batch names shards of S.*)
RequestOK(r, S) ==
    /\ r.kind = "shards" => r.of \in Seq(S)
    /\ r.kind # "shards" => Len(r.of) = 1

(* After its first k messages, stream d goes on with the bytes of q. *)
BytesFrom(d, k, q) ==
    \A j \in 1 .. Len(q) :
        k + j <= Len(d) /\ d[k + j].kind = "bytes" /\ d[k + j].shard = q[j]

(* Every control frame in d is followed by the bytes of the shards, of S,  *)
(* it announces, and announces no version that is not in N.                *)
Framed(d, S, N) ==
    \A k \in 1 .. Len(d) :
        /\ d[k].kind \in {"shard", "shards"} =>
              d[k].of \in Seq(S) /\ BytesFrom(d, k, d[k].of)
        /\ d[k].kind = "version" => ToSet(d[k].of) \subseteq N

Streams ==
    conn # None =>
        /\ \A k \in 1 .. Len(conn.up) : RequestOK(conn.up[k], Shards)
        /\ Framed(conn.down, Shards, notified)

(* What the call of a thread asks for, and has got. *)
CallOK(t) ==
    /\ caller[t] \in {"waiting", "left", "http"} => left[t] # {}
    /\ caller[t] = "http" => ~Waits(t)
    /\ pc[t] # "none" =>
          /\ RequestOK(req[t], Shards)
          /\ Waits(t) <=> req[t].kind = "version"
          /\ \A i \in req[t].got : buf[i] = i

Calls == \A t \in Threads : CallOK(t)

InStep ==
    \A t \in Threads : pc[t] = "bulk" =>
        /\ BytesFrom(conn.down, 0, due[t])
        /\ Waits(t) => due[t] = << >> /\ ToSet(req[t].of) \subseteq notified
        /\ req[t].kind = "shard" => due[t] \in {<< >>, req[t].of}

Inv == TypeOK /\ Streams /\ Calls /\ InStep /\ Intact

-----------------------------------------------------------------------------
(* Sets and sequences *)

(* The next shard or version of a thread is one of those it has to get. *)
LEMMA LeastIsIn ==
    ASSUME NEW T \in SUBSET Nat, T # {}
    PROVE  Min(T) \in T
<1> DEFINE R == OpToRel(<, Nat)
<1>1. PICK x \in T : \A y \in T : ~(<<y, x>> \in R)
  <2>1. PICK y \in T : TRUE
    OBVIOUS
  <2> QED BY <2>1, WFMin, NatLessThanWellFounded
<1>2. x \in Nat
  OBVIOUS
<1>3. \A y \in T : ~(y < x)
  BY <1>1, <1>2 DEF OpToRel
<1>4. \A y \in T : x <= y
  BY <1>2, <1>3
<1> QED BY <1>4 DEF Min

(* A finite set can be put into a sequence. *)
LEMMA SetToSeqOK ==
    ASSUME NEW S, IsFiniteSet(S)
    PROVE  SetToSeq(S) \in Seq(S)
<1> DEFINE n == Cardinality(S)
<1>1. n \in Nat /\ ExistsBijection(1 .. n, S)
  BY FS_CardinalityType
<1>2. PICK f \in Bijection(1 .. n, S) : TRUE
  BY <1>1 DEF ExistsBijection
<1>3. f \in [1 .. n -> S] /\ IsInjective(f)
  BY <1>2 DEF Bijection, Injection
<1>4. SetToSeq(S) \in [1 .. n -> S]
  BY <1>3 DEF SetToSeq
<1> QED BY <1>1, <1>4

(* The elements of a sequence are finitely many. *)
LEMMA ToSetFinite ==
    ASSUME NEW S, NEW q \in Seq(S)
    PROVE  IsFiniteSet(ToSet(q)) /\ ToSet(q) \subseteq S
<1>1. q \in [1 .. Len(q) -> S] /\ Len(q) \in Nat
  OBVIOUS
<1>2. IsFiniteSet(1 .. Len(q))
  BY <1>1, FS_Interval
<1>3. q \in Surjection(1 .. Len(q), ToSet(q))
  BY <1>1 DEF Surjection, ToSet
<1> QED BY <1>1, <1>2, <1>3, FS_Surjection DEF ToSet, ExistsSurjection

LEMMA NoneDue ==
    ASSUME NEW S, NEW q \in Seq(S), Len(q) = 0
    PROVE  q = << >>
OBVIOUS

(* What follows is still there after messages were appended. *)
LEMMA BytesStay ==
    ASSUME NEW S, NEW d \in Seq(Messages), NEW e \in Seq(Messages),
           NEW k \in Nat, NEW q \in Seq(S), BytesFrom(d, k, q)
    PROVE  BytesFrom(d \o e, k, q)
<1> SUFFICES ASSUME NEW j \in 1 .. Len(q)
             PROVE  /\ k + j <= Len(d \o e)
                    /\ (d \o e)[k + j].kind = "bytes" /\ (d \o e)[k + j].shard = q[j]
  BY DEF BytesFrom
<1>1. k + j <= Len(d) /\ d[k + j].kind = "bytes" /\ d[k + j].shard = q[j]
  BY DEF BytesFrom
<1>2. k + j \in 1 .. Len(d) /\ Len(d) \in Nat /\ Len(e) \in Nat
  BY <1>1
<1>3. (d \o e)[k + j] = d[k + j] /\ Len(d \o e) = Len(d) + Len(e)
  BY <1>2
<1> QED BY <1>1, <1>2, <1>3

LEMMA TailFramed ==
    ASSUME NEW S, NEW N, NEW d \in Seq(Messages), d # << >>, Framed(d, S, N)
    PROVE  Tail(d) \in Seq(Messages) /\ Framed(Tail(d), S, N)
<1>1. /\ Tail(d) \in Seq(Messages)
      /\ Len(d) \in Nat \ {0}
      /\ Len(Tail(d)) = Len(d) - 1
      /\ \A k \in 1 .. (Len(d) - 1) : Tail(d)[k] = d[k + 1]
  OBVIOUS
<1>2. ASSUME NEW k \in 1 .. Len(Tail(d)), Tail(d)[k].kind \in {"shard", "shards"}
      PROVE  Tail(d)[k].of \in Seq(S) /\ BytesFrom(Tail(d), k, Tail(d)[k].of)
  <2>1. k \in Nat /\ k + 1 \in 1 .. Len(d) /\ Tail(d)[k] = d[k + 1]
    BY <1>1
  <2> DEFINE q == d[k + 1].of
  <2>2. q \in Seq(S) /\ BytesFrom(d, k + 1, q)
    BY <2>1, <1>2 DEF Framed
  <2>3. BytesFrom(Tail(d), k, q)
    <3> SUFFICES ASSUME NEW j \in 1 .. Len(q)
                 PROVE  /\ k + j <= Len(Tail(d))
                        /\ Tail(d)[k + j].kind = "bytes" /\ Tail(d)[k + j].shard = q[j]
      BY DEF BytesFrom
    <3> HIDE DEF q
    <3>1. /\ (k + 1) + j <= Len(d) /\ d[(k + 1) + j].kind = "bytes"
          /\ d[(k + 1) + j].shard = q[j]
      BY <2>2 DEF BytesFrom
    <3>2. Len(q) \in Nat /\ j \in Nat /\ j >= 1
      BY <2>2
    <3>3. k + j \in 1 .. (Len(d) - 1) /\ (k + j) + 1 = (k + 1) + j
      BY <1>1, <2>1, <3>1, <3>2
    <3>4. Tail(d)[k + j] = d[(k + 1) + j]
      BY <1>1, <3>3
    <3> QED BY <1>1, <3>1, <3>3, <3>4
  <2> QED BY <2>1, <2>2, <2>3
<1>3. ASSUME NEW k \in 1 .. Len(Tail(d)), Tail(d)[k].kind = "version"
      PROVE  ToSet(Tail(d)[k].of) \subseteq N
  <2>1. k + 1 \in 1 .. Len(d) /\ Tail(d)[k] = d[k + 1]
    BY <1>1
  <2> QED BY <2>1, <1>3 DEF Framed
<1> QED BY <1>1, <1>2, <1>3 DEF Framed

LEMMA ConcatFramed ==
    ASSUME NEW S, NEW N, NEW d \in Seq(Messages), NEW e \in Seq(Messages),
           Framed(d, S, N), Framed(e, S, N)
    PROVE  d \o e \in Seq(Messages) /\ Framed(d \o e, S, N)
<1> DEFINE de == d \o e
<1>1. /\ de \in Seq(Messages) /\ Len(d) \in Nat /\ Len(e) \in Nat
      /\ Len(de) = Len(d) + Len(e)
      /\ \A k \in 1 .. Len(d) : de[k] = d[k]
      /\ \A k \in 1 .. Len(e) : de[Len(d) + k] = e[k]
  OBVIOUS
<1>2. ASSUME NEW k \in 1 .. Len(d)
      PROVE  /\ de[k].kind \in {"shard", "shards"} =>
                   de[k].of \in Seq(S) /\ BytesFrom(de, k, de[k].of)
             /\ de[k].kind = "version" => ToSet(de[k].of) \subseteq N
  <2>1. de[k] = d[k] /\ k \in Nat
    BY <1>1
  <2>2. CASE d[k].kind \in {"shard", "shards"}
    <3>1. d[k].of \in Seq(S) /\ BytesFrom(d, k, d[k].of)
      BY <2>2 DEF Framed
    <3>2. BytesFrom(de, k, d[k].of)
      BY <2>1, <3>1, BytesStay
    <3> QED BY <2>1, <2>2, <3>1, <3>2
  <2>3. CASE d[k].kind \notin {"shard", "shards"}
    BY <2>1, <2>3 DEF Framed
  <2> QED BY <2>2, <2>3
<1>3. ASSUME NEW m \in 1 .. Len(e)
      PROVE  LET k == Len(d) + m IN
             /\ de[k].kind \in {"shard", "shards"} =>
                   de[k].of \in Seq(S) /\ BytesFrom(de, k, de[k].of)
             /\ de[k].kind = "version" => ToSet(de[k].of) \subseteq N
  <2> DEFINE k == Len(d) + m
             q == e[m].of
  <2>1. de[k] = e[m] /\ k \in Nat /\ m \in Nat
    BY <1>1
  <2>2. CASE e[m].kind \in {"shard", "shards"}
    <3>1. q \in Seq(S) /\ BytesFrom(e, m, q)
      BY <2>2 DEF Framed
    <3>2. BytesFrom(de, k, q)
      <4> SUFFICES ASSUME NEW j \in 1 .. Len(q)
                   PROVE  /\ k + j <= Len(de) /\ de[k + j].kind = "bytes"
                          /\ de[k + j].shard = q[j]
        BY DEF BytesFrom
      <4> HIDE DEF de, q
      <4>1. m + j <= Len(e) /\ e[m + j].kind = "bytes" /\ e[m + j].shard = q[j]
        BY <3>1 DEF BytesFrom
      <4>2. Len(q) \in Nat /\ j \in Nat /\ j >= 1
        BY <3>1
      <4>3. m + j \in 1 .. Len(e) /\ k + j = Len(d) + (m + j)
        BY <1>1, <4>1, <4>2
      <4>4. de[k + j] = e[m + j]
        BY <1>1, <4>3
      <4> QED BY <1>1, <4>1, <4>3, <4>4
    <3> QED BY <2>1, <2>2, <3>1, <3>2
  <2>3. CASE e[m].kind \notin {"shard", "shards"}
    BY <2>1, <2>3 DEF Framed
  <2> QED BY <2>2, <2>3
<1>4. ASSUME NEW k \in 1 .. Len(de)
      PROVE  k \in 1 .. Len(d) \/ \E m \in 1 .. Len(e) : k = Len(d) + m
  <2>1. CASE k <= Len(d)
    BY <1>1, <2>1
  <2>2. CASE k > Len(d)
    <3>1. k - Len(d) \in 1 .. Len(e) /\ k = Len(d) + (k - Len(d))
      BY <1>1, <2>2
    <3> QED BY <3>1
  <2> QED BY <1>1, <2>1, <2>2
<1> HIDE DEF de
<1>5. Framed(de, S, N)
  <2> SUFFICES ASSUME NEW k \in 1 .. Len(de)
               PROVE  /\ de[k].kind \in {"shard", "shards"} =>
                            de[k].of \in Seq(S) /\ BytesFrom(de, k, de[k].of)
                      /\ de[k].kind = "version" => ToSet(de[k].of) \subseteq N
    BY DEF Framed
  <2>1. CASE k \in 1 .. Len(d)
    BY <1>2, <2>1
  <2>2. CASE \E m \in 1 .. Len(e) : k = Len(d) + m
    BY <1>3, <2>2
  <2> QED BY <1>4, <2>1, <2>2
<1> QED BY <1>1, <1>5 DEF de

(* A control frame and the bytes it announces, as _serve_request sends     *)
(* them.                                                                   *)
LEMMA AnswerFramed ==
    ASSUME NEW S \in SUBSET Nat, NEW N, NEW q \in Seq(S),
           NEW m \in Messages, m.kind \in {"shard", "shards"}, m.of = q
    PROVE  <<m>> \o Bulk(q) \in Seq(Messages) /\ Framed(<<m>> \o Bulk(q), S, N)
<1> DEFINE b == Bulk(q)
           d == <<m>> \o b
<1>1. Len(q) \in Nat /\ q \in [1 .. Len(q) -> S] /\ DOMAIN q = 1 .. Len(q)
  OBVIOUS
<1>2. /\ DOMAIN b = 1 .. Len(q)
      /\ \A j \in 1 .. Len(q) : b[j].kind = "bytes" /\ b[j].shard = q[j]
                               /\ b[j] \in Messages
  <2>1. \A j \in 1 .. Len(q) : b[j] = [kind |-> "bytes", shard |-> q[j]] /\ q[j] \in Nat
    BY <1>1 DEF Bulk
  <2> QED BY <1>1, <2>1 DEF Bulk, Messages
<1>3. b \in Seq(Messages) /\ Len(b) = Len(q)
  <2>1. b = [j \in 1 .. Len(q) |-> b[j]]
    BY <1>1 DEF Bulk
  <2> HIDE DEF b
  <2>2. b \in [1 .. Len(q) -> Messages]
    BY <1>2, <2>1
  <2> QED BY <1>1, <2>2
<1> HIDE DEF b
<1>4. /\ d \in Seq(Messages) /\ Len(d) = 1 + Len(q) /\ d[1] = m
      /\ \A j \in 1 .. Len(q) : d[1 + j] = b[j]
  BY <1>1, <1>3
<1> HIDE DEF d
<1>5. BytesFrom(d, 1, q)
  BY <1>1, <1>2, <1>4 DEF BytesFrom
<1>6. ASSUME NEW k \in 1 .. Len(d), k # 1
      PROVE  d[k].kind = "bytes"
  <2>1. PICK j \in 1 .. Len(q) : k = 1 + j
    <3>1. k - 1 \in 1 .. Len(q) /\ k = 1 + (k - 1)
      BY <1>1, <1>4, <1>6
    <3> QED BY <3>1
  <2>2. d[k] = b[j] /\ b[j].kind = "bytes"
    BY <1>2, <1>4, <2>1
  <2> QED BY <2>2
<1>7. Framed(d, S, N)
  BY <1>4, <1>5, <1>6 DEF Framed
<1> QED BY <1>4, <1>7 DEF d, b

(* A frame that announces no shard. *)
LEMMA FrameFramed ==
    ASSUME NEW S, NEW N, NEW m \in Messages, m.kind \in {"error", "version"},
           m.kind = "version" => ToSet(m.of) \subseteq N
    PROVE  <<m>> \in Seq(Messages) /\ Framed(<<m>>, S, N)
<1>1. <<m>> \in Seq(Messages) /\ Len(<<m>>) = 1 /\ <<m>>[1] = m
  OBVIOUS
<1> QED BY <1>1 DEF Framed

-----------------------------------------------------------------------------
(* The setup *)

LEMMA WantsTyped ==
    ASSUME setup \in Setups
    PROVE  /\ Shards \in SUBSET (Nat \ {0}) /\ Versions \in SUBSET (Nat \ {0})
           /\ setup.waits \subseteq Threads
           /\ setup.want \in [Threads -> SUBSET (Shards \cup Versions)]
           /\ \A t \in Threads : /\ IsFiniteSet(setup.want[t])
                                 /\ Waits(t) => setup.want[t] \subseteq Versions
                                 /\ ~Waits(t) => setup.want[t] \subseteq Shards
<1>1. /\ setup.waits \subseteq Threads
      /\ setup.want \in [Threads -> SUBSET (Nat \ {0})]
      /\ \A t \in Threads : IsFiniteSet(setup.want[t])
  BY SetupsAssumption
<1>2. \A t \in Threads : /\ Waits(t) => setup.want[t] \subseteq Versions
                         /\ ~Waits(t) => setup.want[t] \subseteq Shards
  BY <1>1 DEF Waits, Versions, Shards
<1>3. Shards \subseteq Nat \ {0} /\ Versions \subseteq Nat \ {0}
  BY <1>1 DEF Versions, Shards
<1> QED BY <1>1, <1>2, <1>3

LEMMA SetupStays ==
    ASSUME setup' = setup
    PROVE  /\ Shards' = Shards /\ Versions' = Versions
           /\ \A t : Waits(t)' <=> Waits(t)
BY DEF Shards, Versions, Waits

(* What the handler sends for a request is well framed. *)
LEMMA ReplyOK ==
    ASSUME TypeOK, NEW r \in Requests, RequestOK(r, Shards), Answerable(r)
    PROVE  Reply(r) \in Seq(Messages) /\ Framed(Reply(r), Shards, notified)
<1>1. have \subseteq Shards /\ Shards \subseteq Nat
  BY WantsTyped DEF TypeOK
<1>2. r.of \in Seq(Nat) /\ r.kind \in {"shard", "shards", "version"}
  BY DEF Requests
<1>3. CASE r.kind = "version"
  <2> DEFINE m == [kind |-> "version", of |-> r.of]
  <2>1. Len(r.of) = 1 /\ r.of[1] \in notified
    BY <1>3 DEF RequestOK, Answerable
  <2>2. m \in Messages /\ m.kind = "version" /\ m.of = r.of
    BY <1>2 DEF Messages
  <2>3. ToSet(m.of) \subseteq notified
    BY <1>2, <2>1, <2>2 DEF ToSet
  <2>4. Reply(r) = <<m>>
    BY <1>3 DEF Reply
  <2> HIDE DEF m
  <2> QED BY <2>2, <2>3, <2>4, FrameFramed
<1>4. CASE r.kind = "shard" /\ r.of[1] \in have
  <2> DEFINE m == [kind |-> "shard", of |-> r.of]
  <2>1. Len(r.of) = 1
    BY <1>4 DEF RequestOK
  <2>2. r.of \in Seq(Shards)
    <3>1. PICK x \in Shards : r.of[1] = x
      BY <1>1, <1>4
    <3>2. r.of = <<x>>
      BY <1>2, <2>1, <3>1
    <3> QED BY <3>2
  <2>3. m \in Messages /\ m.kind = "shard" /\ m.of = r.of
    BY <1>2 DEF Messages
  <2>4. Reply(r) = <<m>> \o Bulk(r.of)
    BY <1>4 DEF Reply
  <2> HIDE DEF m
  <2> QED BY <1>1, <2>2, <2>3, <2>4, AnswerFramed
<1>5. CASE r.kind = "shard" /\ r.of[1] \notin have
  <2>1. Error \in Messages /\ Error.kind = "error"
    BY DEF Error, Messages
  <2>2. Reply(r) = <<Error>>
    BY <1>5 DEF Reply
  <2> QED BY <2>1, <2>2, FrameFramed
<1>6. CASE r.kind = "shards"
  <2> DEFINE found == SetToSeq(ToSet(r.of) \cap have)
             missing == SetToSeq(ToSet(r.of) \ have)
             m == [kind |-> "shards", of |-> found, missing |-> missing]
  <2>1. IsFiniteSet(ToSet(r.of)) /\ ToSet(r.of) \subseteq Nat
    BY <1>2, ToSetFinite
  <2>2. IsFiniteSet(ToSet(r.of) \cap have) /\ IsFiniteSet(ToSet(r.of) \ have)
    BY <2>1, FS_Subset
  <2>3. found \in Seq(ToSet(r.of) \cap have) /\ missing \in Seq(ToSet(r.of) \ have)
    BY <2>2, SetToSeqOK
  <2>4. Reply(r) = <<m>> \o Bulk(found)
    BY <1>6 DEF Reply
  <2> HIDE DEF found, missing
  <2>5. found \in Seq(Shards) /\ found \in Seq(Nat) /\ missing \in Seq(Nat)
    BY <1>1, <2>1, <2>3
  <2>6. m \in Messages /\ m.kind = "shards" /\ m.of = found
    BY <2>5 DEF Messages
  <2> HIDE DEF m
  <2> QED BY <1>1, <2>4, <2>5, <2>6, AnswerFramed
<1> QED BY <1>2, <1>3, <1>4, <1>5, <1>6

-----------------------------------------------------------------------------
(* Init *)

LEMMA InitOK == Init => Inv
<1> SUFFICES ASSUME Init PROVE Inv
  OBVIOUS
<1> USE DEF Init
<1>1. /\ Shards \subseteq Nat \ {0} /\ Versions \subseteq Nat \ {0}
      /\ setup.want \in [Threads -> SUBSET (Shards \cup Versions)]
  BY WantsTyped
<1>2. conn # None => conn = Fresh
  OBVIOUS
<1>3. Fresh \in Endpoints /\ Fresh.up = << >> /\ Fresh.down = << >>
  BY DEF Fresh, Endpoints
<1>4. TypeOK
  BY <1>1, <1>2, <1>3, BoundsAssumption, NoneAssumption DEF TypeOK
<1>5. Streams
  BY <1>2, <1>3 DEF Streams, Framed
<1>6. Calls
  BY DEF Calls, CallOK
<1>7. InStep
  BY DEF InStep
<1>8. Intact
  BY DEF Intact
<1> QED BY <1>4, <1>5, <1>6, <1>7, <1>8 DEF Inv

-----------------------------------------------------------------------------
(* The end of a coroutine *)

(* A coroutine that fails, whatever becomes of the endpoint, unless another*)
(* holds the lock: it leaves nothing behind.                               *)
LEMMA RaisesOK ==
    ASSUME Inv, NEW t \in Threads, pc[t] # "none", Raises(t),
           UNCHANGED <<server, buf>>, timeouts' \in 0 .. MaxTimeouts,
           conn' \in Endpoints \cup {None}, Streams',
           lock \notin {t, None} => conn' = conn
    PROVE  Inv'
<1>1. /\ setup' = setup /\ notified' = notified /\ have' = have
      /\ changes' = changes /\ buf' = buf /\ left' = left
  BY DEF server, Raises
<1>2. Shards' = Shards /\ Versions' = Versions /\ \A u : Waits(u)' <=> Waits(u)
  BY <1>1, SetupStays
<1>3. /\ pc' = [pc EXCEPT ![t] = "none"]
      /\ req' = [req EXCEPT ![t] = None]
      /\ due' = [due EXCEPT ![t] = << >>]
      /\ lock' = IF lock = t THEN None ELSE lock
      /\ single' = [single EXCEPT ![t] = TRUE]
      /\ caller' = [caller EXCEPT ![t] =
                      IF req[t].kind = "shard" /\ caller[t] # "gone"
                      THEN "http" ELSE "ready"]
  BY DEF Raises, Ends, Stops
<1>4. /\ pc \in [Threads -> {"none", "lock", "answer", "bulk"}]
      /\ req \in [Threads -> Requests \cup {None}]
      /\ due \in [Threads -> Seq(Shards)]
      /\ caller \in [Threads -> {"ready", "waiting", "left", "gone", "http"}]
      /\ single \in [Threads -> BOOLEAN]
  BY DEF Inv, TypeOK
<1>5. /\ pc'[t] = "none" /\ caller'[t] \in {"http", "ready"}
      /\ caller'[t] = "http" => req[t].kind = "shard" /\ caller[t] # "gone"
      /\ \A u \in Threads \ {t} : /\ pc'[u] = pc[u] /\ caller'[u] = caller[u]
                                  /\ req'[u] = req[u] /\ due'[u] = due[u]
  BY <1>3, <1>4
<1>6. TypeOK'
  <2>1. /\ pc' \in [Threads -> {"none", "lock", "answer", "bulk"}]
        /\ req' \in [Threads -> Requests \cup {None}]
        /\ due' \in [Threads -> Seq(Shards)]
        /\ caller' \in [Threads -> {"ready", "waiting", "left", "gone", "http"}]
        /\ single' \in [Threads -> BOOLEAN]
    BY <1>3, <1>4
  <2>2. lock' \in Threads \cup {None} /\ (lock' # None => conn' # None)
    BY <1>3 DEF Inv, TypeOK
  <2>3. \A u \in Threads :
          /\ left'[u] \subseteq setup'.want[u]
          /\ pc'[u] # "none" <=> caller'[u] \in {"waiting", "left", "gone"}
          /\ pc'[u] # "none" => req'[u] \in Requests
          /\ pc'[u] \in {"answer", "bulk"} <=> lock' = u
    BY <1>1, <1>3, <1>5, NoneAssumption DEF Inv, TypeOK
  <2> QED BY <1>1, <1>2, <2>1, <2>2, <2>3 DEF Inv, TypeOK
<1>7. Calls'
  <2> SUFFICES ASSUME NEW u \in Threads PROVE CallOK(u)'
    BY DEF Calls
  <2>1. CallOK(u)
    BY DEF Inv, Calls
  <2>2. CASE u = t
    <3>1. caller[t] \in {"waiting", "left", "gone"}
      BY DEF Inv, TypeOK
    <3> QED BY <1>1, <1>2, <1>5, <2>1, <2>2, <3>1 DEF CallOK
  <2>3. CASE u # t
    BY <1>1, <1>2, <1>5, <2>1, <2>3 DEF CallOK
  <2> QED BY <2>2, <2>3
<1>8. InStep'
  <2> SUFFICES ASSUME NEW u \in Threads, pc'[u] = "bulk"
               PROVE  /\ BytesFrom(conn'.down, 0, due'[u])
                      /\ Waits(u)' => /\ due'[u] = << >>
                                      /\ ToSet(req'[u].of) \subseteq notified'
                      /\ req'[u].kind = "shard" => due'[u] \in {<< >>, req'[u].of}
    BY DEF InStep
  <2>1. u # t /\ pc[u] = "bulk" /\ req'[u] = req[u] /\ due'[u] = due[u]
    BY <1>5
  <2>2. lock = u
    BY <2>1 DEF Inv, TypeOK
  <2>3. conn' = conn
    BY <2>1, <2>2, NoneAssumption
  <2> QED BY <1>1, <1>2, <2>1, <2>3 DEF Inv, InStep
<1>9. Intact'
  BY <1>1, <1>2 DEF Inv, Intact
<1> QED BY <1>6, <1>7, <1>8, <1>9 DEF Inv

(* A coroutine that returns: what it has got is in place. *)
LEMMA ReturnsOK ==
    ASSUME Inv, NEW t \in Threads, pc[t] = "bulk", Returns(t),
           UNCHANGED <<server, conn, buf, timeouts>>
    PROVE  Inv'
<1>1. /\ setup' = setup /\ notified' = notified /\ have' = have
      /\ changes' = changes /\ buf' = buf /\ conn' = conn /\ timeouts' = timeouts
  BY DEF server
<1>2. Shards' = Shards /\ Versions' = Versions /\ \A u : Waits(u)' <=> Waits(u)
  BY <1>1, SetupStays
<1> DEFINE Done == IF Waits(t) THEN ToSet(req[t].of) ELSE req[t].got
<1>3. /\ pc' = [pc EXCEPT ![t] = "none"]
      /\ req' = [req EXCEPT ![t] = None]
      /\ due' = [due EXCEPT ![t] = << >>]
      /\ lock' = IF lock = t THEN None ELSE lock
      /\ single' = [single EXCEPT ![t] = TRUE]
      /\ caller' = [caller EXCEPT ![t] = "ready"]
      /\ left' = [left EXCEPT ![t] = left[t] \ Done]
  BY DEF Returns, Ends, Stops
<1> HIDE DEF Done
<1>4. /\ pc \in [Threads -> {"none", "lock", "answer", "bulk"}]
      /\ req \in [Threads -> Requests \cup {None}]
      /\ due \in [Threads -> Seq(Shards)]
      /\ caller \in [Threads -> {"ready", "waiting", "left", "gone", "http"}]
      /\ single \in [Threads -> BOOLEAN]
      /\ left \in [Threads -> SUBSET (Shards \cup Versions)]
      /\ lock = t
  BY DEF Inv, TypeOK
<1>5. /\ pc'[t] = "none" /\ caller'[t] = "ready" /\ left'[t] = left[t] \ Done
      /\ lock' = None
      /\ \A u \in Threads \ {t} : /\ pc'[u] = pc[u] /\ caller'[u] = caller[u]
                                  /\ req'[u] = req[u] /\ due'[u] = due[u]
                                  /\ left'[u] = left[u]
  BY <1>3, <1>4
<1>6. TypeOK'
  <2>1. /\ pc' \in [Threads -> {"none", "lock", "answer", "bulk"}]
        /\ req' \in [Threads -> Requests \cup {None}]
        /\ due' \in [Threads -> Seq(Shards)]
        /\ caller' \in [Threads -> {"ready", "waiting", "left", "gone", "http"}]
        /\ single' \in [Threads -> BOOLEAN]
        /\ left' \in [Threads -> SUBSET (Shards \cup Versions)]
    BY <1>3, <1>4
  <2>3. \A u \in Threads :
          /\ left'[u] \subseteq setup'.want[u]
          /\ pc'[u] # "none" <=> caller'[u] \in {"waiting", "left", "gone"}
          /\ pc'[u] # "none" => req'[u] \in Requests
          /\ pc'[u] \in {"answer", "bulk"} <=> lock' = u
    BY <1>1, <1>4, <1>5, NoneAssumption DEF Inv, TypeOK
  <2> QED BY <1>1, <1>2, <1>5, <2>1, <2>3 DEF Inv, TypeOK
<1>7. Streams'
  BY <1>1, <1>2 DEF Inv, Streams
<1>8. Calls'
  <2> SUFFICES ASSUME NEW u \in Threads PROVE CallOK(u)'
    BY DEF Calls
  <2>1. CallOK(u)
    BY DEF Inv, Calls
  <2> QED BY <1>1, <1>2, <1>5, <2>1 DEF CallOK
<1>9. InStep'
  <2>1. \A u \in Threads : pc'[u] # "bulk"
    BY <1>4, <1>5 DEF Inv, TypeOK
  <2> QED BY <2>1 DEF InStep
<1>10. Intact'
  <2> SUFFICES ASSUME NEW u \in Threads, NEW i \in setup.want[u] \ left'[u]
               PROVE  IF Waits(u) THEN i \in notified ELSE buf[i] = i
    BY <1>1, <1>2 DEF Intact
  <2>1. CASE i \notin left[u]
    BY <2>1 DEF Inv, Intact
  <2>2. CASE i \in left[u]
    <3>1. u = t /\ i \in Done
      BY <1>5, <2>2
    <3>2. CASE Waits(t)
      BY <3>1, <3>2 DEF Inv, InStep, Done
    <3>3. CASE ~Waits(t)
      BY <3>1, <3>3 DEF Inv, Calls, CallOK, Done
    <3> QED BY <3>1, <3>2, <3>3
  <2> QED BY <2>1, <2>2
<1> QED BY <1>6, <1>7, <1>8, <1>9, <1>10 DEF Inv

-----------------------------------------------------------------------------
(* The server *)

LEMMA ChangeOK ==
    ASSUME Inv, NEW S \in SUBSET Shards, Change(S)
    PROVE  Inv'
<1>1. Shards' = Shards /\ Versions' = Versions /\ \A u : Waits(u)' <=> Waits(u)
  BY SetupStays DEF Change
<1> USE DEF Change, thread
<1>2. TypeOK'
  BY <1>1, BoundsAssumption DEF Inv, TypeOK
<1>3. Streams'
  BY <1>1 DEF Inv, Streams
<1>4. Calls'
  BY <1>1 DEF Inv, Calls, CallOK
<1>5. InStep'
  BY <1>1 DEF Inv, InStep
<1>6. Intact'
  BY <1>1 DEF Inv, Intact
<1> QED BY <1>2, <1>3, <1>4, <1>5, <1>6 DEF Inv

LEMMA NotifyOK ==
    ASSUME Inv, NEW v \in Versions, Notify(v)
    PROVE  Inv'
<1>1. Shards' = Shards /\ Versions' = Versions /\ \A u : Waits(u)' <=> Waits(u)
  BY SetupStays DEF Notify
<1> USE DEF Notify, thread
<1>2. TypeOK'
  BY <1>1 DEF Inv, TypeOK
<1>3. Streams'
  BY <1>1 DEF Inv, Streams, Framed
<1>4. Calls'
  BY <1>1 DEF Inv, Calls, CallOK
<1>5. InStep'
  BY <1>1 DEF Inv, InStep
<1>6. Intact'
  BY <1>1 DEF Inv, Intact
<1> QED BY <1>2, <1>3, <1>4, <1>5, <1>6 DEF Inv

(* Requests were taken from the endpoint, or messages put into it: what was*)
(* there stays there.                                                      *)
LEMMA EndpointOK ==
    ASSUME Inv, conn # None, NEW e \in Seq(Messages),
           Framed(e, Shards, notified),
           conn' \in Endpoints, conn'.down = conn.down \o e,
           \A k \in 1 .. Len(conn'.up) : RequestOK(conn'.up[k], Shards),
           timeouts' \in 0 .. MaxTimeouts,
           UNCHANGED <<server, lock, pc, req, due, thread, buf>>
    PROVE  Inv'
<1>1. Shards' = Shards /\ Versions' = Versions /\ \A u : Waits(u)' <=> Waits(u)
  BY SetupStays DEF server
<1> USE DEF server, thread
<1>2. conn \in Endpoints /\ conn.down \in Seq(Messages) /\ conn' # None
  BY NoneAssumption DEF Inv, TypeOK, Endpoints
<1>3. TypeOK'
  BY <1>1, <1>2 DEF Inv, TypeOK
<1>4. Streams'
  <2>1. Framed(conn.down, Shards, notified)
    BY DEF Inv, Streams
  <2>2. Framed(conn.down \o e, Shards, notified)
    BY <1>2, <2>1, ConcatFramed
  <2> QED BY <1>1, <2>2 DEF Streams
<1>5. Calls'
  BY <1>1 DEF Inv, Calls, CallOK
<1>6. InStep'
  <2> SUFFICES ASSUME NEW u \in Threads, pc[u] = "bulk"
               PROVE  /\ BytesFrom(conn'.down, 0, due[u])
                      /\ Waits(u) => /\ due[u] = << >>
                                     /\ ToSet(req[u].of) \subseteq notified
                      /\ req[u].kind = "shard" => due[u] \in {<< >>, req[u].of}
    BY <1>1 DEF InStep
  <2>1. due[u] \in Seq(Shards) /\ BytesFrom(conn.down, 0, due[u])
    BY DEF Inv, TypeOK, InStep
  <2>2. BytesFrom(conn.down \o e, 0, due[u])
    BY <1>2, <2>1, BytesStay
  <2> QED BY <2>2 DEF Inv, InStep
<1>7. Intact'
  BY <1>1 DEF Inv, Intact
<1> QED BY <1>3, <1>4, <1>5, <1>6, <1>7 DEF Inv

LEMMA NothingAppended ==
    ASSUME Inv, conn # None
    PROVE  /\ conn \in Endpoints /\ conn.up \in Seq(Requests)
           /\ conn.down \in Seq(Messages) /\ conn.down \o << >> = conn.down
           /\ \A k \in 1 .. Len(conn.up) : RequestOK(conn.up[k], Shards)
           /\ Framed(conn.down, Shards, notified)
           /\ << >> \in Seq(Messages) /\ Framed(<< >>, Shards, notified)
<1>1. conn \in Endpoints
  BY DEF Inv, TypeOK
<1>2. conn.up \in Seq(Requests) /\ conn.down \in Seq(Messages)
  BY <1>1 DEF Endpoints
<1>3. Framed(<< >>, Shards, notified)
  BY DEF Framed
<1> QED BY <1>1, <1>2, <1>3 DEF Inv, Streams

LEMMA ServeRequestOK ==
    ASSUME Inv, ServeRequest
    PROVE  Inv'
<1> DEFINE r == Head(conn.up)
           e == Reply(r)
<1>1. /\ conn # None /\ conn.up # << >> /\ Answerable(r)
      /\ conn' = [conn EXCEPT !.up = Tail(conn.up), !.down = conn.down \o e]
      /\ UNCHANGED <<server, lock, pc, req, due, thread, buf, timeouts>>
  BY DEF ServeRequest
<1>2. /\ conn \in Endpoints /\ conn.up \in Seq(Requests)
      /\ conn.down \in Seq(Messages)
      /\ \A k \in 1 .. Len(conn.up) : RequestOK(conn.up[k], Shards)
  BY <1>1, NothingAppended
<1>3. /\ r \in Requests /\ RequestOK(r, Shards) /\ Tail(conn.up) \in Seq(Requests)
      /\ \A k \in 1 .. Len(Tail(conn.up)) : RequestOK(Tail(conn.up)[k], Shards)
  <2>1. Len(conn.up) \in Nat \ {0} /\ r = conn.up[1]
    BY <1>1, <1>2
  <2>2. /\ Len(Tail(conn.up)) = Len(conn.up) - 1 /\ Tail(conn.up) \in Seq(Requests)
        /\ \A k \in 1 .. (Len(conn.up) - 1) : Tail(conn.up)[k] = conn.up[k + 1]
    BY <1>1, <1>2
  <2> QED BY <1>2, <2>1, <2>2
<1>4. e \in Seq(Messages) /\ Framed(e, Shards, notified)
  BY <1>1, <1>3, ReplyOK DEF Inv
<1> HIDE DEF e, r
<1>5. conn.down \o e \in Seq(Messages)
  BY <1>2, <1>4
<1>6. /\ conn' \in Endpoints /\ conn'.down = conn.down \o e
      /\ conn'.up = Tail(conn.up)
  BY <1>1, <1>2, <1>3, <1>5 DEF Endpoints
<1>7. timeouts' \in 0 .. MaxTimeouts
  BY <1>1 DEF Inv, TypeOK
<1> QED BY <1>1, <1>3, <1>4, <1>6, <1>7, EndpointOK

LEMMA WaitExpiresOK ==
    ASSUME Inv, WaitExpires
    PROVE  Inv'
<1> DEFINE e == <<Error>>
<1>1. /\ conn # None /\ conn.up # << >>
      /\ conn' = [conn EXCEPT !.up = Tail(conn.up), !.down = Append(conn.down, Error)]
      /\ UNCHANGED <<server, lock, pc, req, due, thread, buf, timeouts>>
  BY DEF WaitExpires
<1>2. /\ conn \in Endpoints /\ conn.up \in Seq(Requests)
      /\ conn.down \in Seq(Messages)
      /\ \A k \in 1 .. Len(conn.up) : RequestOK(conn.up[k], Shards)
  BY <1>1, NothingAppended
<1>3. /\ Tail(conn.up) \in Seq(Requests)
      /\ \A k \in 1 .. Len(Tail(conn.up)) : RequestOK(Tail(conn.up)[k], Shards)
  <2>1. Len(conn.up) \in Nat \ {0}
    BY <1>1, <1>2
  <2>2. /\ Len(Tail(conn.up)) = Len(conn.up) - 1 /\ Tail(conn.up) \in Seq(Requests)
        /\ \A k \in 1 .. (Len(conn.up) - 1) : Tail(conn.up)[k] = conn.up[k + 1]
    BY <1>1, <1>2
  <2> QED BY <1>2, <2>1, <2>2
<1>4. e \in Seq(Messages) /\ Framed(e, Shards, notified)
  <2>1. Error \in Messages /\ Error.kind = "error"
    BY DEF Error, Messages
  <2> QED BY <2>1, FrameFramed
<1>5. conn.down \o e \in Seq(Messages) /\ Append(conn.down, Error) = conn.down \o e
  <2>1. Error \in Messages
    BY DEF Error, Messages
  <2> QED BY <1>2, <2>1
<1> HIDE DEF e
<1>6. /\ conn' \in Endpoints /\ conn'.down = conn.down \o e
      /\ conn'.up = Tail(conn.up)
  BY <1>1, <1>2, <1>3, <1>5 DEF Endpoints
<1>7. timeouts' \in 0 .. MaxTimeouts
  BY <1>1 DEF Inv, TypeOK
<1> QED BY <1>1, <1>3, <1>4, <1>6, <1>7, EndpointOK

LEMMA ServerClosesOK ==
    ASSUME Inv, ServerCloses
    PROVE  Inv'
<1>1. /\ conn # None /\ timeouts < MaxTimeouts /\ timeouts' = timeouts + 1
      /\ conn' = [conn EXCEPT !.open = FALSE]
      /\ UNCHANGED <<server, lock, pc, req, due, thread, buf>>
  BY DEF ServerCloses
<1>2. /\ conn \in Endpoints /\ conn.down \o << >> = conn.down
      /\ \A k \in 1 .. Len(conn.up) : RequestOK(conn.up[k], Shards)
      /\ << >> \in Seq(Messages) /\ Framed(<< >>, Shards, notified)
  BY <1>1, NothingAppended
<1>3. conn' \in Endpoints /\ conn'.down = conn.down /\ conn'.up = conn.up
  BY <1>1, <1>2 DEF Endpoints
<1>4. timeouts' \in 0 .. MaxTimeouts
  BY <1>1, BoundsAssumption DEF Inv, TypeOK
<1> QED BY <1>1, <1>2, <1>3, <1>4, EndpointOK

-----------------------------------------------------------------------------
(* The client *)

LEMMA CallStepOK ==
    ASSUME Inv, NEW t \in Threads, Call(t)
    PROVE  Inv'
<1> DEFINE r == IF single[t] \/ Waits(t)
                THEN [kind |-> IF Waits(t) THEN "version" ELSE "shard",
                      of |-> <<Min(left[t])>>, got |-> {}]
                ELSE [kind |-> "shards", of |-> SetToSeq(left[t]), got |-> {}]
<1>1. /\ caller[t] = "ready" /\ left[t] # {}
      /\ caller' = [caller EXCEPT ![t] = "waiting"]
      /\ pc' = [pc EXCEPT ![t] = "lock"]
      /\ req' = [req EXCEPT ![t] = r]
      /\ setup' = setup /\ notified' = notified /\ have' = have
      /\ changes' = changes /\ conn' = conn /\ lock' = lock /\ due' = due
      /\ left' = left /\ single' = single /\ buf' = buf /\ timeouts' = timeouts
  BY DEF Call, server
<1>2. Shards' = Shards /\ Versions' = Versions /\ \A u : Waits(u)' <=> Waits(u)
  BY <1>1, SetupStays
<1>3. /\ r \in Requests /\ r.got = {} /\ RequestOK(r, Shards)
      /\ Waits(t) <=> r.kind = "version"
  <2>1. /\ Shards \subseteq Nat /\ Versions \subseteq Nat
        /\ IsFiniteSet(setup.want[t]) /\ left[t] \subseteq setup.want[t]
        /\ left[t] \subseteq Nat
        /\ ~Waits(t) => left[t] \subseteq Shards
    BY WantsTyped DEF Inv, TypeOK
  <2>2. Min(left[t]) \in left[t]
    BY <1>1, <2>1, LeastIsIn
  <2>3. SetToSeq(left[t]) \in Seq(left[t])
    BY <2>1, FS_Subset, SetToSeqOK
  <2>4. CASE single[t] \/ Waits(t)
    <3>1. <<Min(left[t])>> \in Seq(Nat) /\ Len(<<Min(left[t])>>) = 1
      BY <2>1, <2>2
    <3>2. /\ r.kind = IF Waits(t) THEN "version" ELSE "shard"
          /\ r.of = <<Min(left[t])>> /\ r.got = {}
      BY <2>4
    <3>3. r \in Requests
      BY <2>4, <3>1 DEF Requests
    <3> HIDE DEF r
    <3> QED BY <3>1, <3>2, <3>3 DEF RequestOK
  <2>5. CASE ~(single[t] \/ Waits(t))
    <3>1. SetToSeq(left[t]) \in Seq(Nat) /\ SetToSeq(left[t]) \in Seq(Shards)
      BY <2>1, <2>3, <2>5
    <3>2. r.kind = "shards" /\ r.of = SetToSeq(left[t]) /\ r.got = {}
      BY <2>5
    <3>3. r \in Requests
      BY <2>5, <3>1 DEF Requests
    <3> HIDE DEF r
    <3> QED BY <2>5, <3>1, <3>2, <3>3 DEF RequestOK
  <2> QED BY <2>4, <2>5
<1> HIDE DEF r
<1>4. /\ pc \in [Threads -> {"none", "lock", "answer", "bulk"}]
      /\ req \in [Threads -> Requests \cup {None}]
      /\ caller \in [Threads -> {"ready", "waiting", "left", "gone", "http"}]
  BY DEF Inv, TypeOK
<1>5. /\ pc' \in [Threads -> {"none", "lock", "answer", "bulk"}]
      /\ req' \in [Threads -> Requests \cup {None}]
      /\ caller' \in [Threads -> {"ready", "waiting", "left", "gone", "http"}]
      /\ pc'[t] = "lock" /\ caller'[t] = "waiting" /\ req'[t] = r
      /\ \A u \in Threads \ {t} : /\ pc'[u] = pc[u] /\ caller'[u] = caller[u]
                                  /\ req'[u] = req[u]
  BY <1>1, <1>3, <1>4
<1>6. TypeOK'
  <2>1. pc[t] = "none" /\ lock # t
    BY <1>1 DEF Inv, TypeOK
  <2>2. \A u \in Threads :
          /\ left'[u] \subseteq setup'.want[u]
          /\ pc'[u] # "none" <=> caller'[u] \in {"waiting", "left", "gone"}
          /\ pc'[u] # "none" => req'[u] \in Requests
          /\ pc'[u] \in {"answer", "bulk"} <=> lock' = u
    BY <1>1, <1>3, <1>5, <2>1 DEF Inv, TypeOK
  <2> QED BY <1>1, <1>2, <1>5, <2>2 DEF Inv, TypeOK
<1>7. Streams'
  BY <1>1, <1>2 DEF Inv, Streams
<1>8. Calls'
  <2> SUFFICES ASSUME NEW u \in Threads PROVE CallOK(u)'
    BY DEF Calls
  <2>1. CallOK(u)
    BY DEF Inv, Calls
  <2> QED BY <1>1, <1>2, <1>3, <1>5, <2>1 DEF CallOK
<1>9. InStep'
  BY <1>1, <1>2, <1>5 DEF Inv, InStep
<1>10. Intact'
  BY <1>1, <1>2 DEF Inv, Intact
<1> QED BY <1>6, <1>7, <1>8, <1>9, <1>10 DEF Inv

(* HTTP is tried: a shard that arrives is in its place. *)
LEMMA FallbackOK ==
    ASSUME Inv, NEW t \in Threads, Fallback(t)
    PROVE  Inv'
<1> DEFINE x == Min(left[t])
           c == IF caller[t] = "http" THEN "ready" ELSE "gone"
<1>1. /\ caller' = [caller EXCEPT ![t] = c]
      /\ \/ caller[t] = "http"
         \/ caller[t] = "left" /\ req[t].kind = "shard"
      /\ setup' = setup /\ notified' = notified /\ have' = have
      /\ changes' = changes /\ conn' = conn /\ lock' = lock /\ due' = due
      /\ pc' = pc /\ req' = req /\ single' = single /\ timeouts' = timeouts
  BY DEF Fallback, server
<1>2. \/ left' = left /\ buf' = buf
      \/ /\ left' = [left EXCEPT ![t] = left[t] \ {x}]
         /\ buf' = [buf EXCEPT ![x] = x]
  BY DEF Fallback
<1>3. Shards' = Shards /\ Versions' = Versions /\ \A u : Waits(u)' <=> Waits(u)
  BY <1>1, SetupStays
<1>4. CallOK(t) /\ (caller[t] = "left" => pc[t] # "none")
  BY DEF Inv, Calls, TypeOK
<1>5. ~Waits(t) /\ left[t] # {}
  BY <1>1, <1>4 DEF CallOK
<1>6. x \in Shards
  <2>1. left[t] \subseteq Shards /\ Shards \subseteq Nat
    BY <1>5, WantsTyped DEF Inv, TypeOK
  <2>2. Min(left[t]) \in left[t]
    BY <1>5, <2>1, LeastIsIn
  <2> QED BY <2>1, <2>2
<1> HIDE DEF x
<1>7. /\ caller \in [Threads -> {"ready", "waiting", "left", "gone", "http"}]
      /\ left \in [Threads -> SUBSET (Shards \cup Versions)]
      /\ buf \in [Shards -> Shards \cup {0}]
  BY DEF Inv, TypeOK
<1>8. /\ left' \in [Threads -> SUBSET (Shards \cup Versions)]
      /\ \A u \in Threads \ {t} : left'[u] = left[u]
      /\ left'[t] \subseteq left[t] /\ left[t] \ left'[t] \subseteq {x}
      /\ left'[t] # left[t] => buf'[x] = x
      /\ buf' \in [Shards -> Shards \cup {0}]
      /\ \A i \in Shards : buf'[i] = buf[i] \/ buf'[i] = i
  <2>1. CASE left' = left /\ buf' = buf
    BY <1>7, <2>1
  <2>2. CASE /\ left' = [left EXCEPT ![t] = left[t] \ {x}]
             /\ buf' = [buf EXCEPT ![x] = x]
    BY <1>6, <1>7, <2>2
  <2> QED BY <1>2, <2>1, <2>2
<1>9. /\ caller' \in [Threads -> {"ready", "waiting", "left", "gone", "http"}]
      /\ caller'[t] = c
      /\ \A u \in Threads \ {t} : caller'[u] = caller[u]
  BY <1>1, <1>7
<1>10. TypeOK'
  <2>1. \A u \in Threads :
          /\ left'[u] \subseteq setup'.want[u]
          /\ pc'[u] # "none" <=> caller'[u] \in {"waiting", "left", "gone"}
          /\ pc'[u] # "none" => req'[u] \in Requests
          /\ pc'[u] \in {"answer", "bulk"} <=> lock' = u
    BY <1>1, <1>8, <1>9 DEF Inv, TypeOK
  <2> QED BY <1>1, <1>3, <1>8, <1>9, <2>1 DEF Inv, TypeOK
<1>11. Streams'
  BY <1>1, <1>3 DEF Inv, Streams
<1>12. Calls'
  <2> SUFFICES ASSUME NEW u \in Threads PROVE CallOK(u)'
    BY DEF Calls
  <2>1. CallOK(u)
    BY DEF Inv, Calls
  <2>2. ASSUME pc[u] # "none", NEW i \in req[u].got
        PROVE  buf'[i] = i
    <3>1. buf[i] = i
      BY <2>1, <2>2 DEF CallOK
    <3>2. CASE buf' = buf
      BY <3>1, <3>2
    <3>3. CASE buf' = [buf EXCEPT ![x] = x]
      BY <1>6, <1>7, <3>1, <3>3
    <3> QED BY <1>2, <3>2, <3>3
  <2> QED BY <1>1, <1>3, <1>8, <1>9, <2>1, <2>2 DEF CallOK
<1>13. InStep'
  BY <1>1, <1>3 DEF Inv, InStep
<1>14. Intact'
  <2> SUFFICES ASSUME NEW u \in Threads, NEW i \in setup.want[u] \ left'[u]
               PROVE  IF Waits(u) THEN i \in notified ELSE buf'[i] = i
    BY <1>1, <1>3 DEF Intact
  <2>1. CASE i \notin left[u]
    <3>1. IF Waits(u) THEN i \in notified ELSE buf[i] = i
      BY <2>1 DEF Inv, Intact
    <3>2. ~Waits(u) => i \in Shards
      BY WantsTyped DEF Inv, TypeOK
    <3> QED BY <1>8, <3>1, <3>2
  <2>2. CASE i \in left[u]
    BY <1>5, <1>8, <2>2
  <2> QED BY <2>1, <2>2
<1> QED BY <1>10, <1>11, <1>12, <1>13, <1>14 DEF Inv

LEMMA CallerLeavesOK ==
    ASSUME Inv, NEW t \in Threads, CallerLeaves(t)
    PROVE  Inv'
<1>1. /\ caller[t] = "waiting" /\ caller' = [caller EXCEPT ![t] = "left"]
      /\ timeouts < MaxTimeouts /\ timeouts' = timeouts + 1
      /\ setup' = setup /\ notified' = notified /\ have' = have
      /\ changes' = changes /\ conn' = conn /\ lock' = lock /\ due' = due
      /\ pc' = pc /\ req' = req /\ single' = single /\ buf' = buf
      /\ left' = left
  BY DEF CallerLeaves, server
<1>2. Shards' = Shards /\ Versions' = Versions /\ \A u : Waits(u)' <=> Waits(u)
  BY <1>1, SetupStays
<1>3. /\ caller' \in [Threads -> {"ready", "waiting", "left", "gone", "http"}]
      /\ caller'[t] = "left"
      /\ \A u \in Threads \ {t} : caller'[u] = caller[u]
  BY <1>1 DEF Inv, TypeOK
<1>4. TypeOK'
  <2>1. \A u \in Threads :
          pc'[u] # "none" <=> caller'[u] \in {"waiting", "left", "gone"}
    BY <1>1, <1>3 DEF Inv, TypeOK
  <2> QED BY <1>1, <1>2, <1>3, <2>1, BoundsAssumption DEF Inv, TypeOK
<1>5. Streams'
  BY <1>1, <1>2 DEF Inv, Streams
<1>6. Calls'
  BY <1>1, <1>2, <1>3 DEF Inv, Calls, CallOK
<1>7. InStep'
  BY <1>1, <1>2 DEF Inv, InStep
<1>8. Intact'
  BY <1>1, <1>2 DEF Inv, Intact
<1> QED BY <1>4, <1>5, <1>6, <1>7, <1>8 DEF Inv

-----------------------------------------------------------------------------
(* The coroutine *)

(* The endpoint is dropped. *)
LEMMA DropsOK ==
    ASSUME Inv, NEW t \in Threads, pc[t] # "none", Discard, Raises(t),
           lock \in {t, None}, UNCHANGED <<server, buf>>,
           timeouts' \in 0 .. MaxTimeouts
    PROVE  Inv'
<1>1. conn' = None
  BY DEF Discard
<1>2. Streams'
  BY <1>1 DEF Streams
<1> QED BY <1>1, <1>2, RaisesOK

(* The endpoint stays as it is. *)
LEMMA EndsQuietly ==
    ASSUME Inv, NEW t \in Threads, pc[t] # "none", Raises(t),
           UNCHANGED <<server, conn, buf, timeouts>>
    PROVE  Inv'
<1>1. /\ conn' \in Endpoints \cup {None} /\ conn' = conn
      /\ timeouts' \in 0 .. MaxTimeouts
  BY DEF Inv, TypeOK
<1>2. Streams'
  <2>1. Shards' = Shards
    BY SetupStays DEF server
  <2> QED BY <2>1 DEF Inv, Streams, server
<1> QED BY <1>1, <1>2, RaisesOK

LEMMA SendOK ==
    ASSUME Inv, NEW t \in Threads, Send(t)
    PROVE  Inv'
<1> DEFINE c == IF conn = None THEN Fresh ELSE conn
<1>1. /\ pc[t] = "lock" /\ lock = None /\ timeouts' = timeouts
      /\ UNCHANGED <<server, buf>> /\ timeouts' \in 0 .. MaxTimeouts
      /\ setup' = setup /\ notified' = notified /\ have' = have
      /\ changes' = changes /\ buf' = buf
  BY DEF Send, server, Inv, TypeOK
<1>2. CASE ~c.open
  <2>1. Discard /\ Raises(t)
    BY <1>2 DEF Send
  <2> QED BY <1>1, <2>1, DropsOK
<1>3. CASE c.open
  <2>1. /\ conn' = [c EXCEPT !.up = Append(c.up, req[t])]
        /\ lock' = t /\ pc' = [pc EXCEPT ![t] = "answer"]
        /\ req' = req /\ due' = due /\ caller' = caller /\ left' = left
        /\ single' = single
    BY <1>3 DEF Send, thread
  <2>2. /\ c \in Endpoints /\ c.up \in Seq(Requests) /\ c.down \in Seq(Messages)
        /\ \A k \in 1 .. Len(c.up) : RequestOK(c.up[k], Shards)
        /\ Framed(c.down, Shards, notified)
    <3>1. CASE conn = None
      <4>1. Fresh \in Endpoints /\ Fresh.up = << >> /\ Fresh.down = << >>
        BY DEF Fresh, Endpoints
      <4>2. /\ Fresh.up \in Seq(Requests) /\ Fresh.down \in Seq(Messages)
            /\ \A k \in 1 .. Len(Fresh.up) : RequestOK(Fresh.up[k], Shards)
            /\ Framed(Fresh.down, Shards, notified)
        BY <4>1 DEF Framed
      <4>3. c = Fresh
        BY <3>1
      <4> HIDE DEF c
      <4> QED BY <4>1, <4>2, <4>3
    <3>2. CASE conn # None
      BY <3>2, NothingAppended
    <3> QED BY <3>1, <3>2
  <2> HIDE DEF c
  <2>3. req[t] \in Requests /\ RequestOK(req[t], Shards)
    BY <1>1 DEF Inv, TypeOK, Calls, CallOK
  <2>4. /\ Append(c.up, req[t]) \in Seq(Requests)
        /\ \A k \in 1 .. Len(Append(c.up, req[t])) :
              RequestOK(Append(c.up, req[t])[k], Shards)
    BY <2>2, <2>3
  <2>5. /\ conn' \in Endpoints /\ conn'.down = c.down
        /\ conn'.up = Append(c.up, req[t]) /\ conn' # None
    BY <2>1, <2>2, <2>4, NoneAssumption DEF Endpoints
  <2>6. Shards' = Shards /\ Versions' = Versions /\ \A u : Waits(u)' <=> Waits(u)
    BY <1>1, SetupStays
  <2>7. /\ pc' \in [Threads -> {"none", "lock", "answer", "bulk"}]
        /\ pc'[t] = "answer"
        /\ \A u \in Threads \ {t} : pc'[u] = pc[u]
    BY <2>1 DEF Inv, TypeOK
  <2>8. \A u \in Threads : pc[u] \notin {"answer", "bulk"}
    BY <1>1, NoneAssumption DEF Inv, TypeOK
  <2>9. TypeOK'
    <3>1. \A u \in Threads :
            /\ left'[u] \subseteq setup'.want[u]
            /\ pc'[u] # "none" <=> caller'[u] \in {"waiting", "left", "gone"}
            /\ pc'[u] # "none" => req'[u] \in Requests
            /\ pc'[u] \in {"answer", "bulk"} <=> lock' = u
      BY <1>1, <2>1, <2>7, <2>8 DEF Inv, TypeOK
    <3> QED BY <1>1, <2>1, <2>5, <2>6, <2>7, <3>1 DEF Inv, TypeOK
  <2>10. Streams'
    BY <1>1, <2>2, <2>4, <2>5, <2>6 DEF Streams
  <2>11. Calls'
    <3> SUFFICES ASSUME NEW u \in Threads PROVE CallOK(u)'
      BY DEF Calls
    <3>1. CallOK(u)
      BY DEF Inv, Calls
    <3> QED BY <1>1, <2>1, <2>6, <2>7, <3>1 DEF CallOK
  <2>12. InStep'
    BY <2>7, <2>8 DEF InStep
  <2>13. Intact'
    BY <1>1, <2>1, <2>6 DEF Inv, Intact
  <2> QED BY <2>9, <2>10, <2>11, <2>12, <2>13 DEF Inv
<1> QED BY <1>2, <1>3

(* The endpoint of the coroutine that holds the lock, one message on. *)
LEMMA MessageTaken ==
    ASSUME Inv, NEW t \in Threads, pc[t] \in {"answer", "bulk"}, conn.down # << >>,
           conn' = [conn EXCEPT !.down = Tail(conn.down)]
    PROVE  /\ lock = t /\ conn # None /\ conn' \in Endpoints /\ conn' # None
           /\ conn'.down = Tail(conn.down) /\ conn'.up = conn.up
           /\ conn.down \in Seq(Messages) /\ Framed(conn.down, Shards, notified)
           /\ Framed(conn'.down, Shards, notified)
           /\ \A k \in 1 .. Len(conn'.up) : RequestOK(conn'.up[k], Shards)
<1>1. lock = t /\ conn # None
  BY NoneAssumption DEF Inv, TypeOK
<1>2. /\ conn \in Endpoints /\ conn.down \in Seq(Messages)
      /\ Framed(conn.down, Shards, notified)
      /\ \A k \in 1 .. Len(conn.up) : RequestOK(conn.up[k], Shards)
  BY <1>1, NothingAppended
<1>3. /\ Tail(conn.down) \in Seq(Messages)
      /\ Framed(Tail(conn.down), Shards, notified)
  BY <1>2, TailFramed
<1>4. /\ conn' \in Endpoints /\ conn'.down = Tail(conn.down)
      /\ conn'.up = conn.up
  BY <1>2, <1>3 DEF Endpoints
<1> QED BY <1>1, <1>2, <1>3, <1>4, NoneAssumption

(* The coroutine that holds the lock goes on to receive bytes that are the *)
(* next messages of its endpoint.                                          *)
LEMMA InStepEnters ==
    ASSUME Inv, NEW t \in Threads, lock = t, NEW q \in Seq(Shards), pc[t] = "answer",
           UNCHANGED <<setup, notified, have, changes, buf, timeouts, lock, req,
                       caller, left, single>>,
           conn' \in Endpoints, conn' # None,
           Framed(conn'.down, Shards, notified),
           \A k \in 1 .. Len(conn'.up) : RequestOK(conn'.up[k], Shards),
           due' = [due EXCEPT ![t] = q], pc' = [pc EXCEPT ![t] = "bulk"],
           BytesFrom(conn'.down, 0, q),
           Waits(t) => q = << >> /\ ToSet(req[t].of) \subseteq notified,
           req[t].kind = "shard" => q \in {<< >>, req[t].of}
    PROVE  Inv'
<1>1. Shards' = Shards /\ Versions' = Versions /\ \A u : Waits(u)' <=> Waits(u)
  BY SetupStays
<1>2. /\ pc' \in [Threads -> {"none", "lock", "answer", "bulk"}]
      /\ due' \in [Threads -> Seq(Shards)]
      /\ pc'[t] = "bulk" /\ due'[t] = q
      /\ \A u \in Threads \ {t} : pc'[u] = pc[u]
  BY DEF Inv, TypeOK
<1>3. TypeOK'
  <2>1. \A u \in Threads :
          /\ pc'[u] # "none" <=> caller[u] \in {"waiting", "left", "gone"}
          /\ pc'[u] # "none" => req[u] \in Requests
          /\ pc'[u] \in {"answer", "bulk"} <=> lock = u
    BY <1>2 DEF Inv, TypeOK
  <2> QED BY <1>1, <1>2, <2>1 DEF Inv, TypeOK
<1>4. Streams'
  BY <1>1 DEF Streams
<1>5. Calls'
  <2> SUFFICES ASSUME NEW u \in Threads PROVE CallOK(u)'
    BY DEF Calls
  <2>1. CallOK(u)
    BY DEF Inv, Calls
  <2> QED BY <1>1, <1>2, <2>1 DEF CallOK
<1>6. InStep'
  <2>1. \A u \in Threads : pc'[u] = "bulk" => u = t
    BY <1>2 DEF Inv, TypeOK
  <2> QED BY <1>1, <1>2, <2>1 DEF InStep
<1>7. Intact'
  BY <1>1 DEF Inv, Intact
<1> QED BY <1>3, <1>4, <1>5, <1>6, <1>7 DEF Inv

(* A control frame is accepted only for the request it answers, and then   *)
(* the bytes it announces are next.                                        *)
LEMMA AnswerOK ==
    ASSUME Inv, NEW t \in Threads, Answer(t)
    PROVE  Inv'
<1> DEFINE m == Head(conn.down)
<1>1. /\ pc[t] = "answer" /\ conn.down # << >>
      /\ UNCHANGED <<server, buf>> /\ timeouts' \in 0 .. MaxTimeouts
      /\ timeouts' = timeouts
      /\ setup' = setup /\ notified' = notified /\ have' = have
      /\ changes' = changes /\ buf' = buf
  BY DEF Answer, server, Inv, TypeOK
<1>2. Shards' = Shards /\ Versions' = Versions /\ \A u : Waits(u)' <=> Waits(u)
  BY <1>1, SetupStays
<1>3. lock = t
  BY <1>1 DEF Inv, TypeOK
<1>4. CASE m.kind = "error"
  <2>1. conn' = [conn EXCEPT !.down = Tail(conn.down)] /\ Raises(t)
    BY <1>4 DEF Answer
  <2>2. /\ conn' \in Endpoints /\ Framed(conn'.down, Shards, notified)
        /\ \A k \in 1 .. Len(conn'.up) : RequestOK(conn'.up[k], Shards)
    BY <1>1, <2>1, MessageTaken
  <2>3. Streams'
    BY <1>1, <1>2, <2>2 DEF Streams
  <2> QED BY <1>1, <1>3, <2>1, <2>2, <2>3, RaisesOK
<1>5. CASE m.kind # "error" /\ ~Matches(req[t], m)
  <2>1. Discard /\ Raises(t)
    BY <1>5 DEF Answer
  <2> QED BY <1>1, <1>3, <2>1, DropsOK
<1>6. CASE m.kind # "error" /\ Matches(req[t], m)
  <2> DEFINE q == IF Waits(t) THEN << >> ELSE m.of
  <2>1. /\ conn' = [conn EXCEPT !.down = Tail(conn.down)]
        /\ due' = [due EXCEPT ![t] = q]
        /\ pc' = [pc EXCEPT ![t] = "bulk"]
        /\ lock' = lock /\ req' = req /\ caller' = caller /\ left' = left
        /\ single' = single
    BY <1>6 DEF Answer, thread
  <2>2. /\ conn # None /\ conn' \in Endpoints /\ conn' # None
        /\ conn'.down = Tail(conn.down)
        /\ conn.down \in Seq(Messages) /\ Framed(conn.down, Shards, notified)
        /\ Framed(conn'.down, Shards, notified)
        /\ \A k \in 1 .. Len(conn'.up) : RequestOK(conn'.up[k], Shards)
    BY <1>1, <2>1, MessageTaken
  <2>3. /\ Len(conn.down) \in Nat \ {0} /\ m = conn.down[1]
        /\ Len(Tail(conn.down)) = Len(conn.down) - 1
        /\ \A k \in 1 .. (Len(conn.down) - 1) : Tail(conn.down)[k] = conn.down[k + 1]
    BY <1>1, <2>2
  <2>4. /\ req[t] \in Requests /\ m.kind = req[t].kind
        /\ Waits(t) <=> m.kind = "version"
        /\ m.kind # "shards" => m.of = req[t].of
    BY <1>1, <1>6 DEF Inv, TypeOK, Calls, CallOK, Matches
  <2>5. CASE Waits(t)
    <3>1. q = << >> /\ ToSet(req[t].of) \subseteq notified
      BY <2>2, <2>3, <2>4, <2>5 DEF Framed
    <3>2. req[t].kind # "shard"
      BY <2>4, <2>5
    <3> HIDE DEF q
    <3>3. q \in Seq(Shards) /\ BytesFrom(conn'.down, 0, q)
      BY <3>1 DEF BytesFrom
    <3> QED BY <3>1, <3>2, <3>3, <1>1, <1>2, <1>3, <2>1, <2>2, <2>5, InStepEnters
  <2>6. CASE ~Waits(t)
    <3>1. q = m.of /\ m.kind \in {"shard", "shards"}
      BY <2>4, <2>6 DEF Requests
    <3>2. q \in Seq(Shards) /\ BytesFrom(conn.down, 1, q)
      BY <2>2, <2>3, <3>1 DEF Framed
    <3>3. req[t].kind = "shard" => q = req[t].of
      BY <2>4, <3>1
    <3> HIDE DEF q, m
    <3>4. BytesFrom(conn'.down, 0, q)
      <4> SUFFICES ASSUME NEW j \in 1 .. Len(q)
                   PROVE  /\ 0 + j <= Len(conn'.down)
                          /\ conn'.down[0 + j].kind = "bytes"
                          /\ conn'.down[0 + j].shard = q[j]
        BY DEF BytesFrom
      <4>1. /\ 1 + j <= Len(conn.down) /\ conn.down[1 + j].kind = "bytes"
            /\ conn.down[1 + j].shard = q[j]
        BY <3>2 DEF BytesFrom
      <4>2. Len(q) \in Nat /\ j \in Nat /\ j >= 1
        BY <3>2
      <4>3. j \in 1 .. (Len(conn.down) - 1) /\ j + 1 = 1 + j /\ 0 + j = j
        BY <2>3, <4>1, <4>2
      <4> QED BY <2>2, <2>3, <4>1, <4>3
    <3> QED BY <3>2, <3>3, <3>4, <1>1, <1>2, <1>3, <2>1, <2>2, <2>6, InStepEnters
  <2> QED BY <2>5, <2>6
<1> QED BY <1>4, <1>5, <1>6

(* The next message is the bytes that are due, and they are received into  *)
(* the place of their shard: the verification never fails.                 *)
LEMMA ReceiveOK ==
    ASSUME Inv, NEW t \in Threads, Receive(t)
    PROVE  Inv'
<1> DEFINE m == Head(conn.down)
           i == Target(t)
<1>1. /\ pc[t] = "bulk" /\ due[t] # << >> /\ conn.down # << >>
      /\ timeouts' = timeouts
      /\ setup' = setup /\ notified' = notified /\ have' = have
      /\ changes' = changes
  BY DEF Receive, server
<1>2. Shards' = Shards /\ Versions' = Versions /\ \A u : Waits(u)' <=> Waits(u)
  BY <1>1, SetupStays
<1>3. lock = t /\ conn # None /\ req[t] \in Requests /\ due[t] \in Seq(Shards)
  BY <1>1, NoneAssumption DEF Inv, TypeOK
<1>4. conn \in Endpoints /\ conn.down \in Seq(Messages) /\ Shards \subseteq Nat
  BY <1>3, NothingAppended, WantsTyped DEF Inv, TypeOK
<1>5. /\ BytesFrom(conn.down, 0, due[t]) /\ ~Waits(t)
      /\ req[t].kind = "shard" => due[t] = req[t].of
  BY <1>1 DEF Inv, InStep
<1>6. /\ Len(due[t]) \in Nat \ {0} /\ Head(due[t]) = due[t][1]
      /\ Head(due[t]) \in Shards
      /\ Tail(due[t]) \in Seq(Shards) /\ Len(Tail(due[t])) = Len(due[t]) - 1
      /\ \A k \in 1 .. (Len(due[t]) - 1) : Tail(due[t])[k] = due[t][k + 1]
  BY <1>1, <1>3
<1>7. i = Head(due[t]) /\ i \in Shards
  BY <1>5, <1>6 DEF Target
<1>8. m.kind = "bytes" /\ m.shard = i
  <2>1. 0 + 1 <= Len(conn.down) /\ conn.down[0 + 1].kind = "bytes"
        /\ conn.down[0 + 1].shard = due[t][1]
    BY <1>5, <1>6 DEF BytesFrom
  <2>2. m = conn.down[1]
    BY <1>1, <1>4
  <2> QED BY <1>6, <1>7, <2>1, <2>2
<1>9. /\ buf' = [buf EXCEPT ![i] = i]
      /\ conn' = [conn EXCEPT !.down = Tail(conn.down)]
      /\ due' = [due EXCEPT ![t] = Tail(due[t])]
      /\ req' = [req EXCEPT ![t].got = req[t].got \cup {i}]
      /\ lock' = lock /\ pc' = pc /\ caller' = caller /\ left' = left
      /\ single' = single
  BY <1>7, <1>8 DEF Receive, thread
<1> HIDE DEF i, m
<1>10. /\ conn' \in Endpoints /\ conn' # None /\ conn'.down = Tail(conn.down)
       /\ Framed(conn'.down, Shards, notified)
       /\ \A k \in 1 .. Len(conn'.up) : RequestOK(conn'.up[k], Shards)
  BY <1>1, <1>9, MessageTaken
<1>11. /\ req' \in [Threads -> Requests \cup {None}] /\ req'[t] \in Requests
       /\ req'[t].kind = req[t].kind /\ req'[t].of = req[t].of
       /\ req'[t].got = req[t].got \cup {i}
       /\ \A u \in Threads \ {t} : req'[u] = req[u]
  <2> DEFINE r == [req[t] EXCEPT !.got = req[t].got \cup {i}]
  <2>1. /\ r \in Requests /\ r.kind = req[t].kind /\ r.of = req[t].of
        /\ r.got = req[t].got \cup {i}
    BY <1>3, <1>4, <1>7 DEF Requests
  <2>2. req' = [req EXCEPT ![t] = r] /\ req \in [Threads -> Requests \cup {None}]
    BY <1>9 DEF Inv, TypeOK
  <2> HIDE DEF r
  <2> QED BY <2>1, <2>2
<1>12. /\ due' \in [Threads -> Seq(Shards)] /\ due'[t] = Tail(due[t])
       /\ buf' \in [Shards -> Shards \cup {0}] /\ buf'[i] = i
       /\ \A j : buf[j] = j => buf'[j] = j
  <2>1. buf \in [Shards -> Shards \cup {0}] /\ due \in [Threads -> Seq(Shards)]
    BY DEF Inv, TypeOK
  <2>2. /\ due' \in [Threads -> Seq(Shards)] /\ due'[t] = Tail(due[t])
        /\ buf' \in [Shards -> Shards \cup {0}] /\ buf'[i] = i
    BY <1>6, <1>7, <1>9, <2>1
  <2>3. ASSUME NEW j, buf[j] = j PROVE buf'[j] = j
    <3>1. CASE j \in Shards
      BY <1>7, <1>9, <2>1, <2>3, <3>1
    <3>2. CASE j \notin Shards
      BY <1>7, <1>9, <2>1, <2>3, <3>2
    <3> QED BY <3>1, <3>2
  <2> QED BY <2>2, <2>3
<1>13. TypeOK'
  <2>1. \A u \in Threads : pc[u] # "none" => req'[u] \in Requests
    BY <1>11 DEF Inv, TypeOK
  <2> QED BY <1>1, <1>2, <1>9, <1>10, <1>11, <1>12, <2>1 DEF Inv, TypeOK
<1>14. Streams'
  BY <1>1, <1>2, <1>10 DEF Streams
<1>15. Calls'
  <2> SUFFICES ASSUME NEW u \in Threads PROVE CallOK(u)'
    BY DEF Calls
  <2>1. CallOK(u)
    BY DEF Inv, Calls
  <2>2. CASE u # t
    BY <1>1, <1>2, <1>9, <1>11, <1>12, <2>1, <2>2 DEF CallOK
  <2>3. CASE u = t
    <3>1. RequestOK(req'[t], Shards)
      BY <1>1, <1>11, <2>1, <2>3 DEF CallOK, RequestOK
    <3>2. \A j \in req'[t].got : buf'[j] = j
      BY <1>1, <1>11, <1>12, <2>1, <2>3 DEF CallOK
    <3> QED BY <1>1, <1>2, <1>9, <1>11, <2>1, <2>3, <3>1, <3>2 DEF CallOK
  <2> QED BY <2>2, <2>3
<1>16. InStep'
  <2>1. \A u \in Threads : pc'[u] = "bulk" => u = t
    BY <1>3, <1>9 DEF Inv, TypeOK
  <2>2. BytesFrom(conn'.down, 0, due'[t])
    <3> SUFFICES ASSUME NEW j \in 1 .. Len(Tail(due[t]))
                 PROVE  /\ 0 + j <= Len(conn'.down)
                        /\ conn'.down[0 + j].kind = "bytes"
                        /\ conn'.down[0 + j].shard = Tail(due[t])[j]
      BY <1>12 DEF BytesFrom
    <3>1. j \in Nat /\ j >= 1 /\ j + 1 \in 1 .. Len(due[t])
          /\ Tail(due[t])[j] = due[t][j + 1]
      BY <1>6
    <3>2. /\ 0 + (j + 1) <= Len(conn.down) /\ conn.down[0 + (j + 1)].kind = "bytes"
          /\ conn.down[0 + (j + 1)].shard = due[t][j + 1]
      BY <1>5, <3>1 DEF BytesFrom
    <3>3. 0 + (j + 1) = j + 1 /\ 0 + j = j
      BY <3>1
    <3>4. /\ Len(conn.down) \in Nat /\ Len(Tail(conn.down)) = Len(conn.down) - 1
          /\ \A k \in 1 .. (Len(conn.down) - 1) : Tail(conn.down)[k] = conn.down[k + 1]
      BY <1>1, <1>4
    <3>5. j \in 1 .. (Len(conn.down) - 1)
      BY <3>1, <3>2, <3>3, <3>4
    <3> QED BY <1>10, <3>1, <3>2, <3>3, <3>4, <3>5
  <2>3. req'[t].kind = "shard" => due'[t] = << >>
    <3>1. ASSUME req[t].kind = "shard" PROVE Len(due[t]) = 1
      BY <1>1, <1>5, <3>1 DEF Inv, Calls, CallOK, RequestOK
    <3>2. Len(Tail(due[t])) = 0 => Tail(due[t]) = << >>
      BY <1>6, NoneDue
    <3> QED BY <1>6, <1>11, <1>12, <3>1, <3>2
  <2> QED BY <1>2, <1>5, <2>1, <2>2, <2>3 DEF InStep
<1>17. Intact'
  <2> SUFFICES ASSUME NEW u \in Threads, NEW j \in setup.want[u] \ left[u]
               PROVE  IF Waits(u) THEN j \in notified ELSE buf'[j] = j
    BY <1>1, <1>2, <1>9 DEF Intact
  <2>1. IF Waits(u) THEN j \in notified ELSE buf[j] = j
    BY DEF Inv, Intact
  <2> QED BY <1>12, <2>1
<1> QED BY <1>13, <1>14, <1>15, <1>16, <1>17 DEF Inv

LEMMA CompleteOK ==
    ASSUME Inv, NEW t \in Threads, Complete(t)
    PROVE  Inv'
<1>1. /\ pc[t] = "bulk" /\ UNCHANGED <<server, conn, buf, timeouts>>
      /\ \/ Returns(t)
         \/ Raises(t)
  BY DEF Complete
<1>2. CASE Returns(t)
  BY <1>1, <1>2, ReturnsOK
<1>3. CASE Raises(t)
  BY <1>1, <1>3, EndsQuietly
<1> QED BY <1>1, <1>2, <1>3

LEMMA ExchangeFailsOK ==
    ASSUME Inv, NEW t \in Threads, ExchangeFails(t)
    PROVE  Inv'
<1>1. pc[t] \in {"answer", "bulk"} /\ Discard /\ Raises(t) /\ UNCHANGED <<server, buf>>
  BY DEF ExchangeFails
<1>2. lock = t
  BY <1>1 DEF Inv, TypeOK
<1>3. timeouts' \in 0 .. MaxTimeouts
  BY BoundsAssumption DEF ExchangeFails, Inv, TypeOK
<1> QED BY <1>1, <1>2, <1>3, DropsOK

(* A cancelled coroutine keeps the endpoint, with what is still to come. *)
LEMMA CancelledOK ==
    ASSUME Inv, NEW t \in Threads, Cancelled(t)
    PROVE  Inv'
<1>1. pc[t] # "none"
  BY DEF Cancelled, Inv, TypeOK
<1> QED BY <1>1, EndsQuietly DEF Cancelled

-----------------------------------------------------------------------------
(* The theorems *)

(* The inductive invariant: the streams are framed, the calls know what    *)
(* they asked for, the holder of the lock is in step with its endpoint, and*)
(* what was received is in place.                                          *)
THEOREM LaneInvariant == Spec => []Inv
<1>1. Init => Inv
  BY InitOK
<1>2. Inv /\ [Next]_vars => Inv'
  <2> SUFFICES ASSUME Inv, [Next]_vars PROVE Inv'
    OBVIOUS
  <2>1. CASE UNCHANGED vars
    <3>1. Shards' = Shards /\ Versions' = Versions /\ \A u : Waits(u)' <=> Waits(u)
      BY <2>1, SetupStays DEF vars, server
    <3> USE <2>1 DEF vars, server, thread
    <3>2. TypeOK'
      BY <3>1 DEF Inv, TypeOK
    <3>3. Streams' /\ Calls'
      BY <3>1 DEF Inv, Streams, Calls, CallOK
    <3>4. InStep' /\ Intact'
      BY <3>1 DEF Inv, InStep, Intact
    <3> QED BY <3>2, <3>3, <3>4 DEF Inv
  <2>2. ASSUME NEW S \in SUBSET Shards, Change(S) PROVE Inv'
    BY <2>2, ChangeOK
  <2>3. ASSUME NEW v \in Versions, Notify(v) PROVE Inv'
    BY <2>3, NotifyOK
  <2>4. CASE ServeRequest
    BY <2>4, ServeRequestOK
  <2>5. CASE WaitExpires
    BY <2>5, WaitExpiresOK
  <2>6. CASE ServerCloses
    BY <2>6, ServerClosesOK
  <2>7. ASSUME NEW t \in Threads,
               Call(t) \/ Fallback(t) \/ CallerLeaves(t) \/ Coroutine(t)
        PROVE  Inv'
    BY <2>7, CallStepOK, FallbackOK, CallerLeavesOK, SendOK, AnswerOK, ReceiveOK,
       CompleteOK, ExchangeFailsOK, CancelledOK DEF Coroutine
  <2> QED BY <2>1, <2>2, <2>3, <2>4, <2>5, <2>6, <2>7 DEF Next
<1> QED BY <1>1, <1>2, PTL DEF Spec

(* The state of a lane has its type; the lock is held by the one coroutine *)
(* in an exchange, which has an endpoint.                                  *)
THEOREM LaneTypeCorrect == Spec => []TypeOK
<1>1. Inv => TypeOK
  BY DEF Inv
<1> QED BY <1>1, LaneInvariant, PTL

(* No answer to a cancelled request, and no endpoint out of step, puts     *)
(* other bytes into a buffer or makes a thread take a version for announced*)
(* that is not, for any number of threads, timeouts and lost shards.       *)
THEOREM ShardsStayIntact == Spec => []Intact
<1>1. Inv => Intact
  BY DEF Inv
<1> QED BY <1>1, LaneInvariant, PTL
=============================================================================
