------------------------ MODULE WeightDelivery_proofs ------------------------
(***************************************************************************)
(* The engines of WeightTransfer hand on what they should, for any number  *)
(* of workers, any tensors, any sizes of the buckets and any engine: the   *)
(* safety of its refinement of WeightDelivery.                             *)
(*                                                                         *)
(* Tensors are numbered, so a bucket is right when its numbers follow those*)
(* of the buckets before it and the buffer it lies in holds them.  DelInv  *)
(* says so of every bucket on the way.  The bucket of a link follows what  *)
(* the inference worker has loaded (LinkOk, the same for all engines), and *)
(* its generator has yielded as many tensors as were loaded and pulled     *)
(* (PulledBy).  In the broadcast a worker knows of as many tensors as rank *)
(* 0 has sent, but for a broadcast it has not joined (Known), and yields or*)
(* receives the last of them (CountOk).  In the chain a rank announces what*)
(* it holds, so its buckets end where those announced to it do, but for the*)
(* one under way (ChainOk, HoldOk, StageOk).  A flag `last' is only set on *)
(* the bucket that ends with the last tensor, so a sender that is done has *)
(* delivered them all.                                                     *)
(***************************************************************************)
EXTENDS WeightTransfer_proofs

\* The items of q are numbered from base + 1 on.
Numbered(q, base) == \A i \in 1 .. Len(q) : q[i] = base + i

-----------------------------------------------------------------------------
(* The bucket of a link.                                                   *)

\* The tensor a copy finds: the generator's own, or the one at a place of the
\* bucket that is yielded.
Found(own, yielded, from) == IF own THEN from ELSE At(yielded, from.place)

\* Tensors m follow the first b ones; the last of them are still to be copied
\* to their places, and the others are in the buffer.
BucketOk(own, yielded, m, pending, buf, b) ==
  /\ Numbered(m, b) /\ Len(pending) <= Len(m)
  /\ \A j \in 1 .. Len(pending) :
       /\ pending[j].to = Len(m) - Len(pending) + j
       /\ Found(own, yielded, pending[j].from) = b + pending[j].to
  /\ \A i \in 1 .. Len(m) - Len(pending) : At(buf, i) = m[i]

\* The next tensor is to be copied behind the others.
LEMMA BucketPull ==
  ASSUME NEW own, NEW y, NEW S, NEW m \in Seq(Tensors), NEW c \in Seq(S), NEW buf,
         NEW b \in Int, BucketOk(own, y, m, c, buf, b),
         NEW t \in Tensors, t = b + Len(m) + 1, NEW from, Found(own, y, from) = t
  PROVE  BucketOk(own, y, Append(m, t), Append(c, [from |-> from, to |-> Len(m) + 1]), buf, b)
<1> DEFINE m2 == Append(m, t)
           e == [from |-> from, to |-> Len(m) + 1]
           c2 == Append(c, e)
<1>1. Len(m) \in Nat /\ Len(c) \in Nat /\ t \in Int
  BY TransferAssumption DEF Tensors
<1>2. Len(m2) = Len(m) + 1 /\ m2[Len(m) + 1] = t /\ \A i \in 1 .. Len(m) : m2[i] = m[i]
  OBVIOUS
<1>3. e.from = from /\ e.to = Len(m) + 1
  OBVIOUS
<1> HIDE DEF e
<1>4. Len(c2) = Len(c) + 1 /\ c2[Len(c) + 1] = e /\ \A i \in 1 .. Len(c) : c2[i] = c[i]
  OBVIOUS
<1> HIDE DEF m2, c2
<1>5. Numbered(m2, b)
  <2>1. ASSUME NEW i \in 1 .. Len(m2) PROVE m2[i] = b + i
    <3>1. CASE i = Len(m) + 1
      BY <1>1, <1>2, <3>1
    <3>2. CASE i # Len(m) + 1
      <4>1. i \in 1 .. Len(m)
        BY <1>1, <1>2, <3>2
      <4>2. m[i] = b + i
        BY <4>1 DEF BucketOk, Numbered
      <4> QED BY <1>2, <4>1, <4>2
    <3> QED BY <3>1, <3>2
  <2> QED BY <2>1 DEF Numbered
<1>6. Len(c2) <= Len(m2)
  BY <1>1, <1>2, <1>4 DEF BucketOk
<1>7. ASSUME NEW j \in 1 .. Len(c2)
      PROVE  c2[j].to = Len(m2) - Len(c2) + j /\ Found(own, y, c2[j].from) = b + c2[j].to
  <2>1. CASE j = Len(c) + 1
    <3>1. c2[j].to = Len(m) + 1 /\ c2[j].from = from
      BY <1>3, <1>4, <2>1
    <3>2. Len(m2) - Len(c2) + j = Len(m) + 1
      BY <1>1, <1>2, <1>4, <2>1
    <3>3. Found(own, y, c2[j].from) = t
      BY <3>1
    <3>4. b + c2[j].to = t
      BY <1>1, <3>1
    <3> QED BY <3>1, <3>2, <3>3, <3>4
  <2>2. CASE j # Len(c) + 1
    <3>1. j \in 1 .. Len(c)
      BY <1>1, <1>4, <2>2
    <3>2. c2[j] = c[j] /\ c[j].to = Len(m) - Len(c) + j
          /\ Found(own, y, c[j].from) = b + c[j].to
      BY <1>4, <3>1 DEF BucketOk
    <3> QED BY <1>1, <1>2, <1>4, <3>1, <3>2
  <2> QED BY <2>1, <2>2
<1>8. ASSUME NEW i \in 1 .. Len(m2) - Len(c2) PROVE At(buf, i) = m2[i]
  <2>1. i \in 1 .. Len(m) - Len(c) /\ i \in 1 .. Len(m)
    BY <1>1, <1>2, <1>4
  <2> QED BY <1>2, <2>1 DEF BucketOk
<1> QED BY <1>5, <1>6, <1>7, <1>8 DEF BucketOk, m2, c2, e

\* An empty bucket.
LEMMA BucketStart ==
  ASSUME NEW own, NEW y, NEW buf, NEW b
  PROVE  BucketOk(own, y, <<>>, <<>>, buf, b)
BY DEF BucketOk, Numbered

\* When all is copied it does not matter what is yielded.
LEMMA BucketSettled ==
  ASSUME NEW own, NEW y, NEW y2, NEW m, NEW buf, NEW b, BucketOk(own, y, m, <<>>, buf, b)
  PROVE  BucketOk(own, y2, m, <<>>, buf, b)
<1>1. Len(<<>>) = 0
  OBVIOUS
<1> QED BY <1>1 DEF BucketOk

\* The device carries out a copy.
LEMMA BucketCopy ==
  ASSUME NEW own, NEW y, NEW S, NEW m \in Seq(Tensors), NEW c \in Seq(S), c # <<>>,
         NEW buf \in Seq(Nat), NEW b \in Int, BucketOk(own, y, m, c, buf, b)
  PROVE  BucketOk(own, y, m, Tail(c),
                  Written(buf, Head(c).to, Found(own, y, Head(c).from)), b)
<1> DEFINE p == Head(c).to
           v == Found(own, y, Head(c).from)
           buf2 == Written(buf, p, v)
           c2 == Tail(c)
           k == Len(m) - Len(c)
<1>1. Len(m) \in Nat /\ Len(c) \in Nat /\ Len(c) > 0 /\ Len(buf) \in Nat
  OBVIOUS
<1>2. Len(c2) = Len(c) - 1 /\ Head(c) = c[1] /\ \A j \in 1 .. Len(c2) : c2[j] = c[j + 1]
  BY HeadTailProperties
<1>3. k \in Nat /\ p = k + 1 /\ v = b + p
  <2>1. 1 \in 1 .. Len(c)
    BY <1>1
  <2>2. c[1].to = Len(m) - Len(c) + 1 /\ Found(own, y, c[1].from) = b + c[1].to
        /\ Len(c) <= Len(m)
    BY <2>1 DEF BucketOk
  <2> QED BY <1>1, <1>2, <2>2
<1>4. v = m[p]
  <2>1. p \in 1 .. Len(m)
    BY <1>1, <1>3
  <2> QED BY <1>3, <2>1 DEF BucketOk, Numbered
<1>5. Len(m) - Len(c2) = k + 1
  BY <1>1, <1>2
<1>6. \A i \in 1 .. k : At(buf, i) = m[i]
  BY DEF BucketOk
<1>7. \A i \in 1 .. k + 1 :
        i \in DOMAIN buf2 /\ buf2[i] = IF i = p THEN v ELSE IF i > Len(buf) THEN 0 ELSE buf[i]
  BY <1>1, <1>3 DEF Written
<1>8. Len(c2) <= Len(m)
  BY <1>1, <1>2 DEF BucketOk
<1>9. ASSUME NEW j \in 1 .. Len(c2)
      PROVE  c2[j].to = Len(m) - Len(c2) + j /\ Found(own, y, c2[j].from) = b + c2[j].to
  <2>1. j + 1 \in 1 .. Len(c) /\ c2[j] = c[j + 1]
    BY <1>1, <1>2
  <2>2. c[j + 1].to = Len(m) - Len(c) + (j + 1)
        /\ Found(own, y, c[j + 1].from) = b + c[j + 1].to
    BY <2>1 DEF BucketOk
  <2> QED BY <1>1, <1>2, <2>1, <2>2
<1> HIDE DEF p, v, buf2, c2, k
<1>10. ASSUME NEW i \in 1 .. k + 1 PROVE At(buf2, i) = m[i]
  <2>2. CASE i = p
    BY <1>4, <1>7, <2>2 DEF At
  <2>3. CASE i # p
    <3>1. i \in 1 .. k
      BY <1>3, <2>3
    <3>2. At(buf, i) = IF i > Len(buf) THEN 0 ELSE buf[i]
      <4>1. DOMAIN buf = 1 .. Len(buf)
        OBVIOUS
      <4> QED BY <1>1, <1>3, <3>1, <4>1 DEF At
    <3>3. At(buf2, i) = At(buf, i)
      BY <1>7, <2>3, <3>2 DEF At
    <3> QED BY <1>6, <3>1, <3>3
  <2> QED BY <2>2, <2>3
<1>11. BucketOk(own, y, m, c2, buf2, b)
  <2>1. Numbered(m, b)
    BY DEF BucketOk
  <2> QED BY <1>5, <1>8, <1>9, <1>10, <2>1 DEF BucketOk
<1> QED BY <1>11 DEF p, v, buf2, c2

\* What the receiver finds in a buffer, where the tensors m should be.
Finds(new, m, buf) ==
  /\ new \in Seq(Nat) /\ Len(new) = Len(m)
  /\ \A i \in 1 .. Len(m) : new[i] = At(buf, i)

\* The bucket is loaded.
LEMMA BucketLoad ==
  ASSUME NEW own, NEW y, NEW m \in Seq(Tensors), NEW buf, NEW q \in Seq(Nat), Numbered(q, 0),
         NEW b \in Nat, b = Len(q), NEW c, c = <<>>, BucketOk(own, y, m, c, buf, b),
         NEW new, Finds(new, m, buf)
  PROVE  Numbered(q \o new, 0) /\ \A i \in 1 .. Len(m) : new[i] = m[i]
<1>1. Len(<<>>) = 0 /\ Len(m) \in Nat /\ Len(q) \in Nat /\ DOMAIN m = 1 .. Len(m)
  OBVIOUS
<1>2. \A i \in 1 .. Len(m) : new[i] = Len(q) + i /\ new[i] \in Nat /\ new[i] = m[i]
  <2>1. \A i \in 1 .. Len(m) : At(buf, i) = m[i] /\ m[i] = Len(q) + i
    BY <1>1 DEF BucketOk, Numbered
  <2> QED BY <1>1, <2>1 DEF Finds
<1>3. new \in Seq(Nat) /\ Len(new) = Len(m)
  BY DEF Finds
<1>4. /\ q \o new \in Seq(Nat) /\ Len(q \o new) = Len(q) + Len(m)
      /\ \A i \in 1 .. Len(q) + Len(m) :
           (q \o new)[i] = IF i <= Len(q) THEN q[i] ELSE new[i - Len(q)]
  <2>1. /\ q \o new \in Seq(Nat) /\ Len(q \o new) = Len(q) + Len(new)
        /\ \A i \in 1 .. Len(q) + Len(new) :
             (q \o new)[i] = IF i <= Len(q) THEN q[i] ELSE new[i - Len(q)]
    BY <1>3, ConcatProperties
  <2> QED BY <1>3, <2>1
<1>5. ASSUME NEW i \in 1 .. Len(q) + Len(m) PROVE (q \o new)[i] = 0 + i
  <2>1. CASE i <= Len(q)
    <3>1. i \in 1 .. Len(q)
      BY <1>1, <2>1
    <3> QED BY <1>4, <2>1, <3>1 DEF Numbered
  <2>2. CASE ~(i <= Len(q))
    <3>1. i - Len(q) \in 1 .. Len(m) /\ Len(q) + (i - Len(q)) = i
      BY <1>1, <2>2
    <3>2. (q \o new)[i] = new[i - Len(q)]
      BY <1>4, <2>2
    <3> QED BY <1>1, <1>2, <3>1, <3>2
  <2> QED BY <2>1, <2>2
<1>6. Numbered(q \o new, 0)
  BY <1>4, <1>5 DEF Numbered
<1> QED BY <1>2, <1>4, <1>6

-----------------------------------------------------------------------------
(* The link of one worker.                                                 *)

\* The bucket a worker yields, if its generator is not the trainer's own.
Yielding(w) == IF backend = "nccl" THEN meta[w].bucket.tensors ELSE chainMeta[w].tensors

\* The naive engine has no buckets of its own: it pulls from the parameters.
Own == backend = "naive"

\* Tensors loaded before those of bucket_meta.
Base(w) ==
  IF (link[w] = "loaded" /\ loads[w] = <<>>) \/ ipc[w] = "done"
  THEN Len(loaded[w]) - Len(ipcMeta[w])
  ELSE Len(loaded[w])

\* Tensors the sender has got from its generator.
PulledBy(w) == Base(w) + Len(ipcMeta[w]) + IF ipc[w] = "full" THEN 1 ELSE 0

\* The receiver has loaded a beginning of the tensors; those of bucket_meta
\* come next, and then the one that does not fit.
LinkOk(w) ==
  /\ Numbered(loaded[w], 0)
  /\ BucketOk(Own, Yielding(w), ipcMeta[w], copies[w], ipcBuf[w], Base(w))
  /\ ipc[w] = "full" => /\ held[w][1] = PulledBy(w)
                        /\ Found(Own, Yielding(w), held[w][2]) = held[w][1]
  /\ link[w] \in {"bucket", "loaded"} => copies[w] = <<>> /\ ipc[w] \in {"full", "last"}
  /\ loads[w] # <<>> => link[w] = "loaded" /\ loads[w] = <<Len(ipcMeta[w])>>
  /\ ipc[w] \in {"last", "done"} => PulledBy(w) = NumTensors

\* The parts of a link, by type.
LEMMA LinkTypes ==
  ASSUME TypeOK, NEW w \in Workers
  PROVE  /\ loaded[w] \in Seq(Nat) /\ Len(loaded[w]) \in Nat
         /\ ipcMeta[w] \in Seq(Tensors) /\ Len(ipcMeta[w]) \in Nat
         /\ copies[w] \in Seq(Copies) /\ ipcBuf[w] \in Seq(Nat)
         /\ ipc[w] \in {"pull", "full", "last", "done"}
         /\ link[w] \in {"init", "reply", "bucket", "loaded"}
         /\ Base(w) \in Int /\ PulledBy(w) \in Int
<1>1. /\ loaded[w] \in Seq(Nat) /\ ipcMeta[w] \in Seq(Tensors)
      /\ copies[w] \in Seq(Copies) /\ ipcBuf[w] \in Seq(Nat)
      /\ ipc[w] \in {"pull", "full", "last", "done"}
      /\ link[w] \in {"init", "reply", "bucket", "loaded"}
  BY DEF TypeOK, IpcTypes
<1>2. Len(loaded[w]) \in Nat /\ Len(ipcMeta[w]) \in Nat
  BY <1>1
<1>3. Base(w) \in Int
  BY <1>2 DEF Base
<1>4. PulledBy(w) \in Int
  BY <1>2, <1>3 DEF PulledBy
<1> QED BY <1>1, <1>2, <1>3, <1>4

\* A link that nothing happens to stays as it is.
LEMMA LinkStays ==
  ASSUME NEW v \in Workers, LinkOk(v), backend' = backend, Yielding(v)' = Yielding(v),
         ipc'[v] = ipc[v], held'[v] = held[v], ipcMeta'[v] = ipcMeta[v],
         ipcBuf'[v] = ipcBuf[v], copies'[v] = copies[v], link'[v] = link[v],
         loads'[v] = loads[v], loaded'[v] = loaded[v]
  PROVE  LinkOk(v)' /\ PulledBy(v)' = PulledBy(v)
<1>1. Base(v)' = Base(v)
  BY DEF Base
<1>2. PulledBy(v)' = PulledBy(v)
  BY <1>1 DEF PulledBy
<1>3. Own' = Own
  BY DEF Own
<1> QED BY <1>1, <1>2, <1>3 DEF LinkOk

\* A tensor is pulled: it is to be copied, or it is held.
LEMMA LinkPull ==
  ASSUME TypeOK, NEW w \in Workers, LinkOk(w), NEW t \in Tensors, NEW from, Pulls(w, t, from),
         t = PulledBy(w) + 1, Found(Own, Yielding(w), from) = t,
         backend' = backend, Yielding(w)' = Yielding(w)
  PROVE  LinkOk(w)' /\ PulledBy(w)' = PulledBy(w) + 1
<1> DEFINE b == Len(loaded[w])
           m == ipcMeta[w]
           y == Yielding(w)
<1>0. /\ b \in Nat /\ m \in Seq(Tensors) /\ Len(m) \in Nat /\ copies[w] \in Seq(Copies)
  BY LinkTypes
<1>1. /\ Base(w) = b /\ PulledBy(w) = b + Len(m) /\ t = b + Len(m) + 1
      /\ ipc[w] = "pull" /\ link[w] = "reply"
  BY <1>0 DEF Base, PulledBy, Pulls
<1>2. /\ Own' = Own /\ loaded'[w] = loaded[w] /\ link'[w] = link[w] /\ ipcBuf'[w] = ipcBuf[w]
      /\ loads'[w] = loads[w]
  BY DEF Own, Pulls
<1>3. BucketOk(Own, y, m, copies[w], ipcBuf[w], b) /\ Numbered(loaded[w], 0)
  BY <1>1 DEF LinkOk
<1>4. CASE Starts(w, ipcMeta[w], copies[w], t, from) /\ UNCHANGED <<ipc, held>>
  <2>1. /\ ipcMeta'[w] = Append(m, t)
        /\ copies'[w] = Append(copies[w], [from |-> from, to |-> Len(m) + 1])
    BY <1>4 DEF Starts, TypeOK, IpcTypes
  <2>2. BucketOk(Own, y, ipcMeta'[w], copies'[w], ipcBuf[w], b)
    <3>1. b \in Int /\ Found(Own, y, from) = t
      BY <1>0
    <3> HIDE DEF b, m, y
    <3>2. BucketOk(Own, y, Append(m, t), Append(copies[w], [from |-> from, to |-> Len(m) + 1]),
                   ipcBuf[w], b)
      BY <1>0, <1>1, <1>3, <3>1, BucketPull
    <3> QED BY <2>1, <3>2
  <2>3. Len(ipcMeta'[w]) = Len(m) + 1
    BY <1>0, <2>1
  <2>4. Base(w)' = b
    BY <1>1, <1>2, <1>4 DEF Base
  <2>5. PulledBy(w)' = b + Len(m) + 1
    <3>1. ipc'[w] # "full"
      BY <1>1, <1>4
    <3>2. PulledBy(w)' = Base(w)' + Len(ipcMeta'[w]) + 0
      BY <3>1 DEF PulledBy
    <3> HIDE DEF b, m
    <3> QED BY <1>0, <2>3, <2>4, <3>2
  <2> QED BY <1>1, <1>2, <1>3, <1>4, <2>2, <2>4, <2>5 DEF LinkOk
<1>5. CASE /\ ipc' = [ipc EXCEPT ![w] = "full"] /\ held' = [held EXCEPT ![w] = <<t, from>>]
           /\ UNCHANGED <<ipcMeta, copies>>
  <2>1. ipc'[w] = "full" /\ held'[w][1] = t /\ held'[w][2] = from
    BY <1>5 DEF TypeOK, IpcTypes
  <2>2. Base(w)' = b
    BY <1>1, <1>2, <2>1 DEF Base
  <2>3. PulledBy(w)' = b + Len(m) + 1
    BY <1>0, <1>5, <2>1, <2>2 DEF PulledBy
  <2> QED BY <1>1, <1>2, <1>3, <1>5, <2>1, <2>2, <2>3 DEF LinkOk
<1> QED BY <1>4, <1>5 DEF Pulls

\* The generator ends when there are no more tensors.
LEMMA LinkEnd ==
  ASSUME TypeOK, NEW w \in Workers, LinkOk(w), PullEnds(w), PulledBy(w) = NumTensors,
         backend' = backend, Yielding(w)' = Yielding(w)
  PROVE  LinkOk(w)' /\ PulledBy(w)' = PulledBy(w)
<1>1. /\ ipc[w] = "pull" /\ link[w] = "reply" /\ ipc'[w] = "last"
      /\ UNCHANGED <<held, ipcMeta, ipcBuf, copies, link, loads, loaded>>
  BY DEF PullEnds, TypeOK, IpcTypes
<1>2. Base(w)' = Base(w)
  BY <1>1 DEF Base
<1>3. PulledBy(w)' = PulledBy(w) /\ Own' = Own
  BY <1>1, <1>2 DEF PulledBy, Own
<1> QED BY <1>1, <1>2, <1>3 DEF LinkOk

\* The copy of the step finds what its source holds.
CopiesFound(w) ==
  Copied(w) /\ ipcBuf' = [ipcBuf EXCEPT ![w] =
                  Written(@, Head(copies[w]).to, Found(Own, Yielding(w), Head(copies[w]).from))]

\* A copy is carried out.
LEMMA LinkCopy ==
  ASSUME TypeOK, NEW w \in Workers, LinkOk(w), CopiesFound(w),
         backend' = backend, Yielding(w)' = Yielding(w)
  PROVE  LinkOk(w)' /\ PulledBy(w)' = PulledBy(w)
<1>1. /\ copies[w] # <<>> /\ copies'[w] = Tail(copies[w])
      /\ UNCHANGED <<ipc, held, ipcMeta, link, loads, loaded>>
  BY DEF CopiesFound, Copied, TypeOK, IpcTypes
<1>2. ipcBuf'[w] = Written(ipcBuf[w], Head(copies[w]).to,
                           Found(Own, Yielding(w), Head(copies[w]).from))
  BY DEF CopiesFound, TypeOK, IpcTypes
<1>3. Base(w)' = Base(w)
  BY <1>1 DEF Base
<1>4. PulledBy(w)' = PulledBy(w) /\ Own' = Own
  BY <1>1, <1>3 DEF PulledBy, Own
<1>5. BucketOk(Own, Yielding(w), ipcMeta[w], copies[w], ipcBuf[w], Base(w))
  BY DEF LinkOk
<1>6. BucketOk(Own, Yielding(w), ipcMeta[w], copies'[w], ipcBuf'[w], Base(w))
  BY <1>1, <1>2, <1>5, LinkTypes, BucketCopy
<1> QED BY <1>1, <1>3, <1>4, <1>6 DEF LinkOk

\* The messages of the link, and the loads: a bucket is loaded, and the reply
\* to it starts the next one.
LEMMA LinkMessage ==
  ASSUME TypeOK, NEW w \in Workers, LinkOk(w), IpcStep(w),
         backend' = backend, Yielding(w)' = Yielding(w)
  PROVE  LinkOk(w)' /\ PulledBy(w)' = PulledBy(w)
<1> DEFINE n == Len(loaded[w])
           k == Len(ipcMeta[w])
<1>0. /\ loaded[w] \in Seq(Nat) /\ n \in Nat /\ ipcMeta[w] \in Seq(Tensors) /\ k \in Nat
      /\ copies[w] \in Seq(Copies) /\ ipc[w] \in {"pull", "full", "last", "done"}
      /\ ipcBuf[w] \in Seq(Nat)
  BY LinkTypes
<1>o. Own' = Own
  BY DEF Own
<1>1. CASE InitBuffer(w) \/ SendBucket(w)
  <2>1. /\ UNCHANGED <<ipc, held, ipcMeta, ipcBuf, copies, loads, loaded>>
        /\ link[w] \in {"init", "reply"}
        /\ link'[w] \in {"reply", "bucket"}
        /\ link'[w] = "bucket" => copies[w] = <<>> /\ ipc[w] \in {"full", "last"}
    BY <1>1 DEF InitBuffer, SendBucket, Synchronized, TypeOK, IpcTypes
  <2>2. Base(w)' = Base(w)
    BY <2>1 DEF Base
  <2>3. PulledBy(w)' = PulledBy(w)
    BY <2>1, <2>2 DEF PulledBy
  <2> QED BY <1>o, <2>1, <2>2, <2>3 DEF LinkOk
<1>2. CASE Load(w)
  <2>1. /\ UNCHANGED <<ipc, held, ipcMeta, ipcBuf, copies, loaded>> /\ link[w] = "bucket"
        /\ link'[w] = "loaded" /\ loads'[w] = Append(loads[w], k)
    BY <1>2 DEF Load, TypeOK, IpcTypes
  <2>2. copies[w] = <<>> /\ ipc[w] \in {"full", "last"} /\ loads[w] = <<>>
    BY <2>1 DEF LinkOk
  <2>3. loads'[w] = <<k>> /\ loads'[w] # <<>>
    BY <2>1, <2>2
  <2>4. Base(w)' = Base(w)
    BY <2>1, <2>2, <2>3 DEF Base
  <2>5. PulledBy(w)' = PulledBy(w)
    BY <2>1, <2>4 DEF PulledBy
  <2> QED BY <1>o, <2>1, <2>2, <2>3, <2>4, <2>5 DEF LinkOk
<1>3. CASE Reply(w)
  <2>1. /\ UNCHANGED <<ipcBuf, loads, loaded>> /\ link[w] = "loaded" /\ link'[w] = "reply"
        /\ loads[w] = <<>> /\ copies[w] = <<>> /\ ipc[w] \in {"full", "last"} /\ Base(w) = n - k
    BY <1>3 DEF Reply, LoadsDone, TypeOK, IpcTypes, LinkOk, Base
  <2>2. CASE ipc[w] = "full"
    <3> DEFINE t == held[w][1]
               from == held[w][2]
    <3>1. /\ ipc'[w] = "pull" /\ ipcMeta'[w] = Append(<<>>, t)
          /\ copies'[w] = Append(<<>>, [from |-> from, to |-> Len(<<>>) + 1])
      BY <1>3, <2>1, <2>2 DEF Reply, StartCopy, TypeOK, IpcTypes
    <3>2. t = PulledBy(w) /\ Found(Own, Yielding(w), from) = t
      BY <2>2 DEF LinkOk
    <3>3. t \in Tensors
      <4>1. held[w] \in Tensors \X Source
        BY <2>2 DEF TypeOK, IpcTypes
      <4> QED BY <4>1
    <3> HIDE DEF t, from
    <3>4. PulledBy(w) = n + 1
      <4>1. PulledBy(w) = (n - k) + k + 1
        BY <2>1, <2>2 DEF PulledBy
      <4> HIDE DEF n, k
      <4> QED BY <1>0, <4>1
    <3>5. Base(w)' = n
      BY <2>1, <3>1 DEF Base
    <3> HIDE DEF n, k
    <3>6. BucketOk(Own, Yielding(w), ipcMeta'[w], copies'[w], ipcBuf[w], n)
      <4>1. /\ BucketOk(Own, Yielding(w), <<>>, <<>>, ipcBuf[w], n)
            /\ n \in Int /\ <<>> \in Seq(Tensors) /\ <<>> \in Seq(Copies) /\ t = n + Len(<<>>) + 1
        BY <1>0, <3>2, <3>4, BucketStart
      <4>2. BucketOk(Own, Yielding(w), Append(<<>>, t),
                     Append(<<>>, [from |-> from, to |-> Len(<<>>) + 1]), ipcBuf[w], n)
        BY <3>2, <3>3, <4>1, BucketPull
      <4> QED BY <3>1, <4>2
    <3>7. PulledBy(w)' = PulledBy(w)
      <4>1. Len(ipcMeta'[w]) = 1
        BY <3>1
      <4>2. PulledBy(w)' = n + 1 + 0
        BY <3>1, <3>5, <4>1 DEF PulledBy
      <4> QED BY <1>0, <3>4, <4>2
    <3> QED BY <1>o, <2>1, <3>1, <3>5, <3>6, <3>7 DEF LinkOk
  <2>3. CASE ipc[w] # "full"
    <3>1. ipc[w] = "last" /\ ipc'[w] = "done" /\ UNCHANGED <<ipcMeta, copies>>
      BY <1>3, <2>1, <2>3 DEF Reply, TypeOK, IpcTypes
    <3>2. Base(w)' = Base(w)
      BY <2>1, <3>1 DEF Base
    <3>3. PulledBy(w)' = PulledBy(w)
      BY <2>3, <3>1, <3>2 DEF PulledBy
    <3> QED BY <1>o, <2>1, <3>1, <3>2, <3>3 DEF LinkOk
  <2> QED BY <2>2, <2>3
<1>4. CASE RunLoad(w)
  <2>0. link[w] = "loaded" /\ loads[w] = <<k>> /\ Head(loads[w]) = k /\ Tail(loads[w]) = <<>>
    <3>1. link[w] = "loaded" /\ loads[w] = <<k>>
      BY <1>4 DEF RunLoad, LinkOk
    <3>2. \A x : Head(<<x>>) = x /\ Tail(<<x>>) = <<>>
      OBVIOUS
    <3> QED BY <3>1, <3>2
  <2>1. /\ UNCHANGED <<ipc, held, ipcMeta, ipcBuf, copies, link>>
        /\ loads'[w] = <<>> /\ loaded'[w] = loaded[w] \o Received(w, k)
    <3>1. /\ loads \in [Workers -> Seq(Nat)] /\ loaded \in [Workers -> Seq(Nat)]
          /\ loads' = [loads EXCEPT ![w] = Tail(@)]
          /\ loaded' = [loaded EXCEPT ![w] = @ \o Received(w, Head(loads[w]))]
          /\ UNCHANGED <<ipc, held, ipcMeta, ipcBuf, copies, link>>
      BY <1>4 DEF RunLoad, TypeOK, IpcTypes
    <3> HIDE DEF k
    <3>2. loads'[w] = <<>>
      BY <2>0, <3>1
    <3>3. loaded' = [loaded EXCEPT ![w] = @ \o Received(w, k)]
      BY <2>0, <3>1
    <3>4. loaded'[w] = loaded[w] \o Received(w, k)
      BY ONLY <3>1, <3>3
    <3> QED BY <3>1, <3>2, <3>4
  <2>2. copies[w] = <<>> /\ ipc[w] \in {"full", "last"} /\ Base(w) = n
    <3>1. loads[w] # <<>> /\ link[w] = "loaded"
      BY <1>4, <2>0 DEF RunLoad
    <3>2. copies[w] = <<>> /\ ipc[w] \in {"full", "last"}
      BY <3>1 DEF LinkOk
    <3> QED BY <3>1, <3>2 DEF Base
  <2>3. Numbered(loaded[w], 0) /\ BucketOk(Own, Yielding(w), ipcMeta[w], <<>>, ipcBuf[w], n)
    BY <2>2 DEF LinkOk
  <2>4. Len(loaded'[w]) = n + k /\ Numbered(loaded'[w], 0)
    <3>1. \A i \in 1 .. k : At(ipcBuf[w], i) \in Nat
      BY <1>0 DEF At
    <3>2. /\ Received(w, k) \in Seq(Nat) /\ Len(Received(w, k)) = k
          /\ \A i \in 1 .. k : Received(w, k)[i] = At(ipcBuf[w], i)
      BY <1>0, <3>1 DEF Received
    <3>3. Finds(Received(w, k), ipcMeta[w], ipcBuf[w])
      BY <3>2 DEF Finds
    <3>4. Numbered(loaded[w] \o Received(w, k), 0)
      BY <1>0, <2>3, <3>3, BucketLoad
    <3>5. Len(loaded[w] \o Received(w, k)) = n + k
      <4> DEFINE q == loaded[w]
                 new == Received(w, k)
      <4>1. q \in Seq(Nat) /\ new \in Seq(Nat) /\ Len(q) = n /\ Len(new) = k
        BY <1>0, <3>2
      <4> HIDE DEF q, new, n, k
      <4>2. Len(q \o new) = Len(q) + Len(new)
        BY <4>1
      <4> QED BY <4>1, <4>2 DEF q, new
    <3> QED BY <2>1, <3>4, <3>5
  <2> HIDE DEF n, k
  <2>5. Base(w)' = n
    <3>1. Base(w)' = Len(loaded'[w]) - k
      BY <2>0, <2>1 DEF Base, k
    <3> QED BY <1>0, <2>4, <3>1
  <2>6. PulledBy(w)' = PulledBy(w)
    BY <2>1, <2>2, <2>5 DEF PulledBy
  <2> QED BY <1>o, <2>0, <2>1, <2>2, <2>4, <2>5, <2>6 DEF LinkOk
<1> QED BY <1>1, <1>2, <1>3, <1>4 DEF IpcStep

\* The generator goes on to another bucket when all of the one before it is
\* copied and nothing of it is held.
LEMMA LinkTurns ==
  ASSUME NEW w \in Workers, LinkOk(w), copies[w] = <<>>, ipc[w] # "full",
         backend' = backend, UNCHANGED ipcVars
  PROVE  LinkOk(w)' /\ PulledBy(w)' = PulledBy(w)
<1>1. Base(w)' = Base(w) /\ Own' = Own
  BY DEF Base, Own, ipcVars
<1>2. PulledBy(w)' = PulledBy(w)
  BY <1>1 DEF PulledBy, ipcVars
<1>3. BucketOk(Own, Yielding(w)', ipcMeta[w], copies[w], ipcBuf[w], Base(w))
  BY BucketSettled DEF LinkOk
<1> QED BY <1>1, <1>2, <1>3 DEF LinkOk, ipcVars

-----------------------------------------------------------------------------
(* All links.                                                              *)

\* Every link is right.
LinksOk == \A w \in Workers : LinkOk(w)

\* The next tensor is pulled by w, from where it is.
PullsNext(w) ==
  \E t \in Tensors, from \in Source :
    Pulls(w, t, from) /\ t = PulledBy(w) + 1 /\ Found(Own, Yielding(w), from) = t

\* A step of w's link that pulls nothing.
LinkMoves(w) ==
  (PullEnds(w) /\ PulledBy(w) = NumTensors) \/ IpcStep(w) \/ CopiesFound(w)

\* Whatever w pulls, the links stay right, and only w has got another tensor.
LEMMA LinksPull ==
  ASSUME TypeOK, LinksOk, NEW w \in Workers, PullsNext(w), backend' = backend,
         \A v \in Workers : Yielding(v)' = Yielding(v)
  PROVE  /\ LinksOk' /\ PulledBy(w)' = PulledBy(w) + 1
         /\ \A v \in Workers : v # w => PulledBy(v)' = PulledBy(v)
<1>1. PICK t \in Tensors, from \in Source :
        Pulls(w, t, from) /\ t = PulledBy(w) + 1 /\ Found(Own, Yielding(w), from) = t
  BY DEF PullsNext
<1>2. LinkOk(w)' /\ PulledBy(w)' = PulledBy(w) + 1
  BY <1>1, LinkPull DEF LinksOk
<1>3. ASSUME NEW v \in Workers, v # w PROVE LinkOk(v)' /\ PulledBy(v)' = PulledBy(v)
  BY <1>1, <1>3, LinkFrame, LinkStays DEF LinksOk
<1> QED BY <1>2, <1>3 DEF LinksOk

\* The other steps of a link.
LEMMA LinksMove ==
  ASSUME TypeOK, LinksOk, NEW w \in Workers, LinkMoves(w), backend' = backend,
         \A v \in Workers : Yielding(v)' = Yielding(v)
  PROVE  LinksOk' /\ \A v \in Workers : PulledBy(v)' = PulledBy(v)
<1>1. LinkOk(w)' /\ PulledBy(w)' = PulledBy(w)
  BY LinkEnd, LinkMessage, LinkCopy DEF LinksOk, LinkMoves
<1>2. ASSUME NEW v \in Workers, v # w PROVE LinkOk(v)' /\ PulledBy(v)' = PulledBy(v)
  <2>1. PullEnds(w) \/ IpcStep(w) \/ Copied(w)
    BY DEF LinkMoves, CopiesFound
  <2> QED BY <1>2, <2>1, LinkFrame, LinkStays DEF LinksOk
<1> QED BY <1>1, <1>2 DEF LinksOk

\* Nothing happens to any link.
LEMMA LinksStay ==
  ASSUME LinksOk, backend' = backend, UNCHANGED ipcVars,
         \A v \in Workers : \/ Yielding(v)' = Yielding(v)
                            \/ copies[v] = <<>> /\ ipc[v] # "full"
  PROVE  LinksOk' /\ \A v \in Workers : PulledBy(v)' = PulledBy(v)
<1>1. ASSUME NEW v \in Workers PROVE LinkOk(v)' /\ PulledBy(v)' = PulledBy(v)
  <2>1. CASE Yielding(v)' = Yielding(v)
    BY <2>1, LinkStays DEF LinksOk, ipcVars
  <2>2. CASE copies[v] = <<>> /\ ipc[v] # "full"
    BY <2>2, LinkTurns DEF LinksOk
  <2> QED BY <2>1, <2>2
<1> QED BY <1>1 DEF LinksOk

\* A copy that is to be carried out finds a tensor.
LEMMA HeadFound ==
  ASSUME TypeOK, NEW w \in Workers, LinkOk(w), copies[w] # <<>>
  PROVE  Found(Own, Yielding(w), Head(copies[w]).from) \in Tensors
<1> DEFINE c == copies[w]
           m == ipcMeta[w]
           b == Base(w)
<1>1. c \in Seq(Copies) /\ m \in Seq(Tensors) /\ Len(m) \in Nat /\ Len(c) \in Nat /\ b \in Int
  BY LinkTypes
<1>2. BucketOk(Own, Yielding(w), m, c, ipcBuf[w], b) /\ c # <<>>
  BY DEF LinkOk
<1> HIDE DEF c, m, b
<1>3. Head(c) = c[1] /\ 1 \in 1 .. Len(c)
  BY <1>1, <1>2
<1>4. /\ c[1].to = Len(m) - Len(c) + 1 /\ Len(c) <= Len(m)
      /\ Found(Own, Yielding(w), c[1].from) = b + c[1].to
  BY <1>2, <1>3 DEF BucketOk
<1>5. c[1].to \in 1 .. Len(m)
  BY <1>1, <1>3, <1>4
<1>6. m[c[1].to] = b + c[1].to
  BY <1>2, <1>5 DEF BucketOk, Numbered
<1>7. m[c[1].to] \in Tensors
  BY <1>1, <1>5
<1> QED BY <1>3, <1>4, <1>6, <1>7 DEF c

\* A buffer has the tensors of q, if there are any.
Has(buf, q) == q # <<>> => buf = q

\* So a copy out of a buffer that has the bucket finds its tensor.
LEMMA CopyFinds ==
  ASSUME TypeOK, NEW w \in Workers, LinkOk(w), ~Own, copies[w] # <<>>, NEW buf,
         Yielding(w) \in Seq(Tensors), Has(buf, Yielding(w))
  PROVE  At(buf, Head(copies[w]).from.place) = Found(Own, Yielding(w), Head(copies[w]).from)
<1> DEFINE from == Head(copies[w]).from
           y == Yielding(w)
<1>1. Found(Own, y, from) = At(y, from.place) /\ Found(Own, y, from) \in Tensors
  BY HeadFound DEF Found
<1> HIDE DEF from
<1>2. y # <<>>
  <2>1. SUFFICES ASSUME y = <<>> PROVE FALSE
    OBVIOUS
  <2>2. At(y, from.place) = 0
    BY <2>1 DEF At
  <2> QED BY <1>1, <2>2 DEF Tensors
<1> QED BY <1>1, <1>2 DEF Has, from

-----------------------------------------------------------------------------
(* The trainer's own generator.                                            *)

\* The generator is at the tensor after those it has yielded.
NaiveDel == \A w \in Workers : next[w] = PulledBy(w) + 1

\* The colocated hand-over keeps the links right.
LEMMA NaiveDelStep ==
  ASSUME TypeOK, LinksOk, NaiveDel, backend = "naive", backend' = backend,
         UNCHANGED <<ncclVars, nixlVars>>,
         NEW w \in Workers, Naive!Worker(w) \/ Naive!RunCopy(w)
  PROVE  LinksOk' /\ NaiveDel'
<1>0. /\ Own /\ Source = Tensors /\ next \in [Workers -> 1 .. NumTensors + 1] /\ NumTensors \in Nat
      /\ \A v \in Workers : PulledBy(v) \in Int /\ Yielding(v)' = Yielding(v)
  BY TransferAssumption, LinkTypes
     DEF Own, Source, TypeOK, NaiveTypes, Yielding, ncclVars, nixlVars
<1>1. CASE next[w] \in Tensors /\ Pulls(w, next[w], next[w]) /\ next' = [next EXCEPT ![w] = @ + 1]
  <2>1. PullsNext(w)
    BY <1>0, <1>1 DEF PullsNext, NaiveDel, Found
  <2>2. /\ LinksOk' /\ PulledBy(w)' = PulledBy(w) + 1
        /\ \A v \in Workers : v # w => PulledBy(v)' = PulledBy(v)
    BY <1>0, <2>1, LinksPull
  <2> QED BY <1>0, <1>1, <2>2 DEF NaiveDel
<1>2. CASE LinkMoves(w) /\ UNCHANGED next
  <2>1. LinksOk' /\ \A v \in Workers : PulledBy(v)' = PulledBy(v)
    BY <1>0, <1>2, LinksMove
  <2> QED BY <1>2, <2>1 DEF NaiveDel
<1>3. CASE next[w] \notin Tensors /\ PullEnds(w) /\ UNCHANGED next
  <2>1. next[w] = NumTensors + 1 /\ next[w] = PulledBy(w) + 1
    BY <1>0, <1>3 DEF Tensors, NaiveDel
  <2>2. PulledBy(w) = NumTensors
    BY <1>0, <2>1
  <2> QED BY <1>2, <1>3, <2>2 DEF LinkMoves
<1>4. CASE IpcStep(w) /\ UNCHANGED next
  BY <1>2, <1>4 DEF LinkMoves
<1>5. CASE Naive!RunCopy(w)
  <2>1. /\ Naive!Copy(w, Head(copies[w]).from) /\ UNCHANGED next /\ copies[w] # <<>>
    BY <1>5 DEF Naive!RunCopy, Naive!Copy
  <2>2. Head(copies[w]).from = Found(Own, Yielding(w), Head(copies[w]).from)
    BY <1>0 DEF Found
  <2>3. Head(copies[w]).from \in Nat
    <3>1. Head(copies[w]).from \in Tensors
      BY <2>1, <2>2, HeadFound DEF LinksOk
    <3> QED BY <3>1 DEF Tensors
  <2>4. Copied(w)
    BY <2>1, <2>3, NaiveLink
  <2>5. ipcBuf' = [ipcBuf EXCEPT ![w] =
                     Written(@, Head(copies[w]).to, Head(copies[w]).from)]
    BY <2>1 DEF Naive!Copy, Naive!Written, Written
  <2>6. CopiesFound(w)
    BY <2>2, <2>4, <2>5 DEF CopiesFound
  <2> QED BY <1>2, <2>1, <2>6 DEF LinkMoves
<1>6. CASE Naive!Worker(w)
  BY <1>1, <1>3, <1>4, <1>6, NaiveLink DEF Naive!Worker, Naive!Yield, Naive!Tensors, Tensors
<1> QED BY <1>5, <1>6

-----------------------------------------------------------------------------
(* The broadcast.                                                          *)

\* Tensors in the buckets rank 0 has given away.
SentBy(p) == IF p.at = "pack" THEN p.next - 1 - Len(p.meta) ELSE p.next - 1

\* The last tensors of m are still to be copied, as q says; the buffer has the
\* others.
Queued(q, m, buf) ==
  /\ Len(q) <= Len(m)
  /\ \A i \in 1 .. Len(q) : /\ q[i].tensor = m[Len(m) - Len(q) + i]
                            /\ q[i].first <=> Len(m) - Len(q) + i = 1
  /\ Len(m) # Len(q) => /\ Len(buf) = Len(m) - Len(q)
                        /\ \A i \in 1 .. Len(m) - Len(q) : buf[i] = m[i]

\* The bucket rank 0 packs follows those; at the end it has packed them all.
PackOk(p, buf) ==
  /\ p.at = "pack" => Numbered(p.meta, SentBy(p)) /\ Queued(p.copies, p.meta, buf)
  /\ p.at # "pack" => p.next = NumTensors + 1

\* The bucket that is broadcast, or was last, is the last of those.
BroadcastOk ==
  /\ Numbered(op0.bucket.tensors, SentBy(pack) - Len(op0.bucket.tensors))
  /\ op0.stage # "done" => Has(buf0[op0.fill], op0.bucket.tensors)
  /\ op0.bucket.last => pack.at # "pack"

\* Tensors of the buckets that a worker knows of.
Known(w) ==
  IF op0.stage = "new" \/ topic[w] # <<>> THEN SentBy(pack) - Len(op0.bucket.tensors)
  ELSE SentBy(pack)

\* Those of the buckets it has yielded or yields.
Turned(w) == PulledBy(w) - meta[w].yielded + Len(meta[w].bucket.tensors)

\* A generator that yields its last bucket or has ended.
AtLast(g) == g \in {"last", "done"}

\* A worker joins the broadcast under way, and takes its metadata once.
JoinOk(w) ==
  /\ topic[w] # <<>> =>
       op0.stage = "published" /\ topic[w] = <<op0.bucket>> /\ op[w].stage # "joined"
  /\ op[w].stage = "joined" => op0.stage = "published" /\ op[w].bucket = op0.bucket
  /\ AtLast(gen[w]) => op[w].bucket.last /\ op[w].stage = "done"
  /\ op[w].bucket.last => pack.at # "pack" /\ op0.stage # "new" /\ topic[w] = <<>>

\* The bucket it yields and the one it receives come one after the other.
CountOk(w) ==
  /\ Numbered(op[w].bucket.tensors, Known(w) - Len(op[w].bucket.tensors))
  /\ Numbered(meta[w].bucket.tensors, PulledBy(w) - meta[w].yielded)
  /\ Turned(w) = IF op[w].stage = "metadata" \/ AtLast(gen[w]) THEN Known(w)
                 ELSE Known(w) - Len(op[w].bucket.tensors)

\* They are in the two buffers.
BuffersOk(w) ==
  /\ Has(bufs[w].data[bufs[w].send], meta[w].bucket.tensors)
  /\ op[w].stage = "done" /\ ~AtLast(gen[w]) =>
       Has(bufs[w].data[1 - bufs[w].send], op[w].bucket.tensors)
  /\ op[w].stage = "arriving" => Has(op[w].data, op[w].bucket.tensors)
  /\ gen[w] = "first" => meta[w].bucket.tensors = <<>>

\* All of it, in the broadcast.
NcclDel ==
  /\ PackOk(pack, buf0[pack.fill]) /\ BroadcastOk
  /\ \A w \in Workers : JoinOk(w) /\ CountOk(w) /\ BuffersOk(w)

\* The numbers of a worker and of rank 0, and their buckets.
LEMMA NcclNumbers ==
  ASSUME TypeOK
  PROVE  /\ SentBy(pack) \in Int /\ pack.next \in 1 .. NumTensors + 1 /\ NumTensors \in Nat
         /\ pack.fill \in 0 .. 1 /\ op0.fill \in 0 .. 1 /\ pack.meta \in Seq(Tensors)
         /\ op0.bucket \in Buckets /\ op0.bucket.tensors \in Seq(Tensors)
         /\ Len(op0.bucket.tensors) \in Nat
         /\ \A w \in Workers :
              /\ PulledBy(w) \in Int /\ Known(w) \in Int
              /\ op[w] \in Ops /\ meta[w] \in Metas /\ bufs[w] \in Pairs
              /\ topic[w] \in Seq(Buckets)
              /\ op[w].bucket.tensors \in Seq(Tensors) /\ Len(op[w].bucket.tensors) \in Nat
              /\ meta[w].bucket.tensors \in Seq(Tensors) /\ Len(meta[w].bucket.tensors) \in Nat
              /\ meta[w].yielded \in 0 .. Len(meta[w].bucket.tensors)
              /\ bufs[w].send \in 0 .. 1
<1>0. NcclTypes /\ NumTensors \in Nat
  BY TransferAssumption DEF TypeOK
<1>1. /\ pack.next \in 1 .. NumTensors + 1 /\ pack.meta \in Seq(Tensors) /\ pack.fill \in 0 .. 1
      /\ op0.fill \in 0 .. 1 /\ op0.bucket \in Buckets
  BY <1>0 DEF NcclTypes, Packs
<1>2. SentBy(pack) \in Int
  <2>1. Len(pack.meta) \in Nat
    BY <1>1
  <2> QED BY <1>0, <1>1, <2>1 DEF SentBy
<1>3. op0.bucket.tensors \in Seq(Tensors) /\ Len(op0.bucket.tensors) \in Nat
  BY <1>1, PartTypes
<1>4. ASSUME NEW w \in Workers
      PROVE  /\ PulledBy(w) \in Int /\ Known(w) \in Int
             /\ op[w] \in Ops /\ meta[w] \in Metas /\ bufs[w] \in Pairs /\ topic[w] \in Seq(Buckets)
             /\ op[w].bucket.tensors \in Seq(Tensors) /\ Len(op[w].bucket.tensors) \in Nat
             /\ meta[w].bucket.tensors \in Seq(Tensors) /\ Len(meta[w].bucket.tensors) \in Nat
             /\ meta[w].yielded \in 0 .. Len(meta[w].bucket.tensors)
             /\ bufs[w].send \in 0 .. 1
  <2>1. /\ op[w] \in Ops /\ meta[w] \in Metas /\ bufs[w] \in Pairs /\ topic[w] \in Seq(Buckets)
        /\ meta[w].yielded <= Len(meta[w].bucket.tensors)
    BY <1>0 DEF NcclTypes
  <2>2. op[w].bucket \in Buckets /\ meta[w].bucket \in Buckets /\ meta[w].yielded \in Nat
        /\ bufs[w].send \in 0 .. 1
    BY <2>1, PartTypes
  <2>3. /\ op[w].bucket.tensors \in Seq(Tensors) /\ Len(op[w].bucket.tensors) \in Nat
        /\ meta[w].bucket.tensors \in Seq(Tensors) /\ Len(meta[w].bucket.tensors) \in Nat
    BY <2>2, PartTypes
  <2>4. PulledBy(w) \in Int /\ Known(w) \in Int
    BY <1>2, <1>3, LinkTypes DEF Known
  <2> QED BY <2>1, <2>2, <2>3, <2>4
<1> QED BY <1>0, <1>1, <1>2, <1>3, <1>4

\* A tensor is to be copied behind the others.
LEMMA QueuedAppend ==
  ASSUME NEW q \in Seq(PackCopies), NEW m \in Seq(Tensors), NEW buf, Queued(q, m, buf),
         NEW n, NEW c, c.tensor = n, c.first <=> m = <<>>
  PROVE  Queued(Append(q, c), Append(m, n), buf)
<1> DEFINE q2 == Append(q, c)
           m2 == Append(m, n)
<1>1. Len(q) \in Nat /\ Len(m) \in Nat /\ (m = <<>> <=> Len(m) = 0)
  BY EmptySeq
<1>2. /\ Len(q2) = Len(q) + 1 /\ q2[Len(q) + 1] = c /\ \A i \in 1 .. Len(q) : q2[i] = q[i]
      /\ Len(m2) = Len(m) + 1 /\ m2[Len(m) + 1] = n /\ \A i \in 1 .. Len(m) : m2[i] = m[i]
  OBVIOUS
<1> HIDE DEF q2, m2
<1>3. Len(m2) - Len(q2) = Len(m) - Len(q) /\ Len(q2) <= Len(m2)
  BY <1>1, <1>2 DEF Queued
<1>4. ASSUME NEW i \in 1 .. Len(q2)
      PROVE  /\ q2[i].tensor = m2[Len(m) - Len(q) + i]
             /\ q2[i].first <=> Len(m) - Len(q) + i = 1
  <2>1. CASE i = Len(q) + 1
    <3>1. Len(m) - Len(q) + i = Len(m) + 1 /\ q2[i] = c
      BY <1>1, <1>2, <2>1
    <3>2. Len(m) = 0 <=> Len(m) + 1 = 1
      BY <1>1
    <3> QED BY <1>1, <1>2, <3>1, <3>2
  <2>2. CASE i # Len(q) + 1
    <3>1. i \in 1 .. Len(q) /\ Len(m) - Len(q) + i \in 1 .. Len(m)
      BY <1>1, <1>2, <2>2 DEF Queued
    <3> QED BY <1>2, <3>1 DEF Queued
  <2> QED BY <2>1, <2>2
<1>5. ASSUME Len(m2) # Len(q2)
      PROVE  /\ Len(buf) = Len(m) - Len(q)
             /\ \A i \in 1 .. Len(m) - Len(q) : buf[i] = m2[i]
  <2>1. Len(m) # Len(q) /\ \A i \in 1 .. Len(m) - Len(q) : i \in 1 .. Len(m)
    BY <1>1, <1>2, <1>5
  <2> QED BY <1>2, <2>1 DEF Queued
<1>6. Queued(q2, m2, buf)
  BY <1>3, <1>4, <1>5 DEF Queued
<1> QED BY <1>6 DEF q2, m2

\* The oldest copy is carried out.
LEMMA QueuedRun ==
  ASSUME NEW q \in Seq(PackCopies), q # <<>>, NEW m \in Seq(Tensors), NEW buf \in Seq(Tensors),
         Queued(q, m, buf)
  PROVE  Queued(Tail(q), m, Append(IF Head(q).first THEN <<>> ELSE buf, Head(q).tensor))
<1> DEFINE t == Tail(q)
           d == Len(m) - Len(q)
           old == IF Head(q).first THEN <<>> ELSE buf
           new == Append(old, Head(q).tensor)
<1>1. Len(q) \in Nat /\ Len(q) # 0 /\ Len(m) \in Nat /\ Len(q) <= Len(m) /\ Head(q) = q[1]
  BY EmptySeq DEF Queued
<1>2. /\ d \in Nat /\ 1 \in 1 .. Len(q) /\ d + 1 \in 1 .. Len(m)
  BY <1>1
<1>3. Head(q).tensor = m[d + 1] /\ (Head(q).first <=> d + 1 = 1)
  BY <1>1, <1>2 DEF Queued
<1>4. old \in Seq(Tensors) /\ Len(old) = d /\ \A i \in 1 .. d : old[i] = m[i]
  <2>1. CASE d = 0
    <3>1. Head(q).first
      BY <1>3, <2>1
    <3>2. old = <<>> /\ <<>> \in Seq(Tensors) /\ Len(<<>>) = 0 /\ 1 .. 0 = {}
      BY <3>1
    <3> HIDE DEF d, old
    <3> QED BY <2>1, <3>2
  <2>2. CASE d # 0
    <3>1. ~Head(q).first /\ Len(m) # Len(q)
      BY <1>1, <1>2, <1>3, <2>2
    <3> QED BY <3>1 DEF Queued
  <2> QED BY <2>1, <2>2
<1> HIDE DEF old
<1>5. /\ Len(new) = d + 1 /\ new[d + 1] = m[d + 1] /\ \A i \in 1 .. d : new[i] = m[i]
  <2> HIDE DEF d
  <2> QED BY <1>2, <1>3, <1>4
<1>6. Len(t) = Len(q) - 1 /\ \A i \in 1 .. Len(t) : t[i] = q[i + 1] /\ i + 1 \in 1 .. Len(q)
  BY <1>1
<1> HIDE DEF t, new
<1>7. Len(m) - Len(t) = d + 1 /\ Len(t) <= Len(m)
  BY <1>1, <1>6
<1>8. ASSUME NEW i \in 1 .. Len(t)
      PROVE  /\ t[i].tensor = m[d + 1 + i]
             /\ t[i].first <=> d + 1 + i = 1
  <2>1. t[i] = q[i + 1] /\ i + 1 \in 1 .. Len(q) /\ Len(m) - Len(q) + (i + 1) = d + 1 + i
    BY <1>1, <1>6
  <2> HIDE DEF d
  <2> QED BY <2>1 DEF Queued
<1>9. \A i \in 1 .. d + 1 : new[i] = m[i]
  <2> HIDE DEF d
  <2> QED BY <1>2, <1>5
<1> HIDE DEF d
<1>10. Queued(t, m, new)
  BY <1>5, <1>7, <1>8, <1>9 DEF Queued
<1> QED BY <1>10 DEF t, new, old

\* When none is left, the buffer has the bucket.
LEMMA QueuedAll ==
  ASSUME NEW m \in Seq(Tensors), NEW buf \in Seq(Tensors)
  PROVE  Queued(<<>>, m, buf) => Has(buf, m)
<1> SUFFICES ASSUME Queued(<<>>, m, buf), m # <<>> PROVE buf = m
  BY DEF Has
<1>1. Len(m) \in Nat /\ Len(m) # 0 /\ Len(<<>>) = 0
  BY EmptySeq
<1>2. Len(m) - 0 = Len(m)
  BY <1>1
<1>3. Len(buf) = Len(m) /\ \A i \in 1 .. Len(m) : buf[i] = m[i]
  BY <1>1, <1>2 DEF Queued
<1> QED BY <1>3

\* A tensor is packed: what has been given away is the same.
LEMMA PackNext ==
  ASSUME NEW p \in Packs, p.at = "pack", p.next \in Tensors, NEW buf, PackOk(p, buf),
         NEW p2, p2 = [p EXCEPT !.next = @ + 1, !.meta = Append(@, p.next),
                                !.copies = Append(@, [tensor |-> p.next, buf |-> p.fill,
                                                      first |-> p.meta = <<>>])]
  PROVE  PackOk(p2, buf) /\ SentBy(p2) = SentBy(p) /\ p2.at = "pack" /\ p2.fill = p.fill
<1> DEFINE m == p.meta
           n == p.next
           c == [tensor |-> p.next, buf |-> p.fill, first |-> p.meta = <<>>]
<1>1. /\ m \in Seq(Tensors) /\ Len(m) \in Nat /\ n \in Nat /\ p.copies \in Seq(PackCopies)
      /\ p2.meta = Append(m, n) /\ p2.next = n + 1 /\ p2.at = "pack" /\ p2.fill = p.fill
      /\ p2.copies = Append(p.copies, c)
  BY TransferAssumption DEF Packs, Tensors
<1>c. c.tensor = n /\ (c.first <=> m = <<>>)
  OBVIOUS
<1>2. SentBy(p) = n - 1 - Len(m) /\ Numbered(m, SentBy(p)) /\ Queued(p.copies, m, buf)
  BY DEF SentBy, PackOk
<1>s. SentBy(p2) = p2.next - 1 - Len(p2.meta)
  BY <1>1 DEF SentBy
<1> HIDE DEF m, n, c
<1>3. /\ Len(p2.meta) = Len(m) + 1 /\ p2.meta[Len(m) + 1] = n
      /\ \A i \in 1 .. Len(m) : p2.meta[i] = m[i]
  BY <1>1
<1>4. SentBy(p2) = SentBy(p)
  BY <1>1, <1>2, <1>3, <1>s
<1>5. ASSUME NEW i \in 1 .. Len(p2.meta) PROVE p2.meta[i] = SentBy(p2) + i
  <2>1. CASE i = Len(m) + 1
    <3>1. /\ p2.meta[i] = n /\ SentBy(p2) = n - 1 - Len(m)
          /\ n \in Nat /\ Len(m) \in Nat
      BY <1>1, <1>2, <1>3, <1>4, <2>1
    <3>2. n = n - 1 - Len(m) + (Len(m) + 1)
      BY ONLY <3>1
    <3> QED BY <2>1, <3>1, <3>2
  <2>2. CASE i # Len(m) + 1
    <3>1. i \in 1 .. Len(m)
      BY <1>1, <1>3, <2>2
    <3>2. m[i] = SentBy(p) + i
      BY <1>2, <3>1 DEF Numbered
    <3> QED BY <1>3, <1>4, <3>1, <3>2
  <2> QED BY <2>1, <2>2
<1>6. Queued(p2.copies, p2.meta, buf)
  BY <1>1, <1>c, <1>2, QueuedAppend
<1>7. PackOk(p2, buf)
  BY <1>1, <1>5, <1>6 DEF PackOk, Numbered
<1> QED BY <1>1, <1>4, <1>7

\* Its copy is carried out, into the buffer that is packed.
LEMMA PackRun ==
  ASSUME NEW p \in Packs, QueueOk(p), p.copies # <<>>, NEW buf \in Seq(Tensors), PackOk(p, buf),
         NEW p2, p2 = [p EXCEPT !.copies = Tail(@)]
  PROVE  /\ PackOk(p2, Append(IF Head(p.copies).first THEN <<>> ELSE buf, Head(p.copies).tensor))
         /\ SentBy(p2) = SentBy(p) /\ p.at = "pack" /\ p2.at = "pack" /\ p2.fill = p.fill
         /\ Head(p.copies).buf = p.fill
<1>1. p.at = "pack" /\ p.meta \in Seq(Tensors) /\ p.copies \in Seq(PackCopies)
  BY DEF QueueOk, Packs
<1>2. /\ p2.at = "pack" /\ p2.next = p.next /\ p2.meta = p.meta /\ p2.fill = p.fill
      /\ p2.copies = Tail(p.copies)
  BY <1>1 DEF Packs
<1>3. SentBy(p2) = SentBy(p)
  BY <1>1, <1>2 DEF SentBy
<1>4. Numbered(p.meta, SentBy(p)) /\ Queued(p.copies, p.meta, buf)
  BY <1>1 DEF PackOk
<1>5. Queued(p2.copies, p2.meta,
             Append(IF Head(p.copies).first THEN <<>> ELSE buf, Head(p.copies).tensor))
  BY <1>1, <1>2, <1>4, QueuedRun
<1>6. Head(p.copies).buf = p.fill
  <2>1. Head(p.copies) = p.copies[1] /\ 1 \in 1 .. Len(p.copies)
    BY <1>1, EmptySeq
  <2> QED BY <2>1 DEF QueueOk
<1>7. PackOk(p2, Append(IF Head(p.copies).first THEN <<>> ELSE buf, Head(p.copies).tensor))
  BY <1>2, <1>3, <1>4, <1>5 DEF PackOk
<1> QED BY <1>1, <1>2, <1>3, <1>6, <1>7

\* The counts and the buffers of a worker nothing happens to.
LEMMA WorkerStays ==
  ASSUME NEW v \in Workers, gen'[v] = gen[v], meta'[v] = meta[v], op'[v] = op[v],
         bufs'[v] = bufs[v], PulledBy(v)' = PulledBy(v), Known(v)' = Known(v),
         CountOk(v), BuffersOk(v)
  PROVE  CountOk(v)' /\ BuffersOk(v)'
<1>1. Turned(v)' = Turned(v)
  BY DEF Turned
<1>2. CountOk(v)'
  BY <1>1 DEF CountOk
<1>3. BuffersOk(v)'
  BY DEF BuffersOk
<1> QED BY <1>2, <1>3

\* Rank 0 packs its tensors and starts the broadcasts.
LEMMA NcclSenderStep ==
  ASSUME TypeOK, NcclInv, LinksOk, NcclDel, backend = "nccl", backend' = backend, Nccl!Sender
  PROVE  LinksOk' /\ NcclDel'
<1>0. /\ pack \in Packs /\ Nccl!Tensors = Tensors /\ buf0 \in [0 .. 1 -> Seq(Tensors)]
      /\ op0 \in [stage : {"new", "published", "done"}, fill : 0 .. 1, bucket : Buckets]
  BY DEF TypeOK, NcclTypes, Nccl!Tensors, Tensors
<1>1. UNCHANGED <<ipcVars, topic, gen, meta, bufs, op>>
  BY DEF Nccl!Sender, Nccl!Pack, Nccl!RunPack, Nccl!StartBroadcast, Nccl!Return,
         Nccl!ipcVars, ipcVars, Nccl!receiverVars
<1>2. LinksOk' /\ \A v \in Workers : PulledBy(v)' = PulledBy(v)
  <2>1. \A v \in Workers : Yielding(v)' = Yielding(v)
    BY <1>1 DEF Yielding
  <2> QED BY <1>1, <2>1, LinksStay
<1>g. ASSUME PackOk(pack', buf0'[pack'.fill]), BroadcastOk', \A v \in Workers : JoinOk(v)',
             \A v \in Workers : Known(v)' = Known(v)
      PROVE  NcclDel'
  BY <1>1, <1>2, <1>g, WorkerStays DEF NcclDel
<1>3. CASE Nccl!Pack
  <2>1. /\ pack.at = "pack" /\ pack.next \in Tensors /\ op0' = op0 /\ buf0' = buf0
        /\ pack' = [pack EXCEPT !.next = @ + 1, !.meta = Append(@, pack.next),
                                !.copies = Append(@, [tensor |-> pack.next, buf |-> pack.fill,
                                                      first |-> pack.meta = <<>>])]
    BY <1>0, <1>3 DEF Nccl!Pack
  <2>2. /\ PackOk(pack', buf0[pack.fill])
        /\ SentBy(pack') = SentBy(pack) /\ pack'.at = "pack" /\ pack'.fill = pack.fill
    BY <1>0, <2>1, PackNext DEF NcclDel
  <2>3. BroadcastOk'
    BY <2>1, <2>2 DEF NcclDel, BroadcastOk
  <2>4. \A v \in Workers : Known(v)' = Known(v) /\ JoinOk(v)'
    BY <1>1, <2>1, <2>2 DEF NcclDel, JoinOk, Known
  <2> QED BY <1>g, <1>2, <2>1, <2>2, <2>3, <2>4
<1>6. CASE Nccl!RunPack
  <2> DEFINE c == Head(pack.copies)
             new == Append(IF c.first THEN <<>> ELSE buf0[pack.fill], c.tensor)
  <2>1. /\ pack.copies # <<>> /\ op0' = op0 /\ pack' = [pack EXCEPT !.copies = Tail(@)]
        /\ buf0' = [buf0 EXCEPT ![c.buf] = Append(IF c.first THEN <<>> ELSE @, c.tensor)]
    BY <1>0, <1>6 DEF Nccl!RunPack
  <2>2. /\ PackOk(pack', new) /\ SentBy(pack') = SentBy(pack)
        /\ pack.at = "pack" /\ pack'.at = "pack" /\ pack'.fill = pack.fill /\ c.buf = pack.fill
    <3>1. buf0[pack.fill] \in Seq(Tensors) /\ QueueOk(pack) /\ PackOk(pack, buf0[pack.fill])
      BY <1>0, NcclNumbers DEF NcclInv, NcclDel
    <3> QED BY <1>0, <2>1, <3>1, PackRun
  <2> HIDE DEF c
  <2>3. /\ buf0'[pack'.fill] = new
        /\ op0.stage # "done" => buf0'[op0.fill] = buf0[op0.fill]
    BY <1>0, <2>1, <2>2, NcclNumbers DEF NcclInv
  <2>4. BroadcastOk'
    BY <2>1, <2>2, <2>3 DEF NcclDel, BroadcastOk
  <2>5. \A v \in Workers : Known(v)' = Known(v) /\ JoinOk(v)'
    BY <1>1, <2>1, <2>2 DEF NcclDel, JoinOk, Known
  <2> QED BY <1>g, <1>2, <2>2, <2>3, <2>4, <2>5
<1>4. CASE Nccl!StartBroadcast
  <2>1. /\ pack.at = "pack" /\ pack.copies = <<>> /\ op0.stage = "done" /\ buf0' = buf0
        /\ op0'.stage = "new" /\ op0'.fill = pack.fill /\ op0'.bucket.tensors = pack.meta
        /\ op0'.bucket.last <=> pack.next \notin Tensors
    BY <1>0, <1>4 DEF Nccl!StartBroadcast, Nccl!Packed, Nccl!Bucket
  <2>2. IF pack.next \in Tensors THEN /\ pack'.at = "pack" /\ pack'.next = pack.next
                                      /\ pack'.meta = <<>> /\ pack'.copies = pack.copies
        ELSE pack'.at = "last" /\ pack'.next = pack.next
    BY <1>0, <1>4 DEF Nccl!StartBroadcast, Packs
  <2>3. /\ SentBy(pack') = SentBy(pack) + Len(pack.meta) /\ Len(pack.meta) \in Nat
        /\ Numbered(pack.meta, SentBy(pack)) /\ Has(buf0[pack.fill], pack.meta)
    <3>1. Len(pack.meta) \in Nat /\ pack.next \in Nat /\ Len(<<>>) = 0
      BY NcclNumbers
    <3>2. SentBy(pack) = pack.next - 1 - Len(pack.meta) /\ SentBy(pack') = pack.next - 1
      BY <2>1, <2>2, <3>1 DEF SentBy
    <3>3. Numbered(pack.meta, SentBy(pack)) /\ Queued(<<>>, pack.meta, buf0[pack.fill])
      BY <2>1 DEF NcclDel, PackOk
    <3>4. pack.meta \in Seq(Tensors) /\ buf0[pack.fill] \in Seq(Tensors)
      BY <1>0, NcclNumbers
    <3>5. Has(buf0[pack.fill], pack.meta)
      BY <3>3, <3>4, QueuedAll
    <3> QED BY <3>1, <3>2, <3>3, <3>5
  <2>4. PackOk(pack', buf0'[pack'.fill])
    <3>1. CASE pack.next \in Tensors
      <4>1. \A buf : Queued(<<>>, <<>>, buf)
        BY DEF Queued
      <4> QED BY <2>1, <2>2, <3>1, <4>1 DEF PackOk, Numbered
    <3>2. CASE pack.next \notin Tensors
      <4>1. pack.next = NumTensors + 1
        BY <3>2, NcclNumbers DEF Tensors
      <4> QED BY <2>2, <3>2, <4>1 DEF PackOk
    <3> QED BY <3>1, <3>2
  <2>5. SentBy(pack') - Len(pack.meta) = SentBy(pack)
    BY <2>3, NcclNumbers
  <2>6. BroadcastOk'
    BY <2>1, <2>2, <2>3, <2>5 DEF BroadcastOk
  <2>7. ASSUME NEW v \in Workers PROVE Known(v)' = Known(v) /\ JoinOk(v)'
    <3>1. topic[v] = <<>> /\ op[v].stage # "joined" /\ ~op[v].bucket.last
      BY <2>1 DEF NcclDel, JoinOk
    <3>2. Known(v) = SentBy(pack) /\ Known(v)' = SentBy(pack') - Len(op0'.bucket.tensors)
      BY <2>1, <3>1 DEF Known
    <3>3. JoinOk(v)'
      BY <1>1, <3>1 DEF NcclDel, JoinOk
    <3> QED BY <2>1, <2>5, <3>2, <3>3
  <2> QED BY <1>g, <1>2, <2>4, <2>6, <2>7
<1>5. CASE Nccl!Return
  <2>1. /\ pack.at = "last" /\ pack'.at = "done" /\ pack'.next = pack.next
        /\ UNCHANGED <<buf0, op0>>
    BY <1>0, <1>5 DEF Nccl!Return, Packs
  <2>2. SentBy(pack') = SentBy(pack)
    BY <2>1 DEF SentBy
  <2>3. PackOk(pack', buf0'[pack'.fill])
    BY <2>1 DEF NcclDel, PackOk
  <2>4. BroadcastOk'
    BY <2>1, <2>2 DEF NcclDel, BroadcastOk
  <2>5. \A v \in Workers : Known(v)' = Known(v) /\ JoinOk(v)'
    BY <1>1, <2>1, <2>2 DEF NcclDel, JoinOk, Known
  <2> QED BY <1>g, <1>2, <2>3, <2>4, <2>5
<1> QED BY <1>3, <1>4, <1>5, <1>6 DEF Nccl!Sender

\* The broadcast is published, and its collective is over for rank 0.
LEMMA NcclCollectiveStep ==
  ASSUME TypeOK, LinksOk, NcclDel, backend = "nccl", backend' = backend,
         Nccl!Publish \/ Nccl!Broadcast
  PROVE  LinksOk' /\ NcclDel'
<1>0. /\ op0 \in [stage : {"new", "published", "done"}, fill : 0 .. 1, bucket : Buckets]
      /\ topic \in [Workers -> Seq(Buckets)] /\ op \in [Workers -> Ops]
  BY DEF TypeOK, NcclTypes
<1>1. UNCHANGED <<ipcVars, pack, buf0, gen, meta, bufs>>
  BY DEF Nccl!Publish, Nccl!Broadcast, Nccl!ipcVars, ipcVars, Nccl!receiverVars
<1>2. LinksOk' /\ \A v \in Workers : PulledBy(v)' = PulledBy(v)
  <2>1. \A v \in Workers : Yielding(v)' = Yielding(v)
    BY <1>1 DEF Yielding
  <2> QED BY <1>1, <2>1, LinksStay
<1>3. op0'.fill = op0.fill /\ op0'.bucket = op0.bucket /\ op0.stage # "done"
  BY <1>0 DEF Nccl!Publish, Nccl!Broadcast
<1>4. PackOk(pack', buf0'[pack'.fill]) /\ BroadcastOk'
  BY <1>1, <1>3 DEF NcclDel, BroadcastOk
<1>5. CASE Nccl!Publish
  <2>1. /\ op0.stage = "new" /\ op0'.stage = "published" /\ op' = op
        /\ \A v \in Workers : topic'[v] = Append(topic[v], op0.bucket)
    BY <1>0, <1>5 DEF Nccl!Publish, Nccl!receiverVars
  <2>2. ASSUME NEW v \in Workers PROVE JoinOk(v)' /\ CountOk(v)' /\ BuffersOk(v)'
    <3>1. topic[v] = <<>> /\ op[v].stage # "joined" /\ ~op[v].bucket.last
      BY <2>1 DEF NcclDel, JoinOk
    <3>2. topic'[v] = <<op0.bucket>> /\ topic'[v] # <<>>
      BY <2>1, <3>1
    <3>3. Known(v)' = Known(v)
      BY <1>1, <1>3, <2>1, <3>2 DEF Known
    <3>4. JoinOk(v)'
      BY <1>1, <1>3, <2>1, <3>1, <3>2 DEF NcclDel, JoinOk
    <3> QED BY <1>1, <1>2, <2>1, <3>3, <3>4, WorkerStays DEF NcclDel
  <2> QED BY <1>2, <1>4, <2>2 DEF NcclDel
<1>6. CASE Nccl!Broadcast
  <2>1. /\ op0.stage = "published" /\ op0'.stage = "done" /\ topic' = topic
        /\ \A v \in Workers : /\ op[v].stage = "joined" /\ op'[v].stage = "arriving"
                              /\ op'[v].bucket = op[v].bucket /\ op'[v].data = buf0[op0.fill]
    BY <1>0, <1>6 DEF Nccl!Broadcast, Ops
  <2>2. ASSUME NEW v \in Workers PROVE JoinOk(v)' /\ CountOk(v)' /\ BuffersOk(v)'
    <3>1. topic[v] = <<>> /\ op[v].bucket = op0.bucket /\ ~AtLast(gen[v])
      BY <2>1 DEF NcclDel, JoinOk
    <3>2. Known(v)' = Known(v) /\ Turned(v)' = Turned(v)
      BY <1>1, <1>2, <2>1, <3>1 DEF Known, Turned
    <3>3. JoinOk(v)'
      BY <1>1, <2>1, <3>1 DEF NcclDel, JoinOk
    <3>4. CountOk(v)'
      BY <1>1, <1>2, <2>1, <3>1, <3>2 DEF NcclDel, CountOk
    <3>5. BuffersOk(v)'
      BY <1>1, <2>1, <3>1 DEF NcclDel, BuffersOk, BroadcastOk
    <3> QED BY <3>3, <3>4, <3>5
  <2> QED BY <1>2, <1>4, <2>2 DEF NcclDel
<1> QED BY <1>5, <1>6

\* A worker's thread joins the broadcast, and receives its data.
LEMMA NcclThreadStep ==
  ASSUME TypeOK, LinksOk, NcclDel, backend = "nccl", backend' = backend,
         NEW w \in Workers, Nccl!Thread(w)
  PROVE  LinksOk' /\ NcclDel'
<1>0. /\ topic \in [Workers -> Seq(Buckets)] /\ op \in [Workers -> Ops]
      /\ bufs \in [Workers -> Pairs] /\ Nccl!Recv(w) = 1 - bufs[w].send
      /\ op0.stage \in {"new", "published", "done"}
      /\ 1 - bufs[w].send \in 0 .. 1 /\ bufs[w].send \in 0 .. 1
      /\ 1 - bufs[w].send # bufs[w].send
  <2>1. bufs[w].send \in 0 .. 1
    BY NcclNumbers
  <2> QED BY <2>1 DEF TypeOK, NcclTypes, Nccl!Recv, Nccl!Other
<1>1. UNCHANGED <<ipcVars, pack, buf0, op0, gen, meta>>
  BY DEF Nccl!Thread, Nccl!Join, Nccl!Arrive, Nccl!ipcVars, ipcVars, Nccl!senderVars
<1>2. LinksOk' /\ \A v \in Workers : PulledBy(v)' = PulledBy(v)
  <2>1. \A v \in Workers : Yielding(v)' = Yielding(v)
    BY <1>1 DEF Yielding
  <2> QED BY <1>1, <2>1, LinksStay
<1>3. PackOk(pack', buf0'[pack'.fill]) /\ BroadcastOk'
  BY <1>1 DEF NcclDel, BroadcastOk
<1>4. ASSUME NEW v \in Workers, v # w PROVE JoinOk(v)' /\ CountOk(v)' /\ BuffersOk(v)'
  <2>1. topic'[v] = topic[v] /\ op'[v] = op[v] /\ bufs'[v] = bufs[v]
    BY <1>0, <1>4 DEF Nccl!Thread, Nccl!Join, Nccl!Arrive, Nccl!senderVars
  <2>2. Known(v)' = Known(v)
    BY <1>1, <2>1 DEF Known
  <2>3. JoinOk(v)'
    BY <1>1, <2>1 DEF NcclDel, JoinOk
  <2> QED BY <1>1, <1>2, <2>1, <2>2, <2>3, WorkerStays DEF NcclDel
<1>5. \A q \in Seq(Tensors) : bufs' = [bufs EXCEPT ![w].data[1 - bufs[w].send] = q] =>
        /\ bufs'[w].send = bufs[w].send /\ bufs'[w].data[1 - bufs[w].send] = q
        /\ bufs'[w].data[bufs[w].send] = bufs[w].data[bufs[w].send]
  BY <1>0, PartTypes DEF Pairs
<1>6. CASE Nccl!Join(w)
  <2>1. /\ op[w].stage = "metadata" /\ topic[w] # <<>> /\ topic'[w] = Tail(topic[w])
        /\ op'[w].stage = "joined" /\ op'[w].bucket = Head(topic[w])
    BY <1>0, <1>6 DEF Nccl!Join, Ops
  <2>2. /\ op0.stage = "published" /\ op'[w].bucket = op0.bucket /\ topic'[w] = <<>>
        /\ ~AtLast(gen[w]) /\ (op0.bucket.last => pack.at # "pack")
    <3>1. /\ op0.stage = "published" /\ topic[w] = <<op0.bucket>>
          /\ ~AtLast(gen[w]) /\ (op0.bucket.last => pack.at # "pack")
      BY <2>1 DEF NcclDel, JoinOk, BroadcastOk
    <3>2. \A b : Head(<<b>>) = b /\ Tail(<<b>>) = <<>>
      OBVIOUS
    <3> QED BY <2>1, <3>1, <3>2
  <2>3. /\ bufs'[w].send = bufs[w].send
        /\ bufs'[w].data[bufs[w].send] = bufs[w].data[bufs[w].send]
    <3>1. <<>> \in Seq(Tensors) /\ bufs' = [bufs EXCEPT ![w].data[1 - bufs[w].send] = <<>>]
      BY <1>0, <1>6 DEF Nccl!Join
    <3> QED BY <1>5, <3>1
  <2>4. JoinOk(w)'
    BY <1>1, <2>1, <2>2 DEF JoinOk
  <2>5. /\ Known(w) = SentBy(pack) - Len(op0.bucket.tensors)
        /\ Known(w)' = SentBy(pack) /\ Turned(w)' = Turned(w)
    BY <1>1, <1>2, <2>1, <2>2 DEF Known, Turned
  <2>6. CountOk(w)'
    <3>1. Numbered(op0.bucket.tensors, SentBy(pack) - Len(op0.bucket.tensors))
      BY DEF NcclDel, BroadcastOk
    <3>2. Numbered(meta[w].bucket.tensors, PulledBy(w) - meta[w].yielded) /\ Turned(w) = Known(w)
      BY <2>1 DEF NcclDel, CountOk
    <3> QED BY <1>1, <1>2, <2>1, <2>2, <2>5, <3>1, <3>2 DEF CountOk
  <2>7. BuffersOk(w)'
    BY <1>1, <2>1, <2>3 DEF NcclDel, BuffersOk
  <2> QED BY <1>2, <1>3, <1>4, <2>4, <2>6, <2>7 DEF NcclDel
<1>7. CASE Nccl!Arrive(w)
  <2>1. /\ op[w].stage = "arriving" /\ topic' = topic /\ op'[w].stage = "done"
        /\ op'[w].bucket = op[w].bucket
    BY <1>0, <1>7 DEF Nccl!Arrive, Ops, Nccl!senderVars
  <2>2. /\ bufs'[w].send = bufs[w].send
        /\ bufs'[w].data[bufs[w].send] = bufs[w].data[bufs[w].send]
        /\ bufs'[w].data[1 - bufs[w].send] = op[w].data
    <3>1. op[w].data \in Seq(Tensors)
      BY NcclNumbers, PartTypes
    <3> QED BY <1>0, <1>5, <1>7, <3>1 DEF Nccl!Arrive
  <2>3. ~AtLast(gen[w])
    BY <2>1 DEF NcclDel, JoinOk
  <2>4. JoinOk(w)'
    BY <1>1, <2>1, <2>3 DEF NcclDel, JoinOk
  <2>5. Known(w)' = Known(w) /\ Turned(w)' = Turned(w)
    BY <1>1, <1>2, <2>1 DEF Known, Turned
  <2>6. CountOk(w)'
    BY <1>1, <1>2, <2>1, <2>3, <2>5 DEF NcclDel, CountOk
  <2>7. BuffersOk(w)'
    BY <1>1, <2>1, <2>2 DEF NcclDel, BuffersOk
  <2> QED BY <1>2, <1>3, <1>4, <2>4, <2>6, <2>7 DEF NcclDel
<1> QED BY <1>6, <1>7 DEF Nccl!Thread

\* A worker goes on to the bucket it has received.
LEMMA NcclTurnStep ==
  ASSUME TypeOK, NcclInv, LinksOk, NcclDel, backend = "nccl", backend' = backend,
         NEW w \in Workers, Nccl!NextBucket(w)
  PROVE  LinksOk' /\ NcclDel'
<1>0. /\ op \in [Workers -> Ops] /\ bufs \in [Workers -> Pairs]
      /\ meta \in [Workers -> Metas] /\ gen \in [Workers -> {"first", "yield", "last", "done"}]
      /\ bufs[w].send \in 0 .. 1
  BY NcclNumbers DEF TypeOK, NcclTypes
<1>1. UNCHANGED <<ipcVars, pack, buf0, op0, topic>>
  BY DEF Nccl!NextBucket, Nccl!ipcVars, ipcVars, Nccl!senderVars
<1>2. /\ op[w].stage = "done" /\ ipc[w] = "pull" /\ gen[w] \in {"first", "yield"}
      /\ gen[w] = "yield" => meta[w].yielded = Len(meta[w].bucket.tensors) /\ copies[w] = <<>>
      /\ meta'[w].bucket = op[w].bucket /\ meta'[w].yielded = 0
      /\ bufs'[w].send = 1 - bufs[w].send /\ bufs'[w].data = bufs[w].data
      /\ op'[w].bucket = op[w].bucket
      /\ IF op[w].bucket.last THEN gen'[w] = "last" /\ op'[w].stage = "done"
         ELSE gen'[w] = "yield" /\ op'[w].stage = "metadata"
  BY <1>0 DEF Nccl!NextBucket, Nccl!AllYielded, Nccl!ViewsCopied, Nccl!Synchronized, Nccl!Other,
              Ops, Pairs, Metas
<1>3. copies[w] = <<>> /\ ipc[w] # "full"
  BY <1>2 DEF NcclInv
<1>4. \A v \in Workers : v # w => /\ gen'[v] = gen[v] /\ meta'[v] = meta[v] /\ op'[v] = op[v]
                                  /\ bufs'[v] = bufs[v]
  BY <1>0 DEF Nccl!NextBucket
<1>5. LinksOk' /\ \A v \in Workers : PulledBy(v)' = PulledBy(v)
  <2>1. \A v \in Workers : v # w => Yielding(v)' = Yielding(v)
    BY <1>4 DEF Yielding
  <2> QED BY <1>1, <1>3, <2>1, LinksStay
<1>6. PackOk(pack', buf0'[pack'.fill]) /\ BroadcastOk' /\ \A v \in Workers : Known(v)' = Known(v)
  BY <1>1 DEF NcclDel, BroadcastOk, Known
<1>7. ASSUME NEW v \in Workers, v # w PROVE JoinOk(v)' /\ CountOk(v)' /\ BuffersOk(v)'
  <2>1. JoinOk(v)'
    BY <1>1, <1>4, <1>7 DEF NcclDel, JoinOk
  <2> QED BY <1>1, <1>4, <1>5, <1>6, <1>7, <2>1, WorkerStays DEF NcclDel
<1>8. JoinOk(w)'
  BY <1>1, <1>2 DEF NcclDel, JoinOk, AtLast
<1>9. CountOk(w)'
  <2> DEFINE q == op[w].bucket.tensors
             p == PulledBy(w)
  <2>1. /\ Numbered(q, Known(w) - Len(q)) /\ Turned(w) = Known(w) - Len(q)
    BY <1>2 DEF NcclDel, CountOk, AtLast
  <2>2. Turned(w) = p
    <3>1. meta[w].yielded = Len(meta[w].bucket.tensors)
      <4>1. CASE gen[w] = "first"
        <5>1. meta[w].bucket.tensors = <<>> /\ Len(<<>>) = 0
          BY <4>1 DEF NcclDel, BuffersOk
        <5> QED BY <5>1, NcclNumbers
      <4> QED BY <1>2, <4>1
    <3>2. p \in Int /\ Len(meta[w].bucket.tensors) \in Nat
      BY NcclNumbers
    <3> DEFINE m == Len(meta[w].bucket.tensors)
    <3>3. Turned(w) = p - m + m
      BY <3>1 DEF Turned
    <3> HIDE DEF p, m
    <3>4. p - m + m = p
      BY <3>2 DEF m
    <3> QED BY <3>3, <3>4
  <2>3. Len(q) \in Nat /\ Known(w) \in Int /\ p \in Int
    BY NcclNumbers
  <2>4. Turned(w)' = p - 0 + Len(q)
    BY <1>2, <1>5 DEF Turned
  <2>5. op'[w].stage = "metadata" \/ AtLast(gen'[w])
    BY <1>2 DEF AtLast
  <2> HIDE DEF q, p
  <2>6. Turned(w)' = Known(w) /\ p - 0 = Known(w) - Len(q)
    BY <2>1, <2>2, <2>3, <2>4
  <2>7. /\ op'[w].bucket.tensors = q /\ meta'[w].bucket.tensors = q
        /\ PulledBy(w)' - meta'[w].yielded = p - 0
    BY <1>2, <1>5 DEF q, p
  <2> QED BY <1>6, <2>1, <2>5, <2>6, <2>7 DEF CountOk
<1>10. BuffersOk(w)'
  <2>1. Has(bufs[w].data[1 - bufs[w].send], op[w].bucket.tensors)
    BY <1>2 DEF NcclDel, BuffersOk, AtLast
  <2> QED BY <1>2, <2>1 DEF BuffersOk, AtLast
<1> QED BY <1>5, <1>6, <1>7, <1>8, <1>9, <1>10 DEF NcclDel

\* A worker yields its bucket's tensors, and a copy finds them in send_buf.
LEMMA NcclYieldStep ==
  ASSUME TypeOK, NcclInv, LinksOk, NcclDel, backend = "nccl", backend' = backend,
         NEW w \in Workers,
         \/ NcclYields(w) \/ NcclEnds(w) \/ (IpcStep(w) /\ UNCHANGED ncclVars)
         \/ Nccl!RunCopy(w)
  PROVE  LinksOk' /\ NcclDel'
<1>0. /\ Source = Place /\ ~Own /\ meta \in [Workers -> Metas]
      /\ gen \in [Workers -> {"first", "yield", "last", "done"}]
      /\ \A v \in Workers : Yielding(v) = meta[v].bucket.tensors
  BY DEF Source, Own, TypeOK, NcclTypes, Yielding
<1>1. UNCHANGED <<pack, buf0, op0, topic, bufs, op>>
  BY DEF NcclYields, NcclEnds, ncclVars, Nccl!RunCopy, Nccl!senderVars, Nccl!receiverVars
<1>2. PackOk(pack', buf0'[pack'.fill]) /\ BroadcastOk' /\ \A v \in Workers : Known(v)' = Known(v)
  BY <1>1 DEF NcclDel, BroadcastOk, Known
<1>3. ASSUME LinksOk', \A v \in Workers : PulledBy(v)' = PulledBy(v) /\ gen'[v] = gen[v]
                                                              /\ meta'[v] = meta[v]
      PROVE  NcclDel'
  <2>1. ASSUME NEW v \in Workers PROVE JoinOk(v)' /\ CountOk(v)' /\ BuffersOk(v)'
    <3>1. JoinOk(v)'
      BY <1>1, <1>3 DEF NcclDel, JoinOk
    <3> QED BY <1>1, <1>2, <1>3, <3>1, WorkerStays DEF NcclDel
  <2> QED BY <1>2, <2>1 DEF NcclDel
<1>4. CASE IpcStep(w) /\ UNCHANGED ncclVars
  <2>1. UNCHANGED <<gen, meta>> /\ \A v \in Workers : Yielding(v)' = Yielding(v)
    BY <1>4 DEF ncclVars, Yielding
  <2>2. LinksOk' /\ \A v \in Workers : PulledBy(v)' = PulledBy(v)
    BY <1>4, <2>1, LinksMove DEF LinkMoves
  <2> QED BY <1>3, <2>1, <2>2
<1>5. CASE Nccl!RunCopy(w)
  <2> DEFINE from == Head(copies[w]).from
             value == At(bufs[w].data[from.buf], from.place)
  <2>1. /\ copies[w] # <<>> /\ UNCHANGED <<gen, meta>>
        /\ Nccl!Copy(w, value)
    BY <1>5 DEF Nccl!RunCopy, Nccl!senderVars, Nccl!receiverVars, Nccl!At, At
  <2>2. from.buf = bufs[w].send
    <3>1. copies[w] \in Seq(Copies)
      BY LinkTypes
    <3>2. 1 \in 1 .. Len(copies[w]) /\ Head(copies[w]) = copies[w][1]
      BY <2>1, <3>1
    <3> QED BY <3>2 DEF NcclInv, FromBuf
  <2>3. value = Found(Own, Yielding(w), from)
    <3>1. Has(bufs[w].data[bufs[w].send], Yielding(w)) /\ Yielding(w) \in Seq(Tensors)
      BY <1>0, NcclNumbers DEF NcclDel, BuffersOk
    <3> QED BY <1>0, <2>1, <2>2, <3>1, CopyFinds DEF LinksOk
  <2>4. value \in Nat
    <3>1. value \in Tensors
      BY <2>1, <2>3, HeadFound DEF LinksOk
    <3> QED BY <3>1 DEF Tensors
  <2> HIDE DEF value
  <2>5. Copied(w)
    BY <2>1, <2>4, NcclLink
  <2>6. ipcBuf' = [ipcBuf EXCEPT ![w] = Written(@, Head(copies[w]).to, value)]
    BY <2>1 DEF Nccl!Copy, Nccl!Written, Written
  <2>7. CopiesFound(w)
    BY <2>3, <2>5, <2>6 DEF CopiesFound
  <2>8. \A v \in Workers : Yielding(v)' = Yielding(v)
    BY <2>1 DEF Yielding
  <2>9. LinksOk' /\ \A v \in Workers : PulledBy(v)' = PulledBy(v)
    BY <2>7, <2>8, LinksMove DEF LinkMoves
  <2> QED BY <1>3, <2>1, <2>9
<1>6. CASE NcclEnds(w)
  <2>1. /\ gen[w] = "last" /\ meta[w].yielded = Len(meta[w].bucket.tensors) /\ PullEnds(w)
        /\ gen'[w] = "done" /\ meta' = meta /\ \A v \in Workers : v # w => gen'[v] = gen[v]
    BY <1>0, <1>6 DEF NcclEnds
  <2>2. PulledBy(w) = NumTensors
    <3>1. /\ op[w].bucket.last /\ pack.at # "pack" /\ op0.stage # "new" /\ topic[w] = <<>>
      BY <2>1 DEF NcclDel, JoinOk, AtLast
    <3>2. pack.next = NumTensors + 1 /\ Known(w) = pack.next - 1
      BY <3>1 DEF NcclDel, PackOk, Known, SentBy
    <3>3. Turned(w) = Known(w)
      BY <2>1 DEF NcclDel, CountOk, AtLast
    <3>4. Turned(w) = PulledBy(w)
      <4> DEFINE p == PulledBy(w)
      <4>1. p \in Int /\ Len(meta[w].bucket.tensors) \in Nat
        BY NcclNumbers
      <4> HIDE DEF p
      <4> QED BY <2>1, <4>1 DEF Turned, p
    <3> QED BY <3>2, <3>3, <3>4, NcclNumbers
  <2>3. \A v \in Workers : Yielding(v)' = Yielding(v)
    BY <2>1 DEF Yielding
  <2>4. LinksOk' /\ \A v \in Workers : PulledBy(v)' = PulledBy(v)
    BY <2>1, <2>2, <2>3, LinksMove DEF LinkMoves
  <2>5. ASSUME NEW v \in Workers PROVE JoinOk(v)' /\ CountOk(v)' /\ BuffersOk(v)'
    <3>1. AtLast(gen'[v]) <=> AtLast(gen[v])
      BY <2>1 DEF AtLast
    <3>2. gen'[v] = "first" => gen[v] = "first"
      BY <2>1
    <3>3. Turned(v)' = Turned(v)
      BY <2>1, <2>4 DEF Turned
    <3>4. JoinOk(v)' /\ BuffersOk(v)'
      BY <1>1, <2>1, <3>1, <3>2 DEF NcclDel, JoinOk, BuffersOk
    <3>5. CountOk(v)'
      BY <1>1, <1>2, <2>1, <2>4, <3>1, <3>3 DEF NcclDel, CountOk
    <3> QED BY <3>4, <3>5
  <2> QED BY <1>2, <2>4, <2>5 DEF NcclDel
<1>7. CASE NcclYields(w)
  <2> DEFINE q == meta[w].bucket.tensors
             y == meta[w].yielded
             t == q[y + 1]
             from == [buf |-> bufs[w].send, place |-> y + 1]
             p == PulledBy(w)
  <2>1. /\ q \in Seq(Tensors) /\ Len(q) \in Nat /\ y \in Nat /\ y + 1 \in 1 .. Len(q)
        /\ bufs[w].send \in 0 .. 1 /\ p \in Int
    <3>1. /\ q \in Seq(Tensors) /\ Len(q) \in Nat /\ y \in 0 .. Len(q)
          /\ bufs[w].send \in 0 .. 1 /\ p \in Int
      BY NcclNumbers
    <3>2. y < Len(q)
      BY <1>7 DEF NcclYields
    <3> HIDE DEF q, y, p
    <3> QED BY <3>1, <3>2
  <2>2. /\ Pulls(w, t, from) /\ gen' = gen /\ meta'[w].bucket = meta[w].bucket
        /\ meta'[w].yielded = y + 1 /\ \A v \in Workers : v # w => meta'[v] = meta[v]
    BY <1>0, <1>7 DEF NcclYields, Metas
  <2>3. t \in Tensors /\ from \in Source
    BY <1>0, <2>1 DEF Place
  <2>4. Found(Own, Yielding(w), from) = t
    BY <1>0, <2>1 DEF Found, At
  <2>5. t = p + 1
    <3>1. Numbered(q, p - y)
      BY DEF NcclDel, CountOk
    <3> HIDE DEF q, y, p
    <3>2. q[y + 1] = p - y + (y + 1)
      BY <2>1, <3>1 DEF Numbered
    <3> QED BY <2>1, <3>2
  <2> HIDE DEF t, from
  <2>6. PullsNext(w)
    BY <2>2, <2>3, <2>4, <2>5 DEF PullsNext, p
  <2>7. \A v \in Workers : Yielding(v)' = Yielding(v)
    BY <2>2 DEF Yielding
  <2>8. /\ LinksOk' /\ PulledBy(w)' = p + 1
        /\ \A v \in Workers : v # w => PulledBy(v)' = PulledBy(v)
    BY <2>6, <2>7, LinksPull
  <2>9. ASSUME NEW v \in Workers, v # w PROVE JoinOk(v)' /\ CountOk(v)' /\ BuffersOk(v)'
    <3>1. JoinOk(v)'
      BY <1>1, <2>2 DEF NcclDel, JoinOk
    <3> QED BY <1>1, <1>2, <2>2, <2>8, <2>9, <3>1, WorkerStays DEF NcclDel
  <2>10. JoinOk(w)' /\ BuffersOk(w)'
    BY <1>1, <2>2 DEF NcclDel, JoinOk, BuffersOk
  <2>11. CountOk(w)'
    <3>1. PulledBy(w)' - meta'[w].yielded = PulledBy(w) - meta[w].yielded
      <4> HIDE DEF p, y
      <4>1. (p + 1) - (y + 1) = p - y
        BY <2>1
      <4> QED BY <2>2, <2>8, <4>1 DEF p, y
    <3>2. Turned(w)' = Turned(w)
      BY <2>2, <3>1 DEF Turned
    <3> QED BY <1>1, <1>2, <2>2, <3>1, <3>2 DEF NcclDel, CountOk
  <2> QED BY <1>2, <2>8, <2>9, <2>10, <2>11 DEF NcclDel
<1> QED BY <1>4, <1>5, <1>6, <1>7

-----------------------------------------------------------------------------
(* The chain.                                                              *)

\* Tensors of the buckets a worker has yielded or yields.
ChainEnd(w) == PulledBy(w) - chainMeta[w].yielded + Len(chainMeta[w].tensors)

\* Tensors of the buckets rank r has announced, and whether those are all.
SentEnd(r) == IF r = 0 THEN SentBy(chainPack) ELSE ChainEnd(r)
SentLast(r) == IF r = 0 THEN chainPack.at # "pack" ELSE AtLast(chainGen[r])

\* Tensors of the bucket a worker reads or has read, and of the announced one.
ReadLen(w) == IF read[w].stage # "none" THEN Len(read[w].tensors) ELSE 0
MsgLen(w) == IF messages[w] # <<>> THEN Len(messages[w][1].tensors) ELSE 0

\* The bucket a worker yields, the one it reads and the one announced to it
\* come one after the other, and the last of these is the last the rank
\* before it has sent.
ChainOk(w) ==
  /\ Numbered(chainMeta[w].tensors, PulledBy(w) - chainMeta[w].yielded)
  /\ ChainEnd(w) + ReadLen(w) + MsgLen(w) = SentEnd(w - 1)
  /\ read[w].stage # "none" => /\ Numbered(read[w].tensors, ChainEnd(w))
                               /\ read[w].last => SentLast(w - 1) /\ messages[w] = <<>>
  /\ messages[w] # <<>> => /\ Numbered(messages[w][1].tensors, ChainEnd(w) + ReadLen(w))
                           /\ messages[w][1].last => SentLast(w - 1)
  /\ AtLast(chainGen[w]) =>
       ChainEnd(w) = NumTensors /\ messages[w] = <<>> /\ SentLast(w - 1)

\* They are in the buffers.
HoldOk(w) ==
  /\ Has(data[w][chainMeta[w].send], chainMeta[w].tensors)
  /\ read[w].stage = "done" => Has(data[w][1 - chainMeta[w].send], read[w].tensors)
  /\ read[w].stage = "reading" => Has(data[w - 1][read[w].from], read[w].tensors)
  /\ messages[w] # <<>> => Has(data[w - 1][messages[w][1].from], messages[w][1].tensors)

\* A worker has a read operation from the announcement to its next bucket.
StageOk(w) ==
  /\ chainGen[w] \in {"firstRead", "yield"} <=> read[w].stage # "none"
  /\ chainGen[w] \in {"first", "firstRead"} => chainMeta[w].tensors = <<>>

\* All of it, in the chain.
NixlDel ==
  /\ PackOk(chainPack, data[0][chainPack.fill])
  /\ \A w \in Workers : ChainOk(w) /\ HoldOk(w) /\ StageOk(w)

\* The numbers of the chain, and its buckets.
LEMMA NixlNumbers ==
  ASSUME TypeOK
  PROVE  /\ N \in Nat \ {0} /\ Workers = 1 .. N /\ NumTensors \in Nat
         /\ SentBy(chainPack) \in Int /\ chainPack.next \in 1 .. NumTensors + 1
         /\ chainPack.fill \in 0 .. 1 /\ chainPack.meta \in Seq(Tensors)
         /\ Len(chainPack.meta) \in Nat
         /\ \A w \in Workers :
              /\ PulledBy(w) \in Int /\ ChainEnd(w) \in Int
              /\ chainMeta[w] \in ChainMetas /\ read[w] \in Reads
              /\ messages[w] \in Seq(Messages) /\ Len(messages[w]) \in Nat
              /\ chainMeta[w].tensors \in Seq(Tensors) /\ Len(chainMeta[w].tensors) \in Nat
              /\ chainMeta[w].yielded \in 0 .. Len(chainMeta[w].tensors)
              /\ chainMeta[w].send \in 0 .. 1
              /\ read[w].tensors \in Seq(Tensors) /\ Len(read[w].tensors) \in Nat
              /\ ReadLen(w) \in Nat /\ MsgLen(w) \in Nat
<1>0. NixlTypes /\ N \in Nat \ {0} /\ Workers = 1 .. N /\ NumTensors \in Nat
  BY WorkersAre, TransferAssumption DEF TypeOK
<1>1. /\ chainPack.next \in 1 .. NumTensors + 1 /\ chainPack.meta \in Seq(Tensors)
      /\ chainPack.fill \in 0 .. 1 /\ Len(chainPack.meta) \in Nat
  BY <1>0 DEF NixlTypes, Packs
<1>2. SentBy(chainPack) \in Int
  BY <1>0, <1>1 DEF SentBy
<1>3. ASSUME NEW w \in Workers
      PROVE  /\ PulledBy(w) \in Int /\ ChainEnd(w) \in Int
             /\ chainMeta[w] \in ChainMetas /\ read[w] \in Reads
             /\ messages[w] \in Seq(Messages) /\ Len(messages[w]) \in Nat
             /\ chainMeta[w].tensors \in Seq(Tensors) /\ Len(chainMeta[w].tensors) \in Nat
             /\ chainMeta[w].yielded \in 0 .. Len(chainMeta[w].tensors)
             /\ chainMeta[w].send \in 0 .. 1
             /\ read[w].tensors \in Seq(Tensors) /\ Len(read[w].tensors) \in Nat
             /\ ReadLen(w) \in Nat /\ MsgLen(w) \in Nat
  <2>1. /\ chainMeta[w] \in ChainMetas /\ read[w] \in Reads /\ messages[w] \in Seq(Messages)
        /\ chainMeta[w].yielded <= Len(chainMeta[w].tensors)
    BY <1>0 DEF NixlTypes
  <2>2. /\ chainMeta[w].tensors \in Seq(Tensors) /\ Len(chainMeta[w].tensors) \in Nat
        /\ chainMeta[w].yielded \in Nat /\ chainMeta[w].send \in 0 .. 1
        /\ read[w].tensors \in Seq(Tensors) /\ Len(read[w].tensors) \in Nat
        /\ Len(messages[w]) \in Nat
    BY <2>1, ChainPartTypes
  <2>3. PulledBy(w) \in Int
    BY LinkTypes
  <2>4. ChainEnd(w) \in Int
    <3> DEFINE p == PulledBy(w)
    <3> HIDE DEF p
    <3>1. p \in Int
      BY <2>3 DEF p
    <3>2. ChainEnd(w) = p - chainMeta[w].yielded + Len(chainMeta[w].tensors)
      BY DEF ChainEnd, p
    <3> QED BY <2>2, <3>1, <3>2
  <2>5. ReadLen(w) \in Nat
    BY <2>2 DEF ReadLen
  <2>6. MsgLen(w) \in Nat
    <3>1. CASE messages[w] # <<>>
      <4>1. messages[w][1] \in Messages
        BY <2>1, <3>1
      <4>2. messages[w][1].tensors \in Seq(Tensors)
        BY <4>1, ChainPartTypes
      <4>3. Len(messages[w][1].tensors) \in Nat
        BY <4>2
      <4> QED BY <3>1, <4>3 DEF MsgLen
    <3> QED BY <3>1 DEF MsgLen
  <2> QED BY <2>1, <2>2, <2>3, <2>4, <2>5, <2>6
<1> QED BY <1>0, <1>1, <1>2, <1>3

\* A rank that has sent its last bucket has sent all the tensors.
LEMMA LastIsAll ==
  ASSUME TypeOK, NixlDel, NEW w \in Workers, SentLast(w - 1)
  PROVE  SentEnd(w - 1) = NumTensors
<1>0. N \in Nat \ {0} /\ Workers = 1 .. N /\ NumTensors \in Nat
      /\ chainPack.next \in 1 .. NumTensors + 1
  BY NixlNumbers
<1>1. CASE w - 1 = 0
  BY <1>0, <1>1 DEF SentLast, SentEnd, SentBy, NixlDel, PackOk
<1>2. CASE w - 1 # 0
  <2>1. w - 1 \in Workers
    BY <1>0, <1>2
  <2> QED BY <1>2, <2>1 DEF SentLast, SentEnd, NixlDel, ChainOk
<1> QED BY <1>1, <1>2

\* The counts of a worker nothing happens to, nor to the rank before it.
LEMMA ChainStays ==
  ASSUME NEW v \in Workers, chainMeta'[v] = chainMeta[v], read'[v] = read[v],
         messages'[v] = messages[v], AtLast(chainGen'[v]) <=> AtLast(chainGen[v]),
         PulledBy(v)' = PulledBy(v),
         SentEnd(v - 1)' = SentEnd(v - 1), SentLast(v - 1) => SentLast(v - 1)',
         ChainOk(v)
  PROVE  ChainOk(v)'
<1>1. ChainEnd(v)' = ChainEnd(v) /\ ReadLen(v)' = ReadLen(v) /\ MsgLen(v)' = MsgLen(v)
  BY DEF ChainEnd, ReadLen, MsgLen
<1> QED BY <1>1 DEF ChainOk

\* Rank 0 packs its tensors and announces them.
LEMMA NixlSenderStep ==
  ASSUME TypeOK, NixlInv, LinksOk, NixlDel, backend = "nixl", backend' = backend,
         Nixl!BuildProcessGroup \/ Nixl!Sender
  PROVE  LinksOk' /\ NixlDel'
<1>0. /\ chainPack \in Packs /\ Nixl!Tensors = Tensors
      /\ data \in [0 .. N -> [0 .. 1 -> Seq(Tensors)]]
      /\ messages \in [Workers -> Seq(Messages)]
  BY DEF TypeOK, NixlTypes, Nixl!Tensors, Tensors
<1>n. N \in Nat \ {0} /\ Workers = 1 .. N /\ 0 \in 0 .. N
  BY WorkersAre
<1>1. UNCHANGED <<ipcVars, chainGen, chainMeta, read>>
  BY DEF Nixl!BuildProcessGroup, Nixl!Sender, Nixl!Pack, Nixl!RunPack, Nixl!SendPacked,
         Nixl!Return, Nixl!ipcVars, ipcVars
<1>2. LinksOk' /\ \A v \in Workers : PulledBy(v)' = PulledBy(v)
  <2>1. \A v \in Workers : Yielding(v)' = Yielding(v)
    BY <1>1 DEF Yielding
  <2> QED BY <1>1, <2>1, LinksStay
<1>3. \A v \in Workers : ChainEnd(v)' = ChainEnd(v) /\ ReadLen(v)' = ReadLen(v) /\ StageOk(v)'
  BY <1>1, <1>2 DEF NixlDel, ChainEnd, ReadLen, StageOk
<1>4. \A v \in Workers : v # 1 => /\ v - 1 \in Workers /\ v - 1 # 0
                                  /\ SentEnd(v - 1)' = SentEnd(v - 1)
                                  /\ SentLast(v - 1)' = SentLast(v - 1)
  <2>1. \A v \in Workers : v # 1 => v - 1 \in Workers /\ v - 1 # 0
    BY <1>n
  <2> QED BY <1>1, <1>3, <2>1 DEF SentEnd, SentLast
<1>5. ASSUME messages' = messages, SentBy(chainPack') = SentBy(chainPack),
             chainPack.at # "pack" => chainPack'.at # "pack"
      PROVE  \A v \in Workers : ChainOk(v)'
  <2>1. \A v \in Workers : /\ SentEnd(v - 1)' = SentEnd(v - 1)
                           /\ SentLast(v - 1) => SentLast(v - 1)'
    <3>1. \A v \in Workers : v - 1 = 0 => v = 1
      BY <1>n
    <3> QED BY <1>4, <1>5, <3>1 DEF SentEnd, SentLast
  <2> QED BY <1>1, <1>2, <1>5, <2>1, ChainStays DEF NixlDel
<1>6. ASSUME data' = data, messages' = messages PROVE \A v \in Workers : HoldOk(v)'
  BY <1>1, <1>6 DEF NixlDel, HoldOk
<1>7. CASE Nixl!BuildProcessGroup
  <2>1. UNCHANGED <<chainPack, data, messages>>
    BY <1>7 DEF Nixl!BuildProcessGroup
  <2> QED BY <1>2, <1>3, <1>5, <1>6, <2>1 DEF NixlDel
<1>8. CASE Nixl!Return
  <2>1. /\ chainPack.at = "last" /\ chainPack'.at = "done" /\ chainPack'.next = chainPack.next
        /\ UNCHANGED <<data, messages>>
    BY <1>0, <1>8 DEF Nixl!Return, Packs
  <2>2. SentBy(chainPack') = SentBy(chainPack) /\ PackOk(chainPack', data'[0][chainPack'.fill])
    BY <2>1 DEF SentBy, NixlDel, PackOk
  <2> QED BY <1>2, <1>3, <1>5, <1>6, <2>1, <2>2 DEF NixlDel
<1>9. CASE Nixl!Pack
  <2>1. /\ chainPack.at = "pack" /\ chainPack.next \in Tensors /\ UNCHANGED <<data, messages>>
        /\ chainPack' = [chainPack EXCEPT
                           !.next = @ + 1, !.meta = Append(@, chainPack.next),
                           !.copies = Append(@, [tensor |-> chainPack.next,
                                                 buf |-> chainPack.fill,
                                                 first |-> chainPack.meta = <<>>])]
    BY <1>0, <1>9 DEF Nixl!Pack
  <2>2. /\ PackOk(chainPack', data[0][chainPack.fill]) /\ SentBy(chainPack') = SentBy(chainPack)
        /\ chainPack'.at = "pack" /\ chainPack'.fill = chainPack.fill
    <3>1. PackOk(chainPack, data[0][chainPack.fill])
      BY DEF NixlDel
    <3> DEFINE p == chainPack
               p2 == chainPack'
               buf == data[0][chainPack.fill]
    <3>2. /\ p \in Packs /\ p.at = "pack" /\ p.next \in Tensors /\ PackOk(p, buf)
          /\ p2 = [p EXCEPT !.next = @ + 1, !.meta = Append(@, p.next),
                            !.copies = Append(@, [tensor |-> p.next, buf |-> p.fill,
                                                  first |-> p.meta = <<>>])]
      BY <1>0, <2>1, <3>1
    <3> HIDE DEF p, p2, buf
    <3>3. PackOk(p2, buf) /\ SentBy(p2) = SentBy(p) /\ p2.at = "pack" /\ p2.fill = p.fill
      BY ONLY <3>2, PackNext
    <3> QED BY <3>3 DEF p, p2, buf
  <2> QED BY <1>2, <1>3, <1>5, <1>6, <2>1, <2>2 DEF NixlDel
<1>11. CASE Nixl!RunPack
  <2> DEFINE c == Head(chainPack.copies)
             new == Append(IF c.first THEN <<>> ELSE data[0][chainPack.fill], c.tensor)
  <2>1. /\ chainPack.copies # <<>> /\ messages' = messages
        /\ chainPack' = [chainPack EXCEPT !.copies = Tail(@)]
        /\ data' = [data EXCEPT ![0][c.buf] = Append(IF c.first THEN <<>> ELSE @, c.tensor)]
    BY <1>0, <1>11 DEF Nixl!RunPack
  <2>2. /\ PackOk(chainPack', new) /\ SentBy(chainPack') = SentBy(chainPack)
        /\ chainPack.at = "pack" /\ chainPack'.at = "pack" /\ chainPack'.fill = chainPack.fill
        /\ c.buf = chainPack.fill
    <3>1. /\ data[0][chainPack.fill] \in Seq(Tensors) /\ QueueOk(chainPack)
          /\ PackOk(chainPack, data[0][chainPack.fill])
      BY <1>0, <1>n, NixlNumbers DEF NixlInv, NixlDel
    <3> QED BY <1>0, <2>1, <3>1, PackRun
  <2> HIDE DEF c
  <2>3. /\ data'[0][chainPack.fill] = new
        /\ \A b \in 0 .. 1 : b # chainPack.fill => data'[0][b] = data[0][b]
        /\ \A r \in 0 .. N : r # 0 => data'[r] = data[r]
    BY <1>0, <1>n, <2>1, <2>2, NixlNumbers
  <2> HIDE DEF new
  <2>4. ASSUME NEW v \in Workers PROVE HoldOk(v)'
    <3>1. data'[v] = data[v] /\ messages[v] \in Seq(Messages) /\ read[v] \in Reads
      BY <1>n, <2>3, NixlNumbers
    <3>2. CASE v # 1
      <4>1. data'[v - 1] = data[v - 1]
        BY <1>n, <2>3, <3>2
      <4> QED BY <1>1, <2>1, <3>1, <4>1 DEF NixlDel, HoldOk
    <3>3. CASE v = 1
      <4>0. v - 1 = 0 /\ Sent(v) = 1 - chainPack.fill /\ chainPack.fill \in 0 .. 1
            /\ 1 - chainPack.fill \in 0 .. 1 /\ 1 - chainPack.fill # chainPack.fill
        BY <3>3, NixlNumbers DEF Sent
      <4>1. read[v].stage = "reading" => data'[0][read[v].from] = data[0][read[v].from]
        BY <2>2, <2>3, <4>0 DEF NixlInv, FromSent
      <4>2. messages[v] # <<>> => data'[0][messages[v][1].from] = data[0][messages[v][1].from]
        BY <2>2, <2>3, <4>0 DEF NixlInv, FromSent
      <4> QED BY <1>1, <2>1, <3>1, <4>0, <4>1, <4>2 DEF NixlDel, HoldOk
    <3> QED BY <3>2, <3>3
  <2>5. \A v \in Workers : ChainOk(v)'
    BY <1>5, <2>1, <2>2
  <2> QED BY <1>2, <1>3, <2>2, <2>3, <2>4, <2>5 DEF NixlDel
<1>10. CASE Nixl!SendPacked
  <2>1. /\ N # 1 /\ 1 \in Workers /\ readable[0] # "announced" /\ chainPack.at = "pack"
        /\ data' = data /\ chainPack.copies = <<>>
    BY <1>n, <1>10 DEF Nixl!SendPacked, Nixl!Packed, Nixl!ReadByNext, NixlInv
  <2> DEFINE m == [from |-> chainPack.fill, tensors |-> chainPack.meta,
                   last |-> chainPack.next \notin Nixl!Tensors]
             k == Len(chainPack.meta)
  <2>2. messages' = [messages EXCEPT ![1] = Append(@, m)]
    <3>1. 0 \in 0 .. N /\ 0 # N /\ 0 + 1 = 1
      BY <1>n
    <3> QED BY <1>10, <2>1, <3>1, AnnounceIs DEF Nixl!SendPacked
  <2>3. /\ m.from = chainPack.fill /\ m.tensors = chainPack.meta
        /\ m.last <=> chainPack.next \notin Tensors
    BY <1>0
  <2> HIDE DEF m
  <2>4. messages[1] = <<>> /\ read[1].stage # "reading"
    <3>1. Flight(1) /\ 1 - 1 = 0
      BY <2>1 DEF NixlInv
    <3> QED BY <2>1, <3>1 DEF Flight
  <2>5. /\ messages'[1] # <<>> /\ messages'[1][1] = m
        /\ \A v \in Workers : v # 1 => messages'[v] = messages[v]
    <3>1. messages'[1] = <<m>>
      BY <1>0, <2>1, <2>2, <2>4
    <3>2. <<m>> # <<>> /\ <<m>>[1] = m
      OBVIOUS
    <3>3. \A v \in Workers : v # 1 => messages'[v] = messages[v]
      BY <1>0, <2>1, <2>2
    <3> QED BY <3>1, <3>2, <3>3
  <2>6. IF chainPack.next \in Tensors THEN /\ chainPack'.at = "pack" /\ chainPack'.meta = <<>>
                                           /\ chainPack'.next = chainPack.next
                                           /\ chainPack'.copies = chainPack.copies
        ELSE chainPack'.at = "last" /\ chainPack'.next = chainPack.next
    BY <1>0, <1>10 DEF Nixl!SendPacked, Packs
  <2>7. /\ SentBy(chainPack') = SentBy(chainPack) + k /\ k \in Nat
        /\ Numbered(chainPack.meta, SentBy(chainPack))
        /\ Has(data[0][chainPack.fill], chainPack.meta)
    <3>1. k \in Nat /\ chainPack.next \in Nat /\ Len(<<>>) = 0
      BY NixlNumbers
    <3>2. SentBy(chainPack) = chainPack.next - 1 - k /\ SentBy(chainPack') = chainPack.next - 1
      BY <2>1, <2>6, <3>1 DEF SentBy
    <3> HIDE DEF k
    <3>3. Numbered(chainPack.meta, SentBy(chainPack))
          /\ Queued(<<>>, chainPack.meta, data[0][chainPack.fill])
      BY <2>1 DEF NixlDel, PackOk
    <3>4. chainPack.meta \in Seq(Tensors) /\ data[0][chainPack.fill] \in Seq(Tensors)
      BY <1>0, <1>n, NixlNumbers
    <3>5. Has(data[0][chainPack.fill], chainPack.meta)
      BY <3>3, <3>4, QueuedAll
    <3> QED BY <3>1, <3>2, <3>3, <3>5
  <2>8. PackOk(chainPack', data'[0][chainPack'.fill])
    <3>1. CASE chainPack.next \in Tensors
      <4>1. \A buf : Queued(<<>>, <<>>, buf)
        BY DEF Queued
      <4> QED BY <2>1, <2>6, <3>1, <4>1 DEF PackOk, Numbered
    <3>2. CASE chainPack.next \notin Tensors
      <4>1. chainPack.next = NumTensors + 1
        BY <3>2, NixlNumbers DEF Tensors
      <4> QED BY <2>6, <3>2, <4>1 DEF PackOk
    <3> QED BY <3>1, <3>2
  <2>9. ASSUME NEW v \in Workers, v # 1 PROVE ChainOk(v)' /\ HoldOk(v)'
    <3>1. messages'[v] = messages[v]
      BY <2>5, <2>9
    <3>2. ChainOk(v)'
      BY <1>1, <1>2, <1>4, <2>9, <3>1, ChainStays DEF NixlDel
    <3> QED BY <1>1, <2>1, <3>1, <3>2 DEF NixlDel, HoldOk
  <2>10. ChainOk(1)'
    <3>0. /\ 1 - 1 = 0 /\ ~SentLast(0)
          /\ SentEnd(0) = SentBy(chainPack) /\ SentEnd(0)' = SentBy(chainPack')
      BY <2>1 DEF SentLast, SentEnd
    <3>1. /\ Numbered(chainMeta[1].tensors, PulledBy(1) - chainMeta[1].yielded)
          /\ ChainEnd(1) + ReadLen(1) + MsgLen(1) = SentBy(chainPack)
          /\ read[1].stage # "none" => Numbered(read[1].tensors, ChainEnd(1)) /\ ~read[1].last
          /\ ~AtLast(chainGen[1])
      BY <2>1, <3>0 DEF NixlDel, ChainOk
    <3>2. MsgLen(1) = 0 /\ MsgLen(1)' = k
      BY <2>3, <2>4, <2>5 DEF MsgLen
    <3>3. ChainEnd(1) \in Int /\ ReadLen(1) \in Nat
      BY <2>1, NixlNumbers
    <3> DEFINE e == ChainEnd(1)
               r == ReadLen(1)
    <3>4. e + r = SentBy(chainPack) /\ e + r + k = SentBy(chainPack')
      <4>1. e + r + 0 = SentBy(chainPack) /\ e \in Int /\ r \in Nat
        BY <3>1, <3>2, <3>3
      <4> HIDE DEF e, r, k
      <4> QED BY <2>7, <4>1
    <3>5. ChainEnd(1)' + ReadLen(1)' + MsgLen(1)' = SentEnd(1 - 1)'
      BY <1>3, <2>1, <3>0, <3>2, <3>4
    <3>6. Numbered(messages'[1][1].tensors, ChainEnd(1)' + ReadLen(1)')
      BY <1>3, <2>1, <2>3, <2>5, <2>7, <3>4
    <3>7. messages'[1][1].last => SentLast(1 - 1)'
      BY <2>3, <2>5, <2>6, <3>0 DEF SentLast
    <3> QED BY <1>1, <1>2, <1>3, <2>1, <3>1, <3>5, <3>6, <3>7 DEF ChainOk
  <2>11. HoldOk(1)'
    <3>1. 1 - 1 = 0
      OBVIOUS
    <3> QED BY <1>1, <2>1, <2>3, <2>4, <2>5, <2>7, <3>1 DEF NixlDel, HoldOk
  <2> QED BY <1>2, <1>3, <2>8, <2>9, <2>10, <2>11 DEF NixlDel
<1> QED BY <1>7, <1>8, <1>9, <1>10, <1>11 DEF Nixl!Sender

\* A step that lets the ranks have sent what they had sent.
LEMMA ChainsStay ==
  ASSUME TypeOK, NixlDel, chainPack' = chainPack, NEW w \in Workers,
         \A v \in Workers : /\ ChainEnd(v)' = ChainEnd(v)
                            /\ AtLast(chainGen'[v]) <=> AtLast(chainGen[v]),
         \A v \in Workers : v # w => /\ PulledBy(v)' = PulledBy(v)
                                     /\ chainMeta'[v] = chainMeta[v] /\ read'[v] = read[v]
                                     /\ messages'[v] = messages[v]
  PROVE  \A v \in Workers : /\ SentEnd(v - 1)' = SentEnd(v - 1)
                            /\ (SentLast(v - 1)' <=> SentLast(v - 1))
                            /\ v # w => ChainOk(v)'
<1>1. ASSUME NEW v \in Workers
      PROVE  SentEnd(v - 1)' = SentEnd(v - 1) /\ (SentLast(v - 1)' <=> SentLast(v - 1))
  <2>1. CASE v - 1 = 0
    BY <2>1 DEF SentEnd, SentLast
  <2>2. CASE v - 1 # 0
    <3>1. v - 1 \in Workers
      BY <2>2, NixlNumbers
    <3> QED BY <2>2, <3>1 DEF SentEnd, SentLast
  <2> QED BY <2>1, <2>2
<1>2. ASSUME NEW v \in Workers, v # w PROVE ChainOk(v)'
  BY <1>1, <1>2, ChainStays DEF NixlDel
<1> QED BY <1>1, <1>2

\* A worker starts to read the announced bucket.
LEMMA NixlReadStep ==
  ASSUME TypeOK, NixlInv, LinksOk, NixlDel, backend = "nixl", backend' = backend,
         NEW w \in Workers, Nixl!BeginRead(w)
  PROVE  LinksOk' /\ NixlDel'
<1>0. /\ data \in [0 .. N -> [0 .. 1 -> Seq(Tensors)]]
      /\ messages \in [Workers -> Seq(Messages)] /\ read \in [Workers -> Reads]
      /\ chainGen \in [Workers -> {"first", "firstRead", "next", "yield", "last", "done"}]
  BY DEF TypeOK, NixlTypes
<1>n. /\ N \in Nat \ {0} /\ Workers = 1 .. N /\ \A v \in Workers : v \in 0 .. N /\ v - 1 \in 0 .. N
      /\ \A v \in Workers : v # 1 => v - 1 \in Workers
  BY WorkersAre
<1>1. UNCHANGED <<ipcVars, chainPack, chainMeta>>
  BY DEF Nixl!BeginRead, Nixl!ipcVars, ipcVars
<1>2. LinksOk' /\ \A v \in Workers : PulledBy(v)' = PulledBy(v) /\ ChainEnd(v)' = ChainEnd(v)
  <2>1. \A v \in Workers : Yielding(v)' = Yielding(v)
    BY <1>1 DEF Yielding
  <2> QED BY <1>1, <2>1, LinksStay DEF ChainEnd
<1> DEFINE m == messages[w][1]
           b == 1 - chainMeta[w].send
<1>3. /\ messages[w] # <<>> /\ messages'[w] = <<>> /\ chainGen[w] \in {"first", "next"}
      /\ Head(messages[w]) = m
  <2>1. Len(messages[w]) <= 1 /\ messages[w] \in Seq(Messages)
    BY NixlNumbers DEF NixlInv, Flight
  <2>2. messages[w] # <<>> /\ messages'[w] = Tail(messages[w]) /\ chainGen[w] \in {"first", "next"}
    BY <1>0 DEF Nixl!BeginRead
  <2> QED BY <2>1, <2>2, OneItem
<1>4. /\ read[w].stage = "none" /\ read'[w].stage = "reading" /\ read'[w].from = m.from
      /\ read'[w].tensors = m.tensors /\ read'[w].last = m.last
  <2>1. read[w].stage = "none"
    BY <1>3 DEF NixlDel, StageOk
  <2> QED BY <1>0, <1>3, <2>1 DEF Nixl!BeginRead
<1>5. /\ chainGen'[w] = IF chainGen[w] = "first" THEN "firstRead" ELSE "yield"
      /\ \A v \in Workers : v # w => /\ messages'[v] = messages[v] /\ read'[v] = read[v]
                                      /\ chainGen'[v] = chainGen[v]
  BY <1>0 DEF Nixl!BeginRead
<1>6. /\ b \in 0 .. 1 /\ b # chainMeta[w].send /\ chainMeta[w].send \in 0 .. 1
      /\ data'[w][chainMeta[w].send] = data[w][chainMeta[w].send]
      /\ \A r \in 0 .. N : r # w => data'[r] = data[r]
  <2>1. b \in 0 .. 1 /\ b # chainMeta[w].send /\ chainMeta[w].send \in 0 .. 1
    BY NixlNumbers
  <2>2. data' = [data EXCEPT ![w][b] = <<>>] /\ w \in 0 .. N
    BY <1>n DEF Nixl!BeginRead, Nixl!Recv, Nixl!Other
  <2> HIDE DEF b
  <2> QED BY <1>0, <2>1, <2>2
<1> HIDE DEF m, b
<1>7. \A v \in Workers : AtLast(chainGen'[v]) <=> AtLast(chainGen[v])
  BY <1>3, <1>5 DEF AtLast
<1>8. \A v \in Workers : /\ SentEnd(v - 1)' = SentEnd(v - 1)
                         /\ SentLast(v - 1)' <=> SentLast(v - 1)
                         /\ v # w => ChainOk(v)'
  BY <1>1, <1>2, <1>5, <1>7, ChainsStay
<1>9. ChainOk(w)'
  <2>1. /\ ChainEnd(w) + ReadLen(w) + MsgLen(w) = SentEnd(w - 1)
        /\ Numbered(m.tensors, ChainEnd(w) + ReadLen(w))
        /\ m.last => SentLast(w - 1)
        /\ Numbered(chainMeta[w].tensors, PulledBy(w) - chainMeta[w].yielded)
    BY <1>3 DEF NixlDel, ChainOk, m
  <2> DEFINE e == ChainEnd(w)
             k == Len(m.tensors)
  <2>2. ReadLen(w) = 0 /\ MsgLen(w) = k /\ ReadLen(w)' = k /\ MsgLen(w)' = 0
    BY <1>3, <1>4 DEF ReadLen, MsgLen, m
  <2>3. e \in Int /\ k \in Nat
    BY <2>2, NixlNumbers
  <2>4. e + 0 = e /\ e + k + 0 = e + 0 + k
    <3> HIDE DEF e, k
    <3> QED BY <2>3
  <2>5. ~AtLast(chainGen'[w])
    BY <1>5 DEF AtLast
  <2>6. ChainEnd(w)' + ReadLen(w)' + MsgLen(w)' = SentEnd(w - 1)'
    BY <1>2, <1>8, <2>1, <2>2, <2>4
  <2>7. Numbered(read'[w].tensors, ChainEnd(w)')
    <3>1. ChainEnd(w) + ReadLen(w) = ChainEnd(w)
      BY <2>2, <2>4
    <3>2. Numbered(m.tensors, ChainEnd(w))
      BY <2>1, <3>1, Zenon
    <3>3. ChainEnd(w)' = ChainEnd(w) /\ read'[w].tensors = m.tensors
      BY <1>2, <1>4
    <3> QED BY <3>2, <3>3, Zenon
  <2>8. Numbered(chainMeta'[w].tensors, PulledBy(w)' - chainMeta'[w].yielded)
    BY <1>1, <1>2, <2>1
  <2>9. read'[w].last => SentLast(w - 1)' /\ messages'[w] = <<>>
    BY <1>3, <1>4, <1>8, <2>1
  <2> HIDE DEF e, k
  <2> QED BY <1>3, <2>5, <2>6, <2>7, <2>8, <2>9 DEF ChainOk
<1>10. ASSUME NEW v \in Workers PROVE HoldOk(v)'
  <2>1. CASE v = w
    <3>1. data'[w - 1] = data[w - 1]
      BY <1>6, <1>n
    <3> QED BY <1>1, <1>3, <1>4, <1>6, <2>1, <3>1 DEF NixlDel, HoldOk, m
  <2>2. CASE v # w
    <3>1. data'[v] = data[v] /\ messages'[v] = messages[v] /\ read'[v] = read[v]
      BY <1>5, <1>6, <1>n, <2>2
    <3>2. CASE v - 1 # w
      <4>1. data'[v - 1] = data[v - 1]
        BY <1>6, <1>n, <3>2
      <4> QED BY <1>1, <3>1, <4>1 DEF NixlDel, HoldOk
    <3>3. CASE v - 1 = w
      <4>1. v # 1 /\ Sent(v) = chainMeta[w].send
        BY <1>n, <3>3 DEF Sent
      <4>2. /\ messages[v] # <<>> => messages[v][1].from = chainMeta[w].send
            /\ read[v].stage = "reading" => read[v].from = chainMeta[w].send
        BY <4>1 DEF NixlInv, FromSent
      <4> QED BY <1>1, <1>6, <3>1, <3>3, <4>2 DEF NixlDel, HoldOk
    <3> QED BY <3>2, <3>3
  <2> QED BY <2>1, <2>2
<1>11. ASSUME NEW v \in Workers PROVE StageOk(v)'
  BY <1>1, <1>3, <1>4, <1>5 DEF NixlDel, StageOk
<1>12. PackOk(chainPack', data'[0][chainPack'.fill])
  <2>1. data'[0] = data[0]
    BY <1>6, <1>n
  <2> QED BY <1>1, <2>1 DEF NixlDel
<1> QED BY <1>2, <1>8, <1>9, <1>10, <1>11, <1>12 DEF NixlDel

\* The transfer of a bucket ends.
LEMMA NixlTransferStep ==
  ASSUME TypeOK, NixlInv, LinksOk, NixlDel, backend = "nixl", backend' = backend,
         NEW w \in Workers, Nixl!Transfer(w)
  PROVE  LinksOk' /\ NixlDel'
<1>0. data \in [0 .. N -> [0 .. 1 -> Seq(Tensors)]] /\ read \in [Workers -> Reads]
  BY DEF TypeOK, NixlTypes
<1>n. /\ N \in Nat \ {0} /\ Workers = 1 .. N /\ \A v \in Workers : v \in 0 .. N /\ v - 1 \in 0 .. N
      /\ w - 1 # w
  BY WorkersAre
<1>1. UNCHANGED <<ipcVars, chainPack, chainMeta, messages, chainGen>>
  BY DEF Nixl!Transfer, Nixl!ipcVars, ipcVars
<1>2. LinksOk' /\ \A v \in Workers : PulledBy(v)' = PulledBy(v) /\ ChainEnd(v)' = ChainEnd(v)
  <2>1. \A v \in Workers : Yielding(v)' = Yielding(v)
    BY <1>1 DEF Yielding
  <2> QED BY <1>1, <2>1, LinksStay DEF ChainEnd
<1>3. /\ read[w].stage = "reading" /\ read'[w].stage = "done" /\ read'[w].tensors = read[w].tensors
      /\ read'[w].last = read[w].last /\ \A v \in Workers : v # w => read'[v] = read[v]
  BY <1>0 DEF Nixl!Transfer, Reads
<1> DEFINE b == 1 - chainMeta[w].send
           new == data[w - 1][read[w].from]
<1>4. /\ b \in 0 .. 1 /\ b # chainMeta[w].send /\ chainMeta[w].send \in 0 .. 1
      /\ data'[w][chainMeta[w].send] = data[w][chainMeta[w].send] /\ data'[w][b] = new
      /\ \A r \in 0 .. N : r # w => data'[r] = data[r]
  <2>1. b \in 0 .. 1 /\ b # chainMeta[w].send /\ chainMeta[w].send \in 0 .. 1
    BY NixlNumbers
  <2>2. data' = [data EXCEPT ![w][b] = new] /\ w \in 0 .. N
    BY <1>n, Prev DEF Nixl!Transfer, Nixl!Recv, Nixl!Other
  <2> HIDE DEF b, new
  <2> QED BY <1>0, <2>1, <2>2
<1>5. \A v \in Workers : /\ SentEnd(v - 1)' = SentEnd(v - 1)
                         /\ SentLast(v - 1)' <=> SentLast(v - 1)
                         /\ v # w => ChainOk(v)'
  BY <1>1, <1>2, <1>3, ChainsStay
<1>6. ChainOk(w)'
  <2>1. ReadLen(w)' = ReadLen(w) /\ MsgLen(w)' = MsgLen(w)
    BY <1>1, <1>3 DEF ReadLen, MsgLen
  <2> QED BY <1>1, <1>2, <1>3, <1>5, <2>1 DEF NixlDel, ChainOk
<1>7. ASSUME NEW v \in Workers PROVE HoldOk(v)'
  <2>1. CASE v = w
    <3>1. data'[w - 1] = data[w - 1]
      BY <1>4, <1>n
    <3>2. Has(new, read[w].tensors)
      BY <1>3 DEF NixlDel, HoldOk
    <3> HIDE DEF new
    <3> QED BY <1>1, <1>3, <1>4, <2>1, <3>1, <3>2 DEF NixlDel, HoldOk
  <2>2. CASE v # w
    <3>1. data'[v] = data[v] /\ read'[v] = read[v]
      BY <1>3, <1>4, <1>n, <2>2
    <3>2. CASE v - 1 # w
      <4>1. data'[v - 1] = data[v - 1]
        BY <1>4, <1>n, <3>2
      <4> QED BY <1>1, <3>1, <4>1 DEF NixlDel, HoldOk
    <3>3. CASE v - 1 = w
      <4>1. v # 1 /\ Sent(v) = chainMeta[w].send
        BY <1>n, <3>3 DEF Sent
      <4>2. /\ messages[v] # <<>> => messages[v][1].from = chainMeta[w].send
            /\ read[v].stage = "reading" => read[v].from = chainMeta[w].send
        BY <4>1 DEF NixlInv, FromSent
      <4> QED BY <1>1, <1>4, <3>1, <3>3, <4>2 DEF NixlDel, HoldOk
    <3> QED BY <3>2, <3>3
  <2> QED BY <2>1, <2>2
<1>8. ASSUME NEW v \in Workers PROVE StageOk(v)'
  BY <1>1, <1>3 DEF NixlDel, StageOk
<1>9. PackOk(chainPack', data'[0][chainPack'.fill])
  <2>1. data'[0] = data[0]
    BY <1>4, <1>n
  <2> QED BY <1>1, <2>1 DEF NixlDel
<1> QED BY <1>2, <1>5, <1>6, <1>7, <1>8, <1>9 DEF NixlDel

\* A worker goes on to the bucket it has read, and announces it.
LEMMA NixlTurnStep ==
  ASSUME TypeOK, NixlInv, LinksOk, NixlDel, backend = "nixl", backend' = backend,
         NEW w \in Workers, Nixl!NextBucket(w)
  PROVE  LinksOk' /\ NixlDel'
<1>0. /\ messages \in [Workers -> Seq(Messages)] /\ read \in [Workers -> Reads]
      /\ chainMeta \in [Workers -> ChainMetas]
      /\ chainGen \in [Workers -> {"first", "firstRead", "next", "yield", "last", "done"}]
  BY DEF TypeOK, NixlTypes
<1>n. /\ N \in Nat \ {0} /\ Workers = 1 .. N /\ \A v \in Workers : v \in 0 .. N /\ v - 1 \in 0 .. N
      /\ w # w + 1 /\ \A v \in Workers : v # 1 => v - 1 \in Workers
      /\ \A v \in Workers : v # w + 1 => v - 1 # w
      /\ w + 1 - 1 = w /\ w # 0
  BY WorkersAre
<1>1. UNCHANGED <<ipcVars, chainPack, data>>
  BY DEF Nixl!NextBucket, Nixl!ipcVars, ipcVars
<1> DEFINE q == read[w].tensors
           last == read[w].last
           recv == 1 - chainMeta[w].send
           m == [from |-> recv, tensors |-> q, last |-> last]
<1>2. /\ read[w].stage = "done" /\ chainGen[w] \in {"firstRead", "yield"}
      /\ chainGen[w] = "yield" => /\ chainMeta[w].yielded = Len(chainMeta[w].tensors)
                                 /\ ipc[w] = "pull" /\ readable[w] # "announced"
                                 /\ copies[w] = <<>>
  BY DEF Nixl!NextBucket, Nixl!AllYielded, Nixl!ReadByNext, Nixl!ViewsCopied, Nixl!Synchronized
<1>3. copies[w] = <<>> /\ ipc[w] # "full" /\ readable[w] # "announced"
  BY <1>2 DEF NixlInv, Unsent
<1>4. /\ chainMeta'[w].tensors = q /\ chainMeta'[w].yielded = 0 /\ chainMeta'[w].send = recv
      /\ read'[w].stage = "none" /\ chainGen'[w] = IF last THEN "last" ELSE "next"
      /\ \A v \in Workers : v # w => /\ chainMeta'[v] = chainMeta[v] /\ read'[v] = read[v]
                                      /\ chainGen'[v] = chainGen[v]
  BY <1>0 DEF Nixl!NextBucket, Nixl!Recv, Nixl!Other, Reads
<1>5. N # 1
  BY <1>2 DEF NixlInv, NixlIdle
<1>6. IF w = N THEN messages' = messages
      ELSE messages' = [messages EXCEPT ![w + 1] = Append(@, m)]
  BY <1>n, <1>5, AnnounceIs DEF Nixl!NextBucket, Nixl!Recv, Nixl!Other
<1>7. m.from = recv /\ m.tensors = q /\ m.last = last
  OBVIOUS
<1> HIDE DEF m, recv
<1>8. \A v \in Workers : v # w + 1 => messages'[v] = messages[v]
  BY <1>0, <1>6
<1>9. ASSUME w + 1 \in Workers
      PROVE  /\ messages[w + 1] = <<>> /\ read[w + 1].stage # "reading"
             /\ messages'[w + 1] # <<>> /\ messages'[w + 1][1] = m
  <2>1. messages[w + 1] = <<>> /\ read[w + 1].stage # "reading"
    BY <1>3, <1>9, <1>n DEF NixlInv, Flight
  <2>2. w # N
    BY <1>9, <1>n
  <2>3. messages'[w + 1] = <<m>>
    BY <1>0, <1>6, <1>9, <2>1, <2>2
  <2>4. <<m>> # <<>> /\ <<m>>[1] = m
    OBVIOUS
  <2> QED BY <2>1, <2>3, <2>4
<1>10. LinksOk' /\ \A v \in Workers : PulledBy(v)' = PulledBy(v)
  <2>1. \A v \in Workers : v # w => Yielding(v)' = Yielding(v)
    BY <1>4 DEF Yielding
  <2> QED BY <1>1, <1>3, <2>1, LinksStay
<1> DEFINE e == ChainEnd(w)
           p == PulledBy(w)
           k == Len(q)
<1>11. e \in Int /\ p \in Int /\ k \in Nat /\ Len(chainMeta[w].tensors) \in Nat
       /\ chainMeta[w].yielded \in 0 .. Len(chainMeta[w].tensors)
  BY NixlNumbers
<1>12. e = p
  <2>1. chainMeta[w].yielded = Len(chainMeta[w].tensors)
    <3>1. CASE chainGen[w] = "firstRead"
      <4>1. chainMeta[w].tensors = <<>> /\ Len(<<>>) = 0
        BY <3>1 DEF NixlDel, StageOk
      <4> QED BY <1>11, <4>1
    <3> QED BY <1>2, <3>1
  <2>2. e = p - chainMeta[w].yielded + Len(chainMeta[w].tensors)
    BY DEF ChainEnd
  <2> HIDE DEF e, p
  <2> QED BY <1>11, <2>1, <2>2
<1>13. ChainEnd(w)' = e + k /\ p - 0 = e /\ e + k + 0 = e + k
  <2>1. ChainEnd(w)' = p - 0 + k
    BY <1>4, <1>10 DEF ChainEnd
  <2> HIDE DEF e, p, k
  <2> QED BY <1>11, <1>12, <2>1
<1>14. /\ ReadLen(w) = k /\ ReadLen(w)' = 0 /\ Numbered(q, e)
       /\ last => SentLast(w - 1) /\ messages[w] = <<>>
  BY <1>2, <1>4 DEF NixlDel, ChainOk, ReadLen
<1>15. SentEnd(w - 1)' = SentEnd(w - 1) /\ (SentLast(w - 1)' <=> SentLast(w - 1))
  <2>1. CASE w = 1
    <3>1. w - 1 = 0
      BY <2>1
    <3> QED BY <1>1, <3>1 DEF SentEnd, SentLast
  <2>2. CASE w # 1
    <3>1. w - 1 \in Workers /\ w - 1 # w /\ w - 1 # 0
      BY <1>n, <2>2
    <3>2. ChainEnd(w - 1)' = ChainEnd(w - 1) /\ chainGen'[w - 1] = chainGen[w - 1]
      BY <1>4, <1>10, <3>1 DEF ChainEnd
    <3> QED BY <3>1, <3>2 DEF SentEnd, SentLast
  <2> QED BY <2>1, <2>2
<1>16. ChainOk(w)'
  <2>1. messages'[w] = messages[w] /\ MsgLen(w)' = MsgLen(w)
    BY <1>8, <1>n DEF MsgLen
  <2>2. ChainEnd(w)' + ReadLen(w)' + MsgLen(w)' = SentEnd(w - 1)'
    <3>1. e + k + MsgLen(w) = SentEnd(w - 1)
      BY <1>14 DEF NixlDel, ChainOk
    <3>2. ChainEnd(w)' + ReadLen(w)' = e + k
      BY <1>13, <1>14
    <3> QED BY <1>15, <2>1, <3>1, <3>2
  <2>3. Numbered(chainMeta'[w].tensors, PulledBy(w)' - chainMeta'[w].yielded)
    <3>1. PulledBy(w)' - chainMeta'[w].yielded = e
      BY <1>4, <1>10, <1>13
    <3> QED BY <1>4, <1>14, <3>1, Zenon
  <2>4. messages'[w] # <<>> => /\ Numbered(messages'[w][1].tensors, ChainEnd(w)' + ReadLen(w)')
                               /\ messages'[w][1].last => SentLast(w - 1)'
    <3> SUFFICES ASSUME messages[w] # <<>>
                 PROVE  /\ Numbered(messages[w][1].tensors, ChainEnd(w)' + ReadLen(w)')
                        /\ messages[w][1].last => SentLast(w - 1)'
      BY <2>1
    <3>1. /\ Numbered(messages[w][1].tensors, ChainEnd(w) + ReadLen(w))
          /\ messages[w][1].last => SentLast(w - 1)
      BY DEF NixlDel, ChainOk
    <3>2. ChainEnd(w)' + ReadLen(w)' = ChainEnd(w) + ReadLen(w)
      BY <1>13, <1>14
    <3>3. Numbered(messages[w][1].tensors, ChainEnd(w)' + ReadLen(w)')
      BY <3>1, <3>2, Zenon
    <3> QED BY <1>15, <3>1, <3>3
  <2>5. AtLast(chainGen'[w]) =>
          ChainEnd(w)' = NumTensors /\ messages'[w] = <<>> /\ SentLast(w - 1)'
    <3> SUFFICES ASSUME last
                 PROVE  ChainEnd(w)' = NumTensors /\ messages[w] = <<>> /\ SentLast(w - 1)'
      BY <1>4, <2>1 DEF AtLast
    <3>1. SentLast(w - 1) /\ messages[w] = <<>>
      BY <1>14
    <3>2. SentEnd(w - 1) = NumTensors
      BY <3>1, LastIsAll
    <3>3. MsgLen(w) = 0
      BY <3>1 DEF MsgLen
    <3>4. e + k + MsgLen(w) = SentEnd(w - 1)
      BY <1>14 DEF NixlDel, ChainOk
    <3> QED BY <1>13, <1>15, <3>1, <3>2, <3>3, <3>4
  <2> HIDE DEF e, p, k
  <2> QED BY <1>4, <2>2, <2>3, <2>4, <2>5 DEF ChainOk
<1>17. ASSUME NEW v \in Workers, v = w + 1 PROVE ChainOk(v)'
  <2>0. v - 1 = w /\ v # w /\ w # 0
    BY <1>17, <1>n
  <2>1. /\ messages[v] = <<>> /\ messages'[v] # <<>> /\ messages'[v][1] = m
    BY <1>9, <1>17
  <2>2. /\ SentEnd(v - 1) = e /\ SentEnd(v - 1)' = e + k
        /\ SentLast(v - 1)' <=> last
        /\ ~SentLast(v - 1)
    BY <1>2, <1>4, <1>13, <2>0 DEF SentEnd, SentLast, AtLast
  <2>3. /\ ChainEnd(v) + ReadLen(v) + MsgLen(v) = SentEnd(v - 1)
        /\ read[v].stage # "none" => Numbered(read[v].tensors, ChainEnd(v)) /\ ~read[v].last
        /\ Numbered(chainMeta[v].tensors, PulledBy(v) - chainMeta[v].yielded)
        /\ ~AtLast(chainGen[v])
    BY <2>2 DEF NixlDel, ChainOk
  <2>4. MsgLen(v) = 0 /\ MsgLen(v)' = k
    BY <1>7, <2>1 DEF MsgLen
  <2>5. ChainEnd(v)' = ChainEnd(v) /\ ReadLen(v)' = ReadLen(v)
    BY <1>4, <1>10, <2>0 DEF ChainEnd, ReadLen
  <2> DEFINE e2 == ChainEnd(v)
             r2 == ReadLen(v)
  <2>6. e2 \in Int /\ r2 \in Nat
    BY NixlNumbers
  <2>7. e2 + r2 = e /\ e2 + r2 + k = e + k
    <3>1. e2 + r2 + 0 = e
      BY <2>2, <2>3, <2>4
    <3> HIDE DEF e, e2, r2, k
    <3> QED BY <1>11, <2>6, <3>1
  <2>8. ChainEnd(v)' + ReadLen(v)' + MsgLen(v)' = SentEnd(v - 1)'
    BY <2>2, <2>4, <2>5, <2>7
  <2>9. Numbered(messages'[v][1].tensors, ChainEnd(v)' + ReadLen(v)')
    <3>1. ChainEnd(v)' + ReadLen(v)' = e /\ messages'[v][1].tensors = q
      BY <1>7, <2>1, <2>5, <2>7
    <3> QED BY <1>14, <3>1, Zenon
  <2>10. messages'[v][1].last => SentLast(v - 1)'
    BY <1>7, <2>1, <2>2
  <2>11. /\ Numbered(chainMeta'[v].tensors, PulledBy(v)' - chainMeta'[v].yielded)
         /\ read'[v].stage # "none" => Numbered(read'[v].tensors, ChainEnd(v)') /\ ~read'[v].last
         /\ ~AtLast(chainGen'[v])
    BY <1>4, <1>10, <2>0, <2>3, <2>5
  <2> HIDE DEF e, p, k, e2, r2
  <2> QED BY <2>8, <2>9, <2>10, <2>11 DEF ChainOk
<1>18. ASSUME NEW v \in Workers, v # w, v # w + 1 PROVE ChainOk(v)'
  <2>1. SentEnd(v - 1)' = SentEnd(v - 1) /\ (SentLast(v - 1)' <=> SentLast(v - 1))
    <3>1. CASE v = 1
      <4>1. v - 1 = 0
        BY <3>1
      <4> QED BY <1>1, <4>1 DEF SentEnd, SentLast
    <3>2. CASE v # 1
      <4>1. v - 1 \in Workers /\ v - 1 # w /\ v - 1 # 0
        BY <1>n, <1>18, <3>2
      <4>2. ChainEnd(v - 1)' = ChainEnd(v - 1) /\ chainGen'[v - 1] = chainGen[v - 1]
        BY <1>4, <1>10, <4>1 DEF ChainEnd
      <4> QED BY <4>1, <4>2 DEF SentEnd, SentLast
    <3> QED BY <3>1, <3>2
  <2>2. messages'[v] = messages[v] /\ read'[v] = read[v] /\ chainMeta'[v] = chainMeta[v]
        /\ chainGen'[v] = chainGen[v] /\ PulledBy(v)' = PulledBy(v)
    BY <1>4, <1>8, <1>10, <1>18
  <2> QED BY <2>1, <2>2, ChainStays DEF NixlDel
<1>19. ASSUME NEW v \in Workers PROVE HoldOk(v)'
  <2>h. Has(data[w][recv], q)
    BY <1>2 DEF NixlDel, HoldOk, recv
  <2>1. CASE v = w
    <3>1. messages'[v] = messages[v]
      BY <1>8, <1>n, <2>1
    <3> QED BY <1>1, <1>4, <2>h, <2>1, <3>1 DEF NixlDel, HoldOk
  <2>2. CASE v = w + 1
    <3>1. v - 1 = w /\ v # w /\ read[v].stage # "reading" /\ messages'[v][1] = m
      BY <1>9, <1>n, <2>2
    <3> QED BY <1>1, <1>4, <1>7, <2>h, <3>1 DEF NixlDel, HoldOk
  <2>3. CASE v # w /\ v # w + 1
    <3>1. messages'[v] = messages[v] /\ read'[v] = read[v] /\ chainMeta'[v] = chainMeta[v]
      BY <1>4, <1>8, <2>3
    <3> QED BY <1>1, <3>1 DEF NixlDel, HoldOk
  <2> QED BY <2>1, <2>2, <2>3
<1>20. ASSUME NEW v \in Workers PROVE StageOk(v)'
  BY <1>4 DEF NixlDel, StageOk
<1>21. PackOk(chainPack', data'[0][chainPack'.fill])
  BY <1>1 DEF NixlDel
<1> HIDE DEF e, p, k, q, last
<1> QED BY <1>10, <1>16, <1>17, <1>18, <1>19, <1>20, <1>21 DEF NixlDel

\* A worker yields its bucket's tensors, and a copy finds them in send_buf.
LEMMA NixlYieldStep ==
  ASSUME TypeOK, NixlInv, LinksOk, NixlDel, backend = "nixl", backend' = backend,
         NEW w \in Workers,
         \/ NixlYields(w) \/ NixlEnds(w) \/ (IpcStep(w) /\ UNCHANGED nixlVars)
         \/ Nixl!RunCopy(w)
  PROVE  LinksOk' /\ NixlDel'
<1>0. /\ Source = Place /\ ~Own /\ chainMeta \in [Workers -> ChainMetas]
      /\ chainGen \in [Workers -> {"first", "firstRead", "next", "yield", "last", "done"}]
      /\ \A v \in Workers : Yielding(v) = chainMeta[v].tensors
  BY DEF Source, Own, TypeOK, NixlTypes, Yielding
<1>1. UNCHANGED <<chainPack, data, messages, read>>
  BY DEF NixlYields, NixlEnds, nixlVars, Nixl!RunCopy
<1>g. ASSUME LinksOk', ChainOk(w)', \A v \in Workers : ChainEnd(v)' = ChainEnd(v),
             \A v \in Workers : /\ AtLast(chainGen'[v]) <=> AtLast(chainGen[v])
                                /\ chainMeta'[v].send = chainMeta[v].send
                                /\ chainMeta'[v].tensors = chainMeta[v].tensors,
             \A v \in Workers : v # w => PulledBy(v)' = PulledBy(v) /\ chainMeta'[v] = chainMeta[v],
             \A v \in Workers : chainGen'[v] = chainGen[v]
                                \/ (chainGen[v] = "last" /\ chainGen'[v] = "done")
      PROVE  NixlDel'
  <2>1. \A v \in Workers : ChainOk(v)'
    BY <1>1, <1>g, ChainsStay
  <2>2. \A v \in Workers : HoldOk(v)'
    BY <1>1, <1>g DEF NixlDel, HoldOk
  <2>3. \A v \in Workers : StageOk(v)'
    BY <1>1, <1>g DEF NixlDel, StageOk
  <2> QED BY <1>1, <2>1, <2>2, <2>3 DEF NixlDel
<1>3. ASSUME LinksOk', \A v \in Workers : PulledBy(v)' = PulledBy(v), chainMeta' = chainMeta,
             \A v \in Workers : AtLast(chainGen'[v]) <=> AtLast(chainGen[v]),
             \A v \in Workers : chainGen'[v] = chainGen[v]
                                \/ (chainGen[v] = "last" /\ chainGen'[v] = "done")
      PROVE  NixlDel'
  <2>1. \A v \in Workers : ChainEnd(v)' = ChainEnd(v)
    BY <1>3 DEF ChainEnd
  <2>2. SentEnd(w - 1)' = SentEnd(w - 1) /\ (SentLast(w - 1)' <=> SentLast(w - 1))
    BY <1>1, <1>3, <2>1, ChainsStay
  <2>3. ChainOk(w)'
    BY <1>1, <1>3, <2>2, ChainStays DEF NixlDel
  <2> QED BY <1>3, <1>g, <2>1, <2>3
<1>4. CASE IpcStep(w) /\ UNCHANGED nixlVars
  <2>1. UNCHANGED <<chainGen, chainMeta>> /\ \A v \in Workers : Yielding(v)' = Yielding(v)
    BY <1>4 DEF nixlVars, Yielding
  <2>2. LinksOk' /\ \A v \in Workers : PulledBy(v)' = PulledBy(v)
    BY <1>4, <2>1, LinksMove DEF LinkMoves
  <2> QED BY <1>3, <2>1, <2>2
<1>5. CASE Nixl!RunCopy(w)
  <2> DEFINE from == Head(copies[w]).from
             value == At(data[w][from.buf], from.place)
  <2>1. copies[w] # <<>> /\ UNCHANGED <<chainGen, chainMeta>> /\ Nixl!Copy(w, value)
    BY <1>5 DEF Nixl!RunCopy, Nixl!At, At
  <2>2. from.buf = chainMeta[w].send
    <3>1. copies[w] \in Seq(Copies)
      BY LinkTypes
    <3>2. 1 \in 1 .. Len(copies[w]) /\ Head(copies[w]) = copies[w][1]
      BY <2>1, <3>1
    <3> QED BY <3>2 DEF NixlInv, FromBuf
  <2>3. value = Found(Own, Yielding(w), from)
    <3>1. Has(data[w][chainMeta[w].send], Yielding(w)) /\ Yielding(w) \in Seq(Tensors)
      BY <1>0, NixlNumbers DEF NixlDel, HoldOk
    <3> QED BY <1>0, <2>1, <2>2, <3>1, CopyFinds DEF LinksOk
  <2>4. value \in Nat
    <3>1. value \in Tensors
      BY <2>1, <2>3, HeadFound DEF LinksOk
    <3> QED BY <3>1 DEF Tensors
  <2> HIDE DEF value
  <2>5. Copied(w)
    BY <2>1, <2>4, NixlLink
  <2>6. ipcBuf' = [ipcBuf EXCEPT ![w] = Written(@, Head(copies[w]).to, value)]
    BY <2>1 DEF Nixl!Copy, Nixl!Written, Written
  <2>7. CopiesFound(w)
    BY <2>3, <2>5, <2>6 DEF CopiesFound
  <2>8. \A v \in Workers : Yielding(v)' = Yielding(v)
    BY <2>1 DEF Yielding
  <2>9. LinksOk' /\ \A v \in Workers : PulledBy(v)' = PulledBy(v)
    BY <2>7, <2>8, LinksMove DEF LinkMoves
  <2> QED BY <1>3, <2>1, <2>9
<1>6. CASE NixlEnds(w)
  <2>1. /\ chainGen[w] = "last" /\ chainMeta[w].yielded = Len(chainMeta[w].tensors) /\ PullEnds(w)
        /\ chainGen'[w] = "done" /\ chainMeta' = chainMeta
        /\ \A v \in Workers : v # w => chainGen'[v] = chainGen[v]
    BY <1>0, <1>6 DEF NixlEnds
  <2>2. PulledBy(w) = NumTensors
    <3>1. ChainEnd(w) = NumTensors
      BY <2>1 DEF NixlDel, ChainOk, AtLast
    <3> DEFINE p == PulledBy(w)
    <3>2. p \in Int /\ Len(chainMeta[w].tensors) \in Nat
      BY NixlNumbers
    <3>3. NumTensors = p - chainMeta[w].yielded + Len(chainMeta[w].tensors)
      BY <3>1 DEF ChainEnd
    <3> HIDE DEF p
    <3>4. p = NumTensors
      BY <2>1, <3>2, <3>3
    <3> QED BY <3>4 DEF p
  <2>3. \A v \in Workers : Yielding(v)' = Yielding(v)
    BY <2>1 DEF Yielding
  <2>4. LinksOk' /\ \A v \in Workers : PulledBy(v)' = PulledBy(v)
    BY <2>1, <2>2, <2>3, LinksMove DEF LinkMoves
  <2>5. \A v \in Workers : AtLast(chainGen'[v]) <=> AtLast(chainGen[v])
    BY <2>1 DEF AtLast
  <2>6. \A v \in Workers : chainGen'[v] = chainGen[v]
                           \/ (chainGen[v] = "last" /\ chainGen'[v] = "done")
    BY <2>1
  <2> QED BY <1>3, <2>1, <2>4, <2>5, <2>6
<1>7. CASE NixlYields(w)
  <2> DEFINE q == chainMeta[w].tensors
             y == chainMeta[w].yielded
             t == q[y + 1]
             from == [buf |-> chainMeta[w].send, place |-> y + 1]
             p == PulledBy(w)
  <2>1. /\ q \in Seq(Tensors) /\ Len(q) \in Nat /\ y \in Nat /\ y + 1 \in 1 .. Len(q)
        /\ chainMeta[w].send \in 0 .. 1 /\ p \in Int
    <3>1. /\ q \in Seq(Tensors) /\ Len(q) \in Nat /\ y \in 0 .. Len(q)
          /\ chainMeta[w].send \in 0 .. 1 /\ p \in Int
      BY NixlNumbers
    <3>2. y < Len(q)
      BY <1>7 DEF NixlYields
    <3> HIDE DEF q, y, p
    <3> QED BY <3>1, <3>2
  <2>2. /\ Pulls(w, t, from) /\ chainGen' = chainGen /\ chainMeta'[w].tensors = q
        /\ chainMeta'[w].send = chainMeta[w].send
        /\ chainMeta'[w].yielded = y + 1 /\ \A v \in Workers : v # w => chainMeta'[v] = chainMeta[v]
    BY <1>0, <1>7 DEF NixlYields, ChainMetas
  <2>3. t \in Tensors /\ from \in Source
    BY <1>0, <2>1 DEF Place
  <2>4. Found(Own, Yielding(w), from) = t
    BY <1>0, <2>1 DEF Found, At
  <2>5. t = p + 1
    <3>1. Numbered(q, p - y)
      BY DEF NixlDel, ChainOk
    <3> HIDE DEF q, y, p
    <3>2. q[y + 1] = p - y + (y + 1)
      BY <2>1, <3>1 DEF Numbered
    <3> QED BY <2>1, <3>2
  <2> HIDE DEF t, from
  <2>6. PullsNext(w)
    BY <2>2, <2>3, <2>4, <2>5 DEF PullsNext, p
  <2>7. \A v \in Workers : Yielding(v)' = Yielding(v)
    BY <2>2 DEF Yielding
  <2>8. /\ LinksOk' /\ PulledBy(w)' = p + 1
        /\ \A v \in Workers : v # w => PulledBy(v)' = PulledBy(v)
    BY <2>6, <2>7, LinksPull
  <2>9. PulledBy(w)' - chainMeta'[w].yielded = PulledBy(w) - chainMeta[w].yielded
    <3> HIDE DEF p, y
    <3>1. (p + 1) - (y + 1) = p - y
      BY <2>1
    <3> QED BY <2>2, <2>8, <3>1 DEF p, y
  <2>10. \A v \in Workers : ChainEnd(v)' = ChainEnd(v)
    <3>1. ChainEnd(w)' = ChainEnd(w)
      BY <2>2, <2>9 DEF ChainEnd
    <3>2. \A v \in Workers : v # w => ChainEnd(v)' = ChainEnd(v)
      BY <2>2, <2>8 DEF ChainEnd
    <3> QED BY <3>1, <3>2
  <2>11. ChainOk(w)'
    <3>1. SentEnd(w - 1)' = SentEnd(w - 1) /\ (SentLast(w - 1)' <=> SentLast(w - 1))
      BY <1>1, <2>2, <2>8, <2>10, ChainsStay
    <3>2. ReadLen(w)' = ReadLen(w) /\ MsgLen(w)' = MsgLen(w)
      BY <1>1 DEF ReadLen, MsgLen
    <3> QED BY <1>1, <2>2, <2>9, <2>10, <3>1, <3>2 DEF NixlDel, ChainOk
  <2> QED BY <1>g, <2>2, <2>8, <2>10, <2>11
<1> QED BY <1>4, <1>5, <1>6, <1>7

-----------------------------------------------------------------------------
(* The invariant, whatever the engine.                                     *)

\* The links are right, and so is the engine in use.
DelInv ==
  /\ LinksOk
  /\ backend = "naive" => NaiveDel
  /\ backend = "nccl" => NcclDel
  /\ backend = "nixl" => NixlDel

\* What is sent before the first tensor is packed.
LEMMA SentNothing ==
  ASSUME NEW p, p.at = "pack", p.next = 1, Len(p.meta) = 0
  PROVE  SentBy(p) = 0
<1>1. SentBy(p) = p.next - 1 - Len(p.meta)
  BY Zenon DEF SentBy
<1>2. p.next - 1 - Len(p.meta) = 1 - 1 - 0
  BY Zenon
<1>3. 1 - 1 - 0 = 0
  OBVIOUS
<1> QED BY Zenon, <1>1, <1>2, <1>3

\* It holds at first.
LEMMA InitDel == Init => DelInv
<1> SUFFICES ASSUME Init PROVE DelInv
  OBVIOUS
<1>e. Len(<<>>) = 0
  OBVIOUS
<1>0. /\ \A b : Numbered(<<>>, b)
      /\ \A buf : Has(buf, <<>>) /\ Queued(<<>>, <<>>, buf)
  BY <1>e DEF Numbered, Has, Queued
<1>1. \A w \in Workers : /\ ipc[w] = "pull" /\ ipcMeta[w] = <<>> /\ copies[w] = <<>>
                         /\ link[w] = "init" /\ loads[w] = <<>> /\ loaded[w] = <<>>
  BY DEF Init, Naive!Init, Naive!IpcInit
<1>2. \A w \in Workers : Base(w) = 0 /\ PulledBy(w) = 0
  <2> SUFFICES ASSUME NEW w \in Workers PROVE Base(w) = 0 /\ PulledBy(w) = 0
    OBVIOUS
  <2>1. Len(loaded[w]) = 0 /\ Len(ipcMeta[w]) = 0
    BY <1>e, <1>1
  <2>2. Base(w) = 0
    BY <1>1, <2>1 DEF Base
  <2> QED BY <1>1, <2>1, <2>2 DEF PulledBy
<1>3. LinksOk
  BY <1>e, <1>0, <1>1, BucketStart DEF LinksOk, LinkOk
<1>4. NaiveDel
  BY <1>2 DEF Init, Naive!Init, NaiveDel
<1>5. NcclDel
  <2>1. /\ pack.at = "pack" /\ pack.next = 1 /\ pack.meta = <<>> /\ pack.copies = <<>>
        /\ op0.stage = "done"
        /\ op0.bucket.tensors = <<>> /\ ~op0.bucket.last
    BY DEF Init, Nccl!Init, Nccl!NoBucket, Nccl!Bucket
  <2>2. SentBy(pack) = 0
    <3>1. Len(pack.meta) = 0
      BY <1>e, <2>1
    <3> QED BY <2>1, <3>1, SentNothing
  <2>3. PackOk(pack, buf0[pack.fill]) /\ BroadcastOk
    BY <1>e, <1>0, <2>1, <2>2 DEF PackOk, BroadcastOk
  <2>4. ASSUME NEW w \in Workers PROVE JoinOk(w) /\ CountOk(w) /\ BuffersOk(w)
    <3>1. /\ topic[w] = <<>> /\ op[w].stage = "metadata" /\ gen[w] = "first"
          /\ op[w].bucket.tensors = <<>> /\ ~op[w].bucket.last
          /\ meta[w].bucket.tensors = <<>> /\ meta[w].yielded = 0
      BY DEF Init, Nccl!Init, Nccl!NoBucket, Nccl!Bucket
    <3>2. Known(w) = 0 /\ Turned(w) = 0
      BY <1>e, <1>2, <2>1, <2>2, <3>1 DEF Known, Turned
    <3>3. JoinOk(w) /\ CountOk(w)
      BY <1>e, <1>0, <1>2, <3>1, <3>2 DEF JoinOk, CountOk, AtLast
    <3>4. BuffersOk(w)
      BY <1>0, <3>1 DEF BuffersOk
    <3> QED BY <3>3, <3>4
  <2> QED BY <2>3, <2>4 DEF NcclDel
<1>6. NixlDel
  <2>1. /\ chainPack.at = "pack" /\ chainPack.next = 1 /\ chainPack.meta = <<>>
        /\ chainPack.copies = <<>>
    BY DEF Init, Nixl!Init
  <2>s. SentBy(chainPack) = 0
    <3>1. Len(chainPack.meta) = 0
      BY <1>e, <2>1
    <3> QED BY <2>1, <3>1, SentNothing
  <2>2. PackOk(chainPack, data[0][chainPack.fill])
    BY <1>0, <2>1 DEF PackOk
  <2>3. ASSUME NEW w \in Workers
        PROVE  /\ chainGen[w] = "first" /\ chainMeta[w].tensors = <<>> /\ messages[w] = <<>>
               /\ chainMeta[w].yielded = 0 /\ read[w].stage = "none" /\ ChainEnd(w) = 0
    <3>1. /\ chainGen[w] = "first" /\ chainMeta[w].tensors = <<>> /\ messages[w] = <<>>
          /\ chainMeta[w].yielded = 0 /\ read[w].stage = "none"
      BY DEF Init, Nixl!Init
    <3> QED BY <1>e, <1>2, <3>1 DEF ChainEnd
  <2>4. ASSUME NEW w \in Workers PROVE ChainOk(w) /\ HoldOk(w) /\ StageOk(w)
    <3>1. SentEnd(w - 1) = 0
      <4>1. CASE w - 1 = 0
        BY <2>s, <4>1 DEF SentEnd
      <4>2. CASE w - 1 # 0
        <5>1. w - 1 \in Workers
          BY <4>2, WorkersAre
        <5> QED BY <2>3, <4>2, <5>1 DEF SentEnd
      <4> QED BY <4>1, <4>2
    <3>2. ReadLen(w) = 0 /\ MsgLen(w) = 0
      BY <2>3 DEF ReadLen, MsgLen
    <3>3. ChainOk(w)
      BY <1>e, <1>0, <1>2, <2>3, <3>1, <3>2 DEF ChainOk, AtLast
    <3>4. HoldOk(w) /\ StageOk(w)
      BY <1>0, <2>3 DEF HoldOk, StageOk
    <3> QED BY <3>3, <3>4
  <2> QED BY <2>2, <2>4 DEF NixlDel
<1> QED BY <1>3, <1>4, <1>5, <1>6 DEF DelInv

\* Every step keeps it.
LEMMA DelStep == TypeOK /\ RaceInv /\ DelInv /\ [Next]_vars => DelInv'
<1> SUFFICES ASSUME TypeOK, RaceInv, DelInv, [Next]_vars PROVE DelInv'
  OBVIOUS
<1>1. ASSUME NEW w \in Workers, ByNaive(Naive!Worker(w)) \/ ByNaive(Naive!RunCopy(w)) PROVE DelInv'
  BY <1>1, NaiveDelStep DEF ByNaive, DelInv
<1>2. CASE ByNccl(Nccl!Sender)
  BY <1>2, NcclSenderStep DEF ByNccl, DelInv, RaceInv
<1>3. CASE ByNccl(Nccl!Publish) \/ ByNccl(Nccl!Broadcast)
  BY <1>3, NcclCollectiveStep DEF ByNccl, DelInv, RaceInv
<1>4. ASSUME NEW w \in Workers, ByNccl(Nccl!Thread(w)) PROVE DelInv'
  BY <1>4, NcclThreadStep DEF ByNccl, DelInv, RaceInv
<1>5. ASSUME NEW w \in Workers, ByNccl(Nccl!Worker(w)) \/ ByNccl(Nccl!RunCopy(w)) PROVE DelInv'
  <2>1. backend = "nccl" /\ backend' = backend /\ LinksOk /\ NcclDel /\ NcclInv
    BY <1>5 DEF ByNccl, DelInv, RaceInv
  <2>2. CASE Nccl!RunCopy(w)
    BY <2>1, <2>2, NcclYieldStep DEF DelInv
  <2>3. CASE Nccl!Worker(w)
    <3>1. \/ Nccl!NextBucket(w) \/ NcclYields(w) \/ NcclEnds(w)
          \/ (IpcStep(w) /\ UNCHANGED ncclVars)
      BY <2>1, <2>3, NcclWorkerCases
    <3> QED BY <2>1, <3>1, NcclTurnStep, NcclYieldStep DEF DelInv
  <2> QED BY <1>5, <2>2, <2>3 DEF ByNccl
<1>6. CASE ByNixl(Nixl!BuildProcessGroup) \/ ByNixl(Nixl!Sender)
  BY <1>6, NixlSenderStep DEF ByNixl, DelInv, RaceInv
<1>7. ASSUME NEW w \in Workers, ByNixl(Nixl!Transfer(w)) PROVE DelInv'
  BY <1>7, NixlTransferStep DEF ByNixl, DelInv, RaceInv
<1>8. ASSUME NEW w \in Workers, ByNixl(Nixl!Worker(w)) \/ ByNixl(Nixl!RunCopy(w)) PROVE DelInv'
  <2>1. backend = "nixl" /\ backend' = backend /\ LinksOk /\ NixlDel /\ NixlInv
    BY <1>8 DEF ByNixl, DelInv, RaceInv
  <2>2. CASE Nixl!RunCopy(w)
    BY <2>1, <2>2, NixlYieldStep DEF DelInv
  <2>3. CASE Nixl!Worker(w)
    <3>1. \/ Nixl!BeginRead(w) \/ Nixl!NextBucket(w) \/ NixlYields(w) \/ NixlEnds(w)
          \/ (IpcStep(w) /\ UNCHANGED nixlVars)
      BY <2>1, <2>3, NixlWorkerCases
    <3> QED BY <2>1, <3>1, NixlReadStep, NixlTurnStep, NixlYieldStep DEF DelInv
  <2> QED BY <1>8, <2>2, <2>3 DEF ByNixl
<1>9. CASE UNCHANGED vars
  <2>1. LinksOk' /\ \A v \in Workers : PulledBy(v)' = PulledBy(v)
    <3>1. \A v \in Workers : Yielding(v)' = Yielding(v)
      BY <1>9 DEF vars, ncclVars, nixlVars, Yielding
    <3> QED BY <1>9, <3>1, LinksStay DEF vars, DelInv
  <2>2. NaiveDel => NaiveDel'
    BY <1>9, <2>1 DEF vars, naiveVars, NaiveDel
  <2>3. NcclDel => NcclDel'
    <3> SUFFICES ASSUME NcclDel PROVE NcclDel'
      OBVIOUS
    <3>1. UNCHANGED <<pack, buf0, op0, topic, gen, meta, bufs, op>>
      BY <1>9 DEF vars, ncclVars
    <3>2. \A v \in Workers : Known(v)' = Known(v)
      BY <3>1 DEF Known
    <3>3. \A v \in Workers : JoinOk(v)' /\ CountOk(v)' /\ BuffersOk(v)'
      BY <2>1, <3>1, <3>2, WorkerStays DEF NcclDel, JoinOk
    <3> QED BY <3>1, <3>3 DEF NcclDel, BroadcastOk
  <2>4. NixlDel => NixlDel'
    <3> SUFFICES ASSUME NixlDel PROVE NixlDel'
      OBVIOUS
    <3>1. UNCHANGED <<chainPack, data, messages, chainGen, chainMeta, read>>
      BY <1>9 DEF vars, nixlVars
    <3>2. \A v \in Workers : ChainEnd(v)' = ChainEnd(v)
      BY <2>1, <3>1 DEF ChainEnd
    <3>3. PICK w \in Workers : TRUE
      BY TransferAssumption
    <3>4. \A v \in Workers : /\ SentEnd(v - 1)' = SentEnd(v - 1)
                             /\ SentLast(v - 1)' <=> SentLast(v - 1)
      BY <2>1, <3>1, <3>2, <3>3, ChainsStay
    <3>5. \A v \in Workers : ChainOk(v)'
      BY <2>1, <3>1, <3>4, ChainStays DEF NixlDel
    <3> QED BY <3>1, <3>5 DEF NixlDel, HoldOk, StageOk
  <2>5. backend' = backend
    BY <1>9 DEF vars
  <2> QED BY <2>1, <2>2, <2>3, <2>4, <2>5 DEF DelInv
<1> QED BY <1>1, <1>2, <1>3, <1>4, <1>5, <1>6, <1>7, <1>8, <1>9
    DEF Next, Group, Sender, Publish, Broadcast, Worker, Transport, RunCopy

-----------------------------------------------------------------------------
(* What the inference workers have loaded.                                 *)

\* Delivered is the count of what was loaded: all of it came in order.
Counted == Delivered = [w \in Workers |-> Len(loaded[w])]

\* A numbered beginning is a beginning: its length is what is delivered.
LEMMA DeliveredIs ==
  ASSUME TypeOK, LinksOk
  PROVE  Counted
<1>1. ASSUME NEW w \in Workers PROVE Beginning(w)
  <2>1. loaded[w] \in Seq(Nat) /\ \A i \in 1 .. Len(loaded[w]) : loaded[w][i] = 0 + i
    BY LinkTypes DEF LinksOk, LinkOk, Numbered
  <2>2. /\ DOMAIN loaded[w] = 1 .. Len(loaded[w])
        /\ loaded[w] = [i \in DOMAIN loaded[w] |-> loaded[w][i]]
    BY <2>1
  <2>3. \A i \in DOMAIN loaded[w] : loaded[w][i] = i
    BY <2>1, <2>2
  <2> QED BY <2>2, <2>3 DEF Beginning
<1> QED BY <1>1 DEF Delivered, Counted

\* A bucket is among the tensors, so what it brings the worker to is, too.
LEMMA WithinTotal ==
  ASSUME TypeOK, NEW w \in Workers, LinkOk(w), loads[w] # <<>>, ipcMeta[w] # <<>>
  PROVE  Len(loaded[w]) + Len(ipcMeta[w]) <= NumTensors
<1> DEFINE m == ipcMeta[w]
           n == Len(loaded[w])
           k == Len(m)
<1>1. m \in Seq(Tensors) /\ n \in Nat /\ k \in Nat /\ k # 0
  BY LinkTypes, EmptySeq
<1>2. Numbered(m, n)
  <2>1. link[w] = "loaded" /\ ipc[w] # "done"
    BY DEF LinkOk
  <2>2. Base(w) = n
    BY <2>1 DEF Base
  <2> QED BY <2>2 DEF LinkOk, BucketOk
<1>3. m[k] = n + k
  <2>1. k \in 1 .. Len(m)
    BY <1>1
  <2> QED BY <1>2, <2>1 DEF Numbered
<1>4. m[k] \in Tensors
  BY <1>1
<1> HIDE DEF m, n, k
<1>5. n + k <= NumTensors
  BY <1>1, <1>3, <1>4, TransferAssumption DEF Tensors
<1> QED BY <1>5 DEF m, n, k

\* Only the devices of the receivers change what is loaded, each its own.
LEMMA OnlyLoads ==
  ASSUME TypeOK, [Next]_vars
  PROVE  loaded' = loaded \/ \E w \in Workers : RunLoad(w)
<1>1. ASSUME NEW w \in Workers, IpcStep(w) PROVE loaded' = loaded \/ RunLoad(w)
  BY <1>1 DEF IpcStep, InitBuffer, SendBucket, Load, Reply
<1>2. ASSUME NEW w \in Workers, ByNaive(Naive!Worker(w)) \/ ByNaive(Naive!RunCopy(w))
      PROVE  loaded' = loaded \/ RunLoad(w)
  <2>1. CASE Naive!RunCopy(w)
    BY <2>1 DEF Naive!RunCopy, Naive!Copy
  <2>2. CASE Naive!Worker(w)
    <3>1. \/ \E t \in Tensors : Pulls(w, t, t)
          \/ PullEnds(w) \/ IpcStep(w)
      BY <2>2, NaiveLink DEF Naive!Worker, Naive!Yield, Naive!Tensors, Tensors
    <3> QED BY <1>1, <3>1 DEF Pulls, PullEnds
  <2> QED BY <1>2, <2>1, <2>2 DEF ByNaive
<1>3. CASE ByNccl(Nccl!Sender) \/ ByNccl(Nccl!Publish) \/ ByNccl(Nccl!Broadcast)
  BY <1>3 DEF ByNccl, Nccl!Sender, Nccl!Pack, Nccl!RunPack, Nccl!StartBroadcast, Nccl!Return,
              Nccl!Publish, Nccl!Broadcast, Nccl!ipcVars
<1>4. ASSUME NEW w \in Workers,
             \/ ByNccl(Nccl!Thread(w)) \/ ByNccl(Nccl!Worker(w)) \/ ByNccl(Nccl!RunCopy(w))
      PROVE  loaded' = loaded \/ RunLoad(w)
  <2>1. CASE Nccl!RunCopy(w)
    BY <2>1 DEF Nccl!RunCopy, Nccl!Copy
  <2>2. CASE Nccl!Thread(w)
    BY <2>2 DEF Nccl!Thread, Nccl!Join, Nccl!Arrive, Nccl!ipcVars
  <2>3. CASE Nccl!Worker(w)
    <3>1. Nccl!NextBucket(w) \/ NcclYields(w) \/ NcclEnds(w) \/ IpcStep(w)
      BY <2>3, NcclWorkerCases
    <3> QED BY <1>1, <3>1 DEF Nccl!NextBucket, Nccl!ipcVars, NcclYields, NcclEnds, Pulls, PullEnds
  <2> QED BY <1>4, <2>1, <2>2, <2>3 DEF ByNccl
<1>5. CASE ByNixl(Nixl!BuildProcessGroup) \/ ByNixl(Nixl!Sender)
  BY <1>5 DEF ByNixl, Nixl!BuildProcessGroup, Nixl!Sender, Nixl!Pack, Nixl!RunPack,
              Nixl!SendPacked, Nixl!Return, Nixl!ipcVars
<1>6. ASSUME NEW w \in Workers,
             \/ ByNixl(Nixl!Transfer(w)) \/ ByNixl(Nixl!Worker(w)) \/ ByNixl(Nixl!RunCopy(w))
      PROVE  loaded' = loaded \/ RunLoad(w)
  <2>1. CASE Nixl!RunCopy(w)
    BY <2>1 DEF Nixl!RunCopy, Nixl!Copy
  <2>2. CASE Nixl!Transfer(w)
    BY <2>2 DEF Nixl!Transfer, Nixl!ipcVars
  <2>3. CASE Nixl!Worker(w)
    <3>1. Nixl!BeginRead(w) \/ Nixl!NextBucket(w) \/ NixlYields(w) \/ NixlEnds(w) \/ IpcStep(w)
      BY <2>3, NixlWorkerCases
    <3> QED BY <1>1, <3>1
        DEF Nixl!BeginRead, Nixl!NextBucket, Nixl!ipcVars, NixlYields, NixlEnds, Pulls, PullEnds
  <2> QED BY <1>6, <2>1, <2>2, <2>3 DEF ByNixl
<1>7. CASE UNCHANGED vars
  BY <1>7 DEF vars, ipcVars
<1> QED BY <1>2, <1>3, <1>4, <1>5, <1>6, <1>7
    DEF Next, Group, Sender, Publish, Broadcast, Worker, Transport, RunCopy

\* A step delivers more tensors to one worker, or nothing.
LEMMA DeliveryStep ==
  ASSUME TypeOK, DelInv, Counted, Counted', [Next]_vars
  PROVE  [Delivery!Next]_Delivered
<1>1. /\ Delivered = [w \in Workers |-> Len(loaded[w])]
      /\ Delivered' = [w \in Workers |-> Len(loaded'[w])]
  BY DEF Counted
<1>2. CASE loaded' = loaded
  BY <1>1, <1>2
<1>3. ASSUME NEW w \in Workers, RunLoad(w) PROVE Delivery!Load(w) \/ Delivered' = Delivered
  <2> DEFINE n == Len(loaded[w])
             k == Len(ipcMeta[w])
             n2 == Len(loaded'[w])
  <2>1. /\ loads[w] # <<>> /\ LinkOk(w) /\ ipcMeta' = ipcMeta
        /\ \A v \in Workers : v # w => loaded'[v] = loaded[v]
    BY <1>3 DEF RunLoad, TypeOK, IpcTypes, DelInv, LinksOk
  <2>2. n \in Nat /\ k \in Nat /\ ipcMeta[w] \in Seq(Tensors)
    BY LinkTypes
  <2>3. n2 = n + k
    <3>0. Head(loads[w]) = k
      <4>1. loads[w] = <<k>>
        BY <2>1 DEF LinkOk
      <4>2. \A x : Head(<<x>>) = x
        OBVIOUS
      <4> QED BY <4>1, <4>2
    <3>1. loaded'[w] = loaded[w] \o Received(w, k) /\ loaded[w] \in Seq(Nat)
      BY <1>3, <3>0 DEF RunLoad, TypeOK, IpcTypes
    <3>2. Received(w, k) \in Seq(Nat) /\ Len(Received(w, k)) = k
      <4>1. \A i \in 1 .. k : At(ipcBuf[w], i) \in Nat
        BY <2>2, LinkTypes DEF At
      <4> QED BY <2>2, <4>1 DEF Received
    <3> DEFINE q == loaded[w]
               new == Received(w, k)
    <3>3. q \in Seq(Nat) /\ new \in Seq(Nat) /\ Len(q) = n /\ Len(new) = k
      BY <3>1, <3>2
    <3> HIDE DEF q, new, n, k
    <3>4. Len(q \o new) = Len(q) + Len(new)
      BY <3>3, ConcatProperties
    <3> QED BY <3>1, <3>3, <3>4 DEF q, new
  <2>4. Delivered' = [Delivered EXCEPT ![w] = n2]
    BY <1>1, <2>1
  <2>5. Delivered[w] = n
    BY <1>1
  <2>6. CASE ipcMeta[w] = <<>>
    <3>1. k = 0
      BY <2>6
    <3>2. n2 = n
      <4> HIDE DEF n, k, n2
      <4> QED BY <2>2, <2>3, <3>1
    <3> QED BY <1>1, <2>1, <3>2
  <2>7. CASE ipcMeta[w] # <<>>
    <3>1. n + k <= NumTensors
      BY <2>1, <2>7, WithinTotal
    <3>2. k # 0
      BY <2>2, <2>7, EmptySeq
    <3> HIDE DEF n, k, n2
    <3>3. n2 \in n + 1 .. NumTensors
      BY <2>2, <2>3, <3>1, <3>2, TransferAssumption
    <3> QED BY <2>4, <2>5, <3>3 DEF Delivery!Load
  <2> QED BY <2>6, <2>7
<1> QED BY <1>2, <1>3, OnlyLoads DEF Delivery!Next

\* What the inductive invariants need of each other.
Invariants == TypeOK /\ RaceInv /\ DelInv

\* Each engine hands the tensors on in order, through all the buffers.
THEOREM TensorsInOrder == Spec => []Invariants
<1>1. Init => Invariants
  BY InitTypes, InitRaceInv, InitDel DEF Invariants
<1>2. Invariants /\ [Next]_vars => Invariants'
  BY TypeStep, RaceInvStep, DelStep DEF Invariants
<1> QED BY <1>1, <1>2, PTL DEF Spec

\* The inference workers load the trainer's tensors, each once and in order,
\* whatever the engine: the safety of Implements.
THEOREM DeliveredInOrder == Spec => Delivery!Init /\ [][Delivery!Next]_Delivered
<1>1. Init => Delivery!Init
  <2> SUFFICES ASSUME Init PROVE Delivery!Init
    OBVIOUS
  <2>1. \A w \in Workers : loaded[w] = <<>> /\ Len(<<>>) = 0
    BY DEF Init, Naive!Init, Naive!IpcInit
  <2>2. Delivered = [w \in Workers |-> Len(loaded[w])]
    BY InitTypes, InitDel, DeliveredIs DEF DelInv, Counted
  <2> QED BY <2>1, <2>2 DEF Delivery!Init
<1>2. Invariants => Counted
  BY DeliveredIs DEF Invariants, DelInv
<1>3. Invariants /\ Counted /\ Counted' /\ [Next]_vars => [Delivery!Next]_Delivered
  BY DeliveryStep DEF Invariants
<1> QED BY <1>1, <1>2, <1>3, TensorsInOrder, PTL DEF Spec

\* Nothing is missing: a sender that is done has delivered all the tensors.
AllAtEnd == \A w \in Workers : ipc[w] = "done" => Delivered[w] = NumTensors

\* So no tensor is left in a bucket, or behind one, at the end of an update.
THEOREM AllDelivered == Spec => []AllAtEnd
<1>1. Invariants => AllAtEnd
  <2> SUFFICES ASSUME Invariants, NEW w \in Workers, ipc[w] = "done"
               PROVE  Delivered[w] = NumTensors
    BY DEF AllAtEnd
  <2> DEFINE n == Len(loaded[w])
             k == Len(ipcMeta[w])
  <2>1. TypeOK /\ LinksOk /\ PulledBy(w) = NumTensors
    BY DEF Invariants, DelInv, LinksOk, LinkOk
  <2>2. n \in Nat /\ k \in Nat
    BY <2>1, LinkTypes
  <2>3. NumTensors = n - k + k + 0
    BY <2>1 DEF PulledBy, Base
  <2>4. Delivered[w] = n
    BY <2>1, DeliveredIs DEF Counted
  <2> HIDE DEF n, k
  <2> QED BY <2>2, <2>3, <2>4
<1> QED BY <1>1, TensorsInOrder, PTL
=============================================================================
