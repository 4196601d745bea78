--------------------------- MODULE TransportProofs ---------------------------
(***************************************************************************)
(* Proofs about Transport, for any sizes of payloads and buffers, any       *)
(* number of rounds and any width of the length field.                      *)
(*                                                                          *)
(* The argument: all bytes a side has ever sent form one stream, in which   *)
(* its frames lie one after the other.  What the other side has of the      *)
(* current frame, what is on the wire and what the socket has not taken yet *)
(* are adjacent pieces of that stream, and the first begins where a frame   *)
(* does: the position the receiver has reached is never between frames.     *)
(***************************************************************************)
EXTENDS Transport, BoundedInduction, TLAPS

-----------------------------------------------------------------------------
(* Numbers.                                                                 *)

LEMMA Constant ==
  /\ Rounds \in Nat \ {0} /\ Base \in Nat \ {0, 1} /\ LenBytes \in Nat \ {0}
  /\ Capacity \in Nat \ {0} /\ PayloadSizes \subseteq Nat /\ HeaderLen = LenBytes + 1
  /\ \A s \in Side : Other[s] \in Side /\ Other[s] # s /\ Other[Other[s]] = s
  BY TransportAssumption DEF HeaderLen

LEMMA PowerType == \A k \in 0 .. LenBytes : Base ^ k \in Nat \ {0}
<1>1. DEFINE S == {k \in Nat : Base ^ k \in Nat \ {0}}
<1>2. 0 \in S
  BY PowerLaw
<1>3. ASSUME NEW k \in 1 .. LenBytes, k - 1 \in S
      PROVE  k \in S
  <2>1. Base ^ k = Base * Base ^ (k - 1) /\ Base ^ (k - 1) \in Nat \ {0}
    BY <1>3, PowerLaw
  <2>2. DEFINE w == Base ^ (k - 1)
  <2>3. HIDE DEF w
  <2>4. w \in Nat \ {0} => Base * w \in Nat \ {0}
    BY Constant
  <2>5. QED
    BY <2>1, <2>4, Constant DEF w
<1>4. QED
  BY <1>2, <1>3, UpToBound, Constant

LEMMA DivDiv ==
  ASSUME NEW x \in Nat, NEW y \in Nat \ {0}, NEW z \in Nat \ {0}
  PROVE  x \div (z * y) = (x \div y) \div z
  OBVIOUS

\* A header says the length that was put into it, if it fits.
LEMMA LengthIsSaid ==
  ASSUME NEW header, NEW len \in Nat, len < Base ^ LenBytes,
         \A k \in 1 .. LenBytes : header[k] = len_bytes(len)[k]
  PROVE  LenOf(header) = len
<1>1. DEFINE q(k) == len \div Base ^ (LenBytes - k)
             v    == [k \in 0 .. LenBytes |-> q(k)]
<1>2. ASSUME NEW k \in 0 .. LenBytes
      PROVE  q(k) \in Nat
  <2>1. Base ^ (LenBytes - k) \in Nat \ {0}
    BY Constant, PowerType
  <2>2. QED
    BY <2>1
<1>3. q(0) = 0
  <2>1. Base ^ LenBytes \in Nat \ {0}
    BY Constant, PowerType
  <2>2. QED
    BY <2>1, Constant
<1>4. q(LenBytes) = len
  BY PowerLaw, Constant
<1>5. ASSUME NEW k \in 1 .. LenBytes
      PROVE  q(k) = Base * q(k - 1) + header[k]
  <2>1. DEFINE w == Base ^ (LenBytes - k)
  <2>2. w \in Nat \ {0}
    BY Constant, PowerType
  <2>3. Base ^ (LenBytes - (k - 1)) = Base * w
    <3>1. LenBytes - (k - 1) \in 1 .. LenBytes /\ LenBytes - (k - 1) - 1 = LenBytes - k
      BY Constant
    <3>2. QED
      BY <3>1, PowerLaw
  <2>4. header[k] = q(k) % Base
    BY DEF len_bytes
  <2>5. q(k) = len \div w /\ q(k - 1) = len \div (Base * w)
    BY <2>3
  <2>6. HIDE DEF w, q
  <2>7. q(k - 1) = q(k) \div Base
    BY <2>2, <2>5, Constant, DivDiv
  <2>8. q(k) \in Nat
    BY <1>2
  <2>9. QED
    BY <2>4, <2>7, <2>8, Constant
<1>6. v = [k \in 0 .. LenBytes |-> IF k = 0 THEN 0 ELSE Base * v[k - 1] + header[k]]
  <2>1. ASSUME NEW k \in 0 .. LenBytes
        PROVE  v[k] = IF k = 0 THEN 0 ELSE Base * v[k - 1] + header[k]
    <3>1. CASE k = 0
      BY <1>3, <3>1
    <3>2. CASE k # 0
      <4>1. k \in 1 .. LenBytes /\ k - 1 \in 0 .. LenBytes
        BY <3>2, Constant
      <4>2. v[k] = q(k) /\ v[k - 1] = q(k - 1)
        BY <4>1
      <4>3. QED
        BY <1>5, <3>2, <4>1, <4>2
    <3>3. QED
      BY <3>1, <3>2
  <2>2. QED
    BY <2>1
<1>7. DEFINE u == Numbers(header)
<1>8. u = [k \in 0 .. LenBytes |-> IF k = 0 THEN 0 ELSE Base * u[k - 1] + header[k]]
  <2>1. HIDE DEF v
  <2>2. QED
    BY <1>6, Zenon DEF Numbers
<1>9. \A k \in 0 .. LenBytes : u[k] = v[k]
  <2>1. HIDE DEF u, v
  <2>2. DEFINE S == {k \in 0 .. LenBytes : u[k] = v[k]}
  <2>3. 0 \in S
    BY <1>6, <1>8, Constant
  <2>4. ASSUME NEW k \in 1 .. LenBytes, k - 1 \in S
        PROVE  k \in S
    <3>1. u[k - 1] = v[k - 1] /\ k \in 0 .. LenBytes /\ k # 0
      BY <2>4, Constant
    <3>2. u[k] = Base * u[k - 1] + header[k]
      BY <1>8, <3>1
    <3>3. v[k] = Base * v[k - 1] + header[k]
      BY <1>6, <3>1
    <3>4. QED
      BY <3>1, <3>2, <3>3
  <2>5. \A k \in 0 .. LenBytes : k \in S
    <3>1. HIDE DEF S
    <3>2. QED
      BY <2>3, <2>4, UpToBound, Constant
  <2>6. QED
    BY <2>5
<1>10. QED
  BY <1>4, <1>9, Constant DEF LenOf

-----------------------------------------------------------------------------
(* Pieces of a stream.                                                      *)

ByteSeq == Seq(Nat)

\* w is what follows position x of the stream T.
Carried(T, x, w) == \A k \in 1 .. Len(w) : x + k \in 1 .. Len(T) /\ w[k] = T[x + k]

LEMMA CarriedEmpty ==
  ASSUME NEW T, NEW x
  PROVE  Carried(T, x, <<>>)
  BY DEF Carried

LEMMA SameBytes ==
  ASSUME NEW u \in ByteSeq, NEW v \in ByteSeq, Len(u) = Len(v), \A k \in 1 .. Len(u) : u[k] = v[k]
  PROVE  u = v
<1>1. /\ u = [k \in 1 .. Len(u) |-> u[k]]
      /\ v = [k \in 1 .. Len(v) |-> v[k]]
  BY DEF ByteSeq
<1>2. QED
  BY <1>1

\* A piece is split after its first k bytes.
LEMMA CarriedSplit ==
  ASSUME NEW T \in ByteSeq, NEW x \in Nat, NEW w \in ByteSeq, NEW k \in 0 .. Len(w), Carried(T, x, w)
  PROVE  /\ SubSeq(w, 1, k) \in ByteSeq /\ Len(SubSeq(w, 1, k)) = k
         /\ SubSeq(w, k + 1, Len(w)) \in ByteSeq /\ Len(SubSeq(w, k + 1, Len(w))) = Len(w) - k
         /\ Carried(T, x, SubSeq(w, 1, k)) /\ Carried(T, x + k, SubSeq(w, k + 1, Len(w)))
<1>1. DEFINE u == SubSeq(w, 1, k)
             v == SubSeq(w, k + 1, Len(w))
<1>2. Len(w) \in Nat /\ k \in Nat /\ Len(T) \in Nat
  BY DEF ByteSeq
<1>3. u \in ByteSeq /\ Len(u) = k /\ \A i \in 1 .. k : u[i] = w[i]
  BY <1>2 DEF ByteSeq
<1>4. v \in ByteSeq /\ Len(v) = Len(w) - k /\ \A i \in 1 .. Len(w) - k : v[i] = w[k + i]
  BY <1>2 DEF ByteSeq
<1>5. HIDE DEF u, v
<1>6. Carried(T, x, u)
  BY <1>2, <1>3 DEF Carried
<1>7. ASSUME NEW i \in 1 .. Len(v)
      PROVE  x + k + i \in 1 .. Len(T) /\ v[i] = T[x + k + i]
  <2>1. k + i \in 1 .. Len(w) /\ v[i] = w[k + i] /\ x + (k + i) = x + k + i
    BY <1>2, <1>4
  <2>2. QED
    BY <2>1 DEF Carried
<1>8. QED
  BY <1>3, <1>4, <1>6, <1>7 DEF Carried, u, v

\* Adjacent pieces are joined.
LEMMA CarriedJoin ==
  ASSUME NEW T \in ByteSeq, NEW x \in Nat, NEW u \in ByteSeq, NEW v \in ByteSeq,
         Carried(T, x, u), Carried(T, x + Len(u), v)
  PROVE  /\ u \o v \in ByteSeq /\ Len(u \o v) = Len(u) + Len(v)
         /\ Carried(T, x, u \o v)
<1>1. DEFINE w == u \o v
<1>2. /\ Len(u) \in Nat /\ Len(v) \in Nat /\ Len(T) \in Nat
      /\ w \in ByteSeq /\ Len(w) = Len(u) + Len(v)
      /\ \A i \in 1 .. Len(w) : w[i] = IF i <= Len(u) THEN u[i] ELSE v[i - Len(u)]
  BY DEF ByteSeq
<1>3. HIDE DEF w
<1>4. ASSUME NEW i \in 1 .. Len(w)
      PROVE  x + i \in 1 .. Len(T) /\ w[i] = T[x + i]
  <2>1. CASE i <= Len(u)
    BY <1>2, <2>1 DEF Carried
  <2>2. CASE ~ (i <= Len(u))
    <3>1. i - Len(u) \in 1 .. Len(v) /\ x + Len(u) + (i - Len(u)) = x + i
      BY <1>2, <2>2
    <3>2. QED
      BY <1>2, <2>2, <3>1 DEF Carried
  <2>3. QED
    BY <2>1, <2>2
<1>5. QED
  BY <1>2, <1>4 DEF Carried, w

\* The stream grows at its end.
LEMMA CarriedGrow ==
  ASSUME NEW T \in ByteSeq, NEW x \in Nat, NEW w \in ByteSeq, NEW more \in ByteSeq
  PROVE  /\ T \o more \in ByteSeq /\ Len(T \o more) = Len(T) + Len(more)
         /\ Carried(T, x, w) => Carried(T \o more, x, w)
         /\ Carried(T \o more, Len(T), more)
<1>1. DEFINE U == T \o more
<1>2. /\ Len(T) \in Nat /\ Len(more) \in Nat /\ Len(w) \in Nat
      /\ U \in ByteSeq /\ Len(U) = Len(T) + Len(more)
      /\ \A i \in 1 .. Len(U) : U[i] = IF i <= Len(T) THEN T[i] ELSE more[i - Len(T)]
  BY DEF ByteSeq
<1>3. HIDE DEF U
<1>4. ASSUME Carried(T, x, w)
      PROVE  Carried(U, x, w)
  BY <1>2, <1>4 DEF Carried
<1>5. Carried(U, Len(T), more)
  <2>1. ASSUME NEW i \in 1 .. Len(more)
        PROVE  Len(T) + i \in 1 .. Len(U) /\ more[i] = U[Len(T) + i]
    <3>1. Len(T) + i \in 1 .. Len(U) /\ ~ (Len(T) + i <= Len(T)) /\ Len(T) + i - Len(T) = i
      BY <1>2
    <3>2. QED
      BY <1>2, <3>1
  <2>2. QED
    BY <2>1 DEF Carried
<1>6. QED
  BY <1>2, <1>4, <1>5 DEF U

\* Pieces of the same length at the same place are the same.
LEMMA CarriedSame ==
  ASSUME NEW T \in ByteSeq, NEW x \in Nat, NEW u \in ByteSeq, NEW v \in ByteSeq,
         Carried(T, x, u), Carried(T, x, v), Len(u) = Len(v)
  PROVE  u = v
<1>1. \A i \in 1 .. Len(u) : u[i] = v[i]
  BY DEF Carried
<1>2. QED
  BY <1>1, SameBytes

-----------------------------------------------------------------------------
(* Frames in a stream.                                                      *)

LEMMA BytesFacts ==
  ASSUME NEW r \in Nat, NEW payload \in ByteSeq
  PROVE  /\ Bytes(r, payload) \in ByteSeq
         /\ Len(Bytes(r, payload)) = HeaderLen + Len(payload)
         /\ \A k \in 1 .. LenBytes : Bytes(r, payload)[k] = len_bytes(Len(payload))[k]
         /\ SubSeq(Bytes(r, payload), HeaderLen + 1, Len(Bytes(r, payload))) = payload
<1>1. DEFINE h == len_bytes(Len(payload))
<1>2. LenBytes \in Nat /\ Len(payload) \in Nat /\ HeaderLen = LenBytes + 1
  BY Constant DEF ByteSeq
<1>3. h \in ByteSeq /\ Len(h) = LenBytes
  <2>1. ASSUME NEW k \in 1 .. LenBytes
        PROVE  (Len(payload) \div Base ^ (LenBytes - k)) % Base \in Nat
    <3>1. Base ^ (LenBytes - k) \in Nat \ {0}
      BY <1>2, PowerType
    <3>2. QED
      BY <1>2, <3>1, Constant
  <2>2. QED
    BY <1>2, <2>1 DEF len_bytes, ByteSeq
<1>4. HIDE DEF h
<1>5. h \o <<r>> \in ByteSeq /\ Len(h \o <<r>>) = HeaderLen
      /\ \A k \in 1 .. LenBytes : (h \o <<r>>)[k] = h[k]
  BY <1>2, <1>3 DEF ByteSeq
<1>6. DEFINE g == h \o <<r>>
<1>7. HIDE DEF g
<1>8. g \in ByteSeq /\ Len(g) = HeaderLen /\ (\A k \in 1 .. LenBytes : g[k] = h[k])
      /\ Bytes(r, payload) = g \o payload
  BY <1>5 DEF g, h, Bytes
<1>9. DEFINE f == g \o payload
<1>10. /\ f \in ByteSeq /\ Len(f) = HeaderLen + Len(payload)
       /\ \A k \in 1 .. LenBytes : f[k] = g[k]
       /\ \A k \in 1 .. Len(payload) : f[HeaderLen + k] = payload[k]
  <2>1. f \in ByteSeq /\ Len(f) = HeaderLen + Len(payload)
    BY <1>2, <1>8 DEF ByteSeq
  <2>2. \A k \in 1 .. Len(f) : f[k] = IF k <= Len(g) THEN g[k] ELSE payload[k - Len(g)]
    BY <1>2, <1>8 DEF ByteSeq
  <2>3. \A k \in 1 .. LenBytes : k \in 1 .. Len(f) /\ k <= Len(g)
    BY <1>2, <1>8, <2>1
  <2>4. HIDE DEF f
  <2>5. ASSUME NEW k \in 1 .. Len(payload)
        PROVE  f[HeaderLen + k] = payload[k]
    <3>1. DEFINE j == HeaderLen + k
    <3>2. j \in 1 .. Len(f) /\ ~ (j <= Len(g)) /\ j - Len(g) = k
      BY <1>2, <1>8, <2>1
    <3>3. HIDE DEF j
    <3>4. f[j] = payload[j - Len(g)]
      BY <2>2, <3>2
    <3>5. QED
      BY <3>2, <3>4 DEF j
  <2>6. \A k \in 1 .. LenBytes : f[k] = g[k]
    BY <2>2, <2>3
  <2>7. QED
    BY <2>1, <2>5, <2>6
<1>11. HIDE DEF f
<1>12. SubSeq(f, HeaderLen + 1, Len(f)) = payload
  <2>1. DEFINE p == SubSeq(f, HeaderLen + 1, Len(f))
  <2>2. p \in ByteSeq /\ Len(p) = Len(payload) /\ \A k \in 1 .. Len(payload) : p[k] = f[HeaderLen + k]
    <3>1. HeaderLen + 1 \in 1 .. Len(f) + 1 /\ Len(f) \in Nat
          /\ \A k \in 1 .. Len(payload) : HeaderLen + 1 + k - 1 = HeaderLen + k
      BY <1>2, <1>10
    <3>2. p \in ByteSeq
      BY <1>2, <1>10, <3>1 DEF ByteSeq
    <3>3. Len(p) = Len(f) - HeaderLen
      BY <1>2, <1>10, <3>1 DEF ByteSeq
    <3>4. \A k \in 1 .. Len(f) - HeaderLen : p[k] = f[HeaderLen + 1 + k - 1]
      BY <1>2, <1>10, <3>1 DEF ByteSeq
    <3>5. Len(f) - HeaderLen = Len(payload)
      BY <1>2, <1>10
    <3>6. QED
      BY <3>1, <3>2, <3>3, <3>4, <3>5
  <2>3. HIDE DEF p
  <2>4. p = payload
    BY <1>10, <2>2, SameBytes
  <2>5. QED
    BY <2>4 DEF p
<1>13. QED
  BY <1>8, <1>10, <1>12 DEF f, h

Says(frames) == \A k \in DOMAIN frames : Len(frames[k]) < Base ^ LenBytes

Initial(got, frames) == Len(got) <= Len(frames) /\ \A k \in 1 .. Len(got) : got[k] = frames[k]

\* T is the frames one after the other; p[k] is where the k-th of them ends.
Framed(T, p, frames) ==
  /\ p[Len(frames)] = Len(T)
  /\ \A k \in 1 .. Len(frames) :
       p[k] = p[k - 1] + HeaderLen + Len(frames[k]) /\ Carried(T, p[k - 1], Bytes(k, frames[k]))

Awake == {"sends", "receives"}

\* From position x on the stream is what the receiver has of its frame, what is
\* under way, and, while the sender runs, what is unsent.
Flows(T, x, fr, wi, un, st) ==
  /\ Carried(T, x, fr) /\ Carried(T, x + Len(fr), wi)
  /\ x + Len(fr) + Len(wi) <= Len(T)
  /\ st \in Awake => /\ Carried(T, x + Len(fr) + Len(wi), un)
                     /\ x + Len(fr) + Len(wi) + Len(un) = Len(T)

Pipe(frames, got, fr, wi, un, st) ==
  \E T \in ByteSeq, p \in [0 .. Len(frames) -> Nat] :
    Framed(T, p, frames) /\ Flows(T, p[Len(got)], fr, wi, un, st)

\* The socket takes bytes.
LEMMA PipeSend ==
  ASSUME NEW frames \in Seq(ByteSeq), NEW got \in Seq(ByteSeq), NEW fr \in ByteSeq, NEW wi \in ByteSeq,
         NEW un \in ByteSeq, NEW st \in Awake, NEW k \in 0 .. Len(un),
         Len(got) <= Len(frames), Pipe(frames, got, fr, wi, un, st)
  PROVE  Pipe(frames, got, fr, wi \o SubSeq(un, 1, k), SubSeq(un, k + 1, Len(un)), st)
<1>1. PICK T \in ByteSeq, p \in [0 .. Len(frames) -> Nat] :
        Framed(T, p, frames) /\ Flows(T, p[Len(got)], fr, wi, un, st)
  BY DEF Pipe
<1>2. DEFINE x == p[Len(got)]
             y == x + Len(fr)
             u == SubSeq(un, 1, k)
             v == SubSeq(un, k + 1, Len(un))
<1>3. x \in Nat /\ Len(fr) \in Nat /\ Len(wi) \in Nat /\ Len(un) \in Nat /\ k \in Nat /\ Len(T) \in Nat
      /\ y \in Nat
  BY DEF ByteSeq
<1>4. /\ Carried(T, x, fr) /\ Carried(T, y, wi) /\ Carried(T, y + Len(wi), un)
      /\ y + Len(wi) + Len(un) = Len(T)
  BY <1>1 DEF Flows
<1>5. HIDE DEF x
<1>6. y + Len(wi) \in Nat
  BY <1>3
<1>7. HIDE DEF y
<1>8. /\ u \in ByteSeq /\ Len(u) = k /\ v \in ByteSeq /\ Len(v) = Len(un) - k
      /\ Carried(T, y + Len(wi), u) /\ Carried(T, y + Len(wi) + k, v)
  BY <1>4, <1>6, CarriedSplit
<1>9. HIDE DEF u, v
<1>10. wi \o u \in ByteSeq /\ Len(wi \o u) = Len(wi) + k /\ Carried(T, y, wi \o u)
  <2>1. y \in Nat /\ u \in ByteSeq /\ Carried(T, y, wi) /\ Carried(T, y + Len(wi), u)
    BY <1>3, <1>4, <1>8
  <2>2. wi \o u \in ByteSeq /\ Len(wi \o u) = Len(wi) + Len(u) /\ Carried(T, y, wi \o u)
    BY <2>1, CarriedJoin, Zenon
  <2>3. QED
    BY <1>8, <2>2
<1>11. y + Len(wi \o u) = y + Len(wi) + k
  BY <1>3, <1>10
<1>12. y + Len(wi \o u) + Len(v) = Len(T) /\ y + Len(wi \o u) <= Len(T)
  <2>1. Len(v) = Len(un) - k /\ y + Len(wi) + Len(un) = Len(T)
    BY <1>4, <1>8
  <2>2. DEFINE c == Len(wi \o u)
  <2>3. c = Len(wi) + k
    BY <1>10
  <2>4. HIDE DEF c
  <2>5. y + c + Len(v) = Len(T) /\ y + c <= Len(T)
    <3>1. y \in Nat /\ Len(wi) \in Nat /\ Len(un) \in Nat /\ Len(T) \in Nat /\ k \in Nat /\ k <= Len(un)
      BY <1>3
    <3>2. y + c + Len(v) = y + Len(wi) + Len(un)
      BY <2>1, <2>3, <3>1
    <3>3. y + c <= y + Len(wi) + Len(un)
      BY <2>3, <3>1
    <3>4. QED
      BY <2>1, <3>2, <3>3
  <2>6. QED
    BY <2>5 DEF c
<1>13. Carried(T, y + Len(wi \o u), v)
  BY <1>8, <1>11
<1>14. Flows(T, x, fr, wi \o u, v, st)
  BY <1>4, <1>10, <1>12, <1>13 DEF Flows, y
<1>15. QED
  BY <1>1, <1>14 DEF Pipe, x, u, v

\* recv gives bytes.
LEMMA PipeRecv ==
  ASSUME NEW frames \in Seq(ByteSeq), NEW got \in Seq(ByteSeq), NEW fr \in ByteSeq, NEW wi \in ByteSeq,
         NEW un \in ByteSeq, NEW st, NEW k \in 0 .. Len(wi),
         Len(got) <= Len(frames), Pipe(frames, got, fr, wi, un, st)
  PROVE  Pipe(frames, got, fr \o SubSeq(wi, 1, k), SubSeq(wi, k + 1, Len(wi)), un, st)
<1>1. PICK T \in ByteSeq, p \in [0 .. Len(frames) -> Nat] :
        Framed(T, p, frames) /\ Flows(T, p[Len(got)], fr, wi, un, st)
  BY DEF Pipe
<1>2. DEFINE x == p[Len(got)]
             u == SubSeq(wi, 1, k)
             v == SubSeq(wi, k + 1, Len(wi))
<1>3. x \in Nat /\ Len(fr) \in Nat /\ Len(wi) \in Nat /\ Len(un) \in Nat /\ k \in Nat /\ Len(T) \in Nat
      /\ x + Len(fr) \in Nat
  BY DEF ByteSeq
<1>4. /\ Carried(T, x, fr) /\ Carried(T, x + Len(fr), wi)
      /\ x + Len(fr) + Len(wi) <= Len(T)
      /\ st \in Awake => /\ Carried(T, x + Len(fr) + Len(wi), un)
                         /\ x + Len(fr) + Len(wi) + Len(un) = Len(T)
  BY <1>1 DEF Flows
<1>5. HIDE DEF x
<1>6. /\ u \in ByteSeq /\ Len(u) = k /\ v \in ByteSeq /\ Len(v) = Len(wi) - k
      /\ Carried(T, x + Len(fr), u) /\ Carried(T, x + Len(fr) + k, v)
  BY <1>3, <1>4, CarriedSplit
<1>7. HIDE DEF u, v
<1>8. fr \o u \in ByteSeq /\ Len(fr \o u) = Len(fr) + k /\ Carried(T, x, fr \o u)
  <2>1. x \in Nat /\ u \in ByteSeq /\ Carried(T, x, fr) /\ Carried(T, x + Len(fr), u)
    BY <1>3, <1>4, <1>6
  <2>2. fr \o u \in ByteSeq /\ Len(fr \o u) = Len(fr) + Len(u) /\ Carried(T, x, fr \o u)
    BY <2>1, CarriedJoin, Zenon
  <2>3. QED
    BY <1>6, <2>2
<1>9. x + Len(fr \o u) = x + Len(fr) + k /\ x + Len(fr \o u) + Len(v) = x + Len(fr) + Len(wi)
  BY <1>3, <1>6, <1>8
<1>10. Carried(T, x + Len(fr \o u), v)
  BY <1>6, <1>9
<1>11. Flows(T, x, fr \o u, v, un, st)
  BY <1>4, <1>8, <1>9, <1>10 DEF Flows
<1>12. QED
  BY <1>1, <1>11 DEF Pipe, x, u, v

\* The connection is cut: what is under way arrives up to some byte.
LEMMA PipeCut ==
  ASSUME NEW frames \in Seq(ByteSeq), NEW got \in Seq(ByteSeq), NEW fr \in ByteSeq, NEW wi \in ByteSeq,
         NEW un, NEW st, NEW k \in 0 .. Len(wi), NEW st2, st2 \notin Awake, NEW un2,
         Len(got) <= Len(frames), Pipe(frames, got, fr, wi, un, st)
  PROVE  Pipe(frames, got, fr, SubSeq(wi, 1, k), un2, st2)
<1>1. PICK T \in ByteSeq, p \in [0 .. Len(frames) -> Nat] :
        Framed(T, p, frames) /\ Flows(T, p[Len(got)], fr, wi, un, st)
  BY DEF Pipe
<1>2. DEFINE x == p[Len(got)]
             u == SubSeq(wi, 1, k)
<1>3. x \in Nat /\ Len(fr) \in Nat /\ Len(wi) \in Nat /\ k \in Nat /\ Len(T) \in Nat
      /\ x + Len(fr) \in Nat
  BY DEF ByteSeq
<1>4. /\ Carried(T, x, fr) /\ Carried(T, x + Len(fr), wi)
      /\ x + Len(fr) + Len(wi) <= Len(T)
  BY <1>1 DEF Flows
<1>5. HIDE DEF x
<1>6. u \in ByteSeq /\ Len(u) = k /\ Carried(T, x + Len(fr), u)
  BY <1>3, <1>4, CarriedSplit
<1>7. HIDE DEF u
<1>8. x + Len(fr) + Len(u) <= Len(T)
  BY <1>3, <1>4, <1>6
<1>9. Flows(T, x, fr, u, un2, st2)
  BY <1>4, <1>6, <1>8 DEF Flows
<1>10. QED
  BY <1>1, <1>9 DEF Pipe, x, u

\* A complete frame is the next one that was sent.
LEMMA PipeDone ==
  ASSUME NEW frames \in Seq(ByteSeq), NEW got \in Seq(ByteSeq), NEW fr \in ByteSeq, NEW wi \in ByteSeq,
         NEW un \in ByteSeq, NEW st, Says(frames), Initial(got, frames),
         Pipe(frames, got, fr, wi, un, st), Len(fr) >= HeaderLen, Wanted(fr) = 0
  PROVE  /\ SubSeq(fr, HeaderLen + 1, Len(fr)) \in ByteSeq
         /\ Initial(Append(got, SubSeq(fr, HeaderLen + 1, Len(fr))), frames)
         /\ Pipe(frames, Append(got, SubSeq(fr, HeaderLen + 1, Len(fr))), <<>>, wi, un, st)
<1>1. PICK T \in ByteSeq, p \in [0 .. Len(frames) -> Nat] :
        Framed(T, p, frames) /\ Flows(T, p[Len(got)], fr, wi, un, st)
  BY DEF Pipe
<1>2. DEFINE n == Len(got)
             x == p[n]
<1>3. n \in Nat /\ Len(frames) \in Nat /\ n <= Len(frames) /\ Len(fr) \in Nat /\ Len(wi) \in Nat
      /\ Len(T) \in Nat
  BY DEF ByteSeq, Initial
<1>4. x \in Nat
  BY <1>3
<1>5. /\ Carried(T, x, fr) /\ Carried(T, x + Len(fr), wi)
      /\ x + Len(fr) + Len(wi) <= Len(T)
      /\ st \in Awake => /\ Carried(T, x + Len(fr) + Len(wi), un)
                         /\ x + Len(fr) + Len(wi) + Len(un) = Len(T)
  BY <1>1 DEF Flows
<1>6. n # Len(frames)
  <2>1. SUFFICES ASSUME n = Len(frames) PROVE FALSE
    OBVIOUS
  <2>2. x = Len(T)
    BY <1>1, <2>1 DEF Framed
  <2>3. HIDE DEF x
  <2>4. QED
    BY <1>3, <1>4, <1>5, <2>2, Constant
<1>7. DEFINE pay == frames[n + 1]
             b   == Bytes(n + 1, pay)
<1>8. n + 1 \in 1 .. Len(frames) /\ n + 1 \in Nat /\ n + 1 - 1 = n
  BY <1>3, <1>6
<1>9. pay \in ByteSeq /\ Len(pay) \in Nat /\ Len(pay) < Base ^ LenBytes
  BY <1>8 DEF Says, ByteSeq
<1>10. p[n + 1] = x + HeaderLen + Len(pay) /\ Carried(T, x, b)
  BY <1>1, <1>8 DEF Framed
<1>11. HIDE DEF x, pay
<1>12. /\ b \in ByteSeq /\ Len(b) = HeaderLen + Len(pay)
       /\ \A k \in 1 .. LenBytes : b[k] = len_bytes(Len(pay))[k]
       /\ SubSeq(b, HeaderLen + 1, Len(b)) = pay
  BY <1>8, <1>9, BytesFacts
<1>13. HIDE DEF b, n
<1>14. \A k \in 1 .. LenBytes : fr[k] = len_bytes(Len(pay))[k]
  <2>1. ASSUME NEW k \in 1 .. LenBytes
        PROVE  fr[k] = b[k]
    <3>1. k \in 1 .. Len(fr) /\ k \in 1 .. Len(b)
      BY <1>3, <1>9, <1>12, Constant
    <3>2. QED
      BY <1>5, <1>10, <3>1 DEF Carried
  <2>2. QED
    BY <1>12, <2>1
<1>15. LenOf(fr) = Len(pay)
  BY <1>9, <1>14, LengthIsSaid
<1>16. Len(fr) = HeaderLen + Len(pay)
  BY <1>3, <1>9, <1>15, Constant DEF Wanted
<1>17. fr = b
  BY <1>4, <1>5, <1>10, <1>12, <1>16, CarriedSame
<1>18. SubSeq(fr, HeaderLen + 1, Len(fr)) = pay
  BY <1>12, <1>17
<1>19. DEFINE got2 == Append(got, pay)
<1>20. Len(got2) = n + 1 /\ got2[n + 1] = pay /\ \A k \in 1 .. n : got2[k] = got[k]
  BY <1>9 DEF n
<1>21. HIDE DEF got2
<1>22. Initial(got2, frames)
  <2>1. \A k \in 1 .. n + 1 : k \in 1 .. n \/ k = n + 1
    BY <1>3 DEF n
  <2>2. \A k \in 1 .. n : got[k] = frames[k]
    BY DEF Initial, n
  <2>3. QED
    BY <1>8, <1>20, <2>1, <2>2 DEF Initial, pay
<1>23. Flows(T, p[n + 1], <<>>, wi, un, st)
  <2>1. DEFINE z == p[n + 1]
  <2>2. z = x + Len(fr) /\ z + Len(<<>>) = z /\ z \in Nat
    BY <1>3, <1>4, <1>9, <1>10, <1>16, Constant
  <2>3. HIDE DEF z
  <2>4. Carried(T, z, <<>>)
    BY CarriedEmpty
  <2>5. QED
    BY <1>5, <2>2, <2>4 DEF Flows, z
<1>24. Pipe(frames, got2, <<>>, wi, un, st)
  BY <1>1, <1>20, <1>23 DEF Pipe
<1>25. QED
  BY <1>9, <1>18, <1>22, <1>24 DEF got2

\* The next frame is sent, once the one before is.
LEMMA PipeMore ==
  ASSUME NEW frames \in Seq(ByteSeq), NEW got \in Seq(ByteSeq), NEW fr \in ByteSeq, NEW wi \in ByteSeq,
         NEW st \in Awake, NEW st2 \in Awake, NEW payload \in ByteSeq,
         Initial(got, frames), Pipe(frames, got, fr, wi, <<>>, st)
  PROVE  /\ Initial(got, Append(frames, payload))
         /\ Pipe(Append(frames, payload), got, fr, wi, Bytes(Len(frames) + 1, payload), st2)
<1>1. PICK T \in ByteSeq, p \in [0 .. Len(frames) -> Nat] :
        Framed(T, p, frames) /\ Flows(T, p[Len(got)], fr, wi, <<>>, st)
  BY DEF Pipe
<1>2. DEFINE n == Len(got)
             m == Len(frames)
             x == p[n]
             f2 == Append(frames, payload)
             b == Bytes(m + 1, payload)
             T2 == T \o b
<1>3. n \in Nat /\ m \in Nat /\ n <= m /\ Len(fr) \in Nat /\ Len(wi) \in Nat
      /\ Len(T) \in Nat
  BY DEF ByteSeq, Initial
<1>4. x \in Nat
  BY <1>3
<1>5. /\ Carried(T, x, fr) /\ Carried(T, x + Len(fr), wi)
      /\ x + Len(fr) + Len(wi) = Len(T)
  <2>1. /\ Carried(T, x, fr) /\ Carried(T, x + Len(fr), wi)
        /\ x + Len(fr) + Len(wi) + Len(<<>>) = Len(T)
    BY <1>1 DEF Flows
  <2>2. HIDE DEF x
  <2>3. QED
    BY <1>3, <1>4, <2>1
<1>6. /\ Len(f2) = m + 1 /\ f2[m + 1] = payload /\ \A k \in 1 .. m : f2[k] = frames[k]
  OBVIOUS
<1>7. b \in ByteSeq /\ Len(b) = HeaderLen + Len(payload) /\ Len(payload) \in Nat
  <2>1. Len(payload) \in Nat
    BY DEF ByteSeq
  <2>2. m + 1 \in Nat
    BY <1>3
  <2>3. HIDE DEF m
  <2>4. QED
    BY <2>1, <2>2, BytesFacts
<1>8. HIDE DEF b, f2, m
<1>9. T2 \in ByteSeq /\ Len(T2) = Len(T) + Len(b) /\ Carried(T2, Len(T), b)
  BY <1>3, <1>7, CarriedGrow
<1>10. ASSUME NEW y \in Nat, NEW w \in ByteSeq, Carried(T, y, w)
       PROVE  Carried(T2, y, w)
  BY <1>7, <1>10, CarriedGrow
<1>11. HIDE DEF T2
<1>12. DEFINE p2 == [k \in 0 .. m + 1 |-> IF k = m + 1 THEN Len(T2) ELSE p[k]]
<1>13. p2 \in [0 .. m + 1 -> Nat]
  <2>1. ASSUME NEW k \in 0 .. m + 1
        PROVE  (IF k = m + 1 THEN Len(T2) ELSE p[k]) \in Nat
    <3>1. Len(T2) \in Nat
      BY <1>3, <1>7, <1>9, Constant
    <3>2. k # m + 1 => k \in 0 .. Len(frames)
      BY <1>3 DEF m
    <3>3. QED
      BY <3>1, <3>2
  <2>2. QED
    BY <2>1
<1>14. p2[m + 1] = Len(T2) /\ \A k \in 0 .. m : p2[k] = p[k]
  BY <1>3
<1>15. HIDE DEF p2
<1>16. Framed(T2, p2, f2)
  <2>1. ASSUME NEW k \in 1 .. m + 1
        PROVE  p2[k] = p2[k - 1] + HeaderLen + Len(f2[k]) /\ Carried(T2, p2[k - 1], Bytes(k, f2[k]))
    <3>1. CASE k = m + 1
      <4>1. k - 1 = m /\ m \in 0 .. m
        BY <1>3, <3>1
      <4>2. p2[k - 1] = Len(T) /\ f2[k] = payload /\ p2[k] = Len(T2) /\ Bytes(k, f2[k]) = b
        BY <1>1, <1>6, <1>14, <3>1, <4>1 DEF Framed, m, b
      <4>3. Len(T2) = Len(T) + HeaderLen + Len(payload)
        BY <1>3, <1>7, <1>9, Constant
      <4>4. QED
        BY <1>9, <4>2, <4>3
    <3>2. CASE k # m + 1
      <4>1. k \in 1 .. m /\ k - 1 \in 0 .. m /\ k \in 0 .. m /\ k \in Nat
        BY <1>3, <3>2
      <4>2. p2[k - 1] = p[k - 1] /\ f2[k] = frames[k] /\ p2[k] = p[k]
        BY <1>6, <1>14, <4>1
      <4>3. p[k] = p[k - 1] + HeaderLen + Len(frames[k]) /\ Carried(T, p[k - 1], Bytes(k, frames[k]))
        BY <1>1, <4>1 DEF Framed, m
      <4>4. p[k - 1] \in Nat /\ frames[k] \in ByteSeq
        BY <4>1 DEF m
      <4>5. Bytes(k, frames[k]) \in ByteSeq
        BY <4>1, <4>4, BytesFacts
      <4>6. Carried(T2, p[k - 1], Bytes(k, frames[k]))
        BY <1>10, <4>3, <4>4, <4>5
      <4>7. QED
        BY <4>2, <4>3, <4>6
    <3>3. QED
      BY <3>1, <3>2
  <2>2. QED
    BY <1>6, <1>14, <2>1 DEF Framed
<1>17. p2[n] = x
  BY <1>3, <1>14
<1>18. HIDE DEF x, n
<1>19. Flows(T2, x, fr, wi, b, st2)
  <2>1. Carried(T2, x, fr)
    BY <1>4, <1>5, <1>10
  <2>2. Carried(T2, x + Len(fr), wi)
    <3>1. x + Len(fr) \in Nat
      BY <1>3, <1>4
    <3>2. QED
      BY <1>5, <1>10, <3>1
  <2>3. x + Len(fr) + Len(wi) <= Len(T2) /\ x + Len(fr) + Len(wi) + Len(b) = Len(T2)
    <3>1. Len(b) \in Nat
      BY <1>7, Constant
    <3>2. QED
      BY <1>3, <1>4, <1>5, <1>9, <3>1
  <2>4. Carried(T2, x + Len(fr) + Len(wi), b)
    BY <1>5, <1>9
  <2>5. QED
    BY <2>1, <2>2, <2>3, <2>4 DEF Flows
<1>20. Pipe(f2, got, fr, wi, b, st2)
  <2>1. p2 \in [0 .. Len(f2) -> Nat] /\ p2[Len(got)] = x
    BY <1>6, <1>13, <1>17 DEF n
  <2>2. QED
    BY <1>9, <1>16, <1>19, <2>1 DEF Pipe
<1>21. Initial(got, f2)
  <2>1. \A k \in 1 .. Len(got) : k \in 1 .. m /\ got[k] = frames[k]
    BY <1>3 DEF Initial, n, m
  <2>2. QED
    BY <1>3, <1>6, <2>1 DEF Initial, n
<1>22. QED
  BY <1>20, <1>21 DEF f2, b, m

-----------------------------------------------------------------------------
(* The invariant.                                                           *)

States == Awake \cup {"returned", "gone"}

Types ==
  /\ round \in [Side -> Nat] /\ state \in [Side -> States]
  /\ unsent \in [Side -> ByteSeq] /\ wire \in [Side -> ByteSeq] /\ frame \in [Side -> ByteSeq]
  /\ sent \in [Side -> Seq(ByteSeq)] /\ received \in [Side -> Seq(ByteSeq)]

\* A running side has sent the frame of its round and received those before it.
Counts(s) ==
  /\ state[s] \in Awake => Len(sent[s]) = round[s] /\ Len(received[s]) + 1 = round[s]
  /\ state[s] = "sends" => frame[s] = <<>>
  /\ state[s] = "receives" => unsent[s] = <<>>

\* One direction of the connection: frames sent, those received, what the
\* receiver has of the next, what is under way and unsent, and both states.
LinkOf(frames, got, fr, wi, un, st, peer) ==
  Says(frames) => Initial(got, frames) /\ (peer \in Awake => Pipe(frames, got, fr, wi, un, st))

Link(s) ==
  LinkOf(sent[s], received[Other[s]], frame[Other[s]], wire[Other[s]], unsent[s], state[s], state[Other[s]])

TransportInv == Types /\ \A s \in Side : Counts(s) /\ Link(s)

LEMMA PayloadType ==
  ASSUME NEW r \in Nat, NEW size \in Sizes(r)
  PROVE  Payload(r, size) \in ByteSeq /\ Bytes(r, Payload(r, size)) \in ByteSeq
<1>1. size \in Nat
  BY Constant DEF Sizes
<1>2. \A k \in 1 .. size : (r + k) % Base \in Nat
  BY <1>1, Constant
<1>3. Payload(r, size) \in ByteSeq
  BY <1>1, <1>2 DEF Payload, ByteSeq
<1>4. QED
  BY <1>3, BytesFacts

LEMMA SaysBefore ==
  ASSUME NEW frames \in Seq(ByteSeq), NEW payload \in ByteSeq, Says(Append(frames, payload))
  PROVE  Says(frames)
<1>1. DEFINE f2 == Append(frames, payload)
<1>2. /\ DOMAIN frames = 1 .. Len(frames) /\ DOMAIN f2 = 1 .. Len(frames) + 1 /\ Len(frames) \in Nat
      /\ \A k \in 1 .. Len(frames) : f2[k] = frames[k]
  OBVIOUS
<1>3. HIDE DEF f2
<1>4. Says(f2)
  BY DEF f2
<1>5. QED
  BY <1>2, <1>4 DEF Says

LEMMA PipeStart ==
  ASSUME NEW payload \in ByteSeq
  PROVE  /\ Initial(<<>>, <<payload>>)
         /\ Pipe(<<payload>>, <<>>, <<>>, <<>>, Bytes(1, payload), "sends")
<1>1. /\ <<>> \in ByteSeq /\ <<>> \in Seq(ByteSeq) /\ Len(<<>>) = 0
      /\ Append(<<>>, payload) = <<payload>> /\ "sends" \in Awake
  BY DEF ByteSeq, Awake
<1>2. Initial(<<>>, <<>>)
  BY <1>1 DEF Initial
<1>3. Pipe(<<>>, <<>>, <<>>, <<>>, <<>>, "sends")
  <2>1. DEFINE p == [k \in 0 .. 0 |-> 0]
  <2>2. p \in [0 .. Len(<<>>) -> Nat] /\ p[Len(<<>>)] = 0
    BY <1>1
  <2>3. HIDE DEF p
  <2>4. Framed(<<>>, p, <<>>)
    BY <1>1, <2>2 DEF Framed
  <2>5. Flows(<<>>, 0, <<>>, <<>>, <<>>, "sends")
    BY <1>1 DEF Flows, Carried
  <2>6. QED
    BY <1>1, <2>2, <2>4, <2>5 DEF Pipe
<1>4. /\ Initial(<<>>, Append(<<>>, payload))
      /\ Pipe(Append(<<>>, payload), <<>>, <<>>, <<>>, Bytes(Len(<<>>) + 1, payload), "sends")
  BY <1>1, <1>2, <1>3, PipeMore
<1>5. Len(<<>>) + 1 = 1
  BY <1>1
<1>6. QED
  BY <1>1, <1>4, <1>5

LEMMA TransportInit == Init => TransportInv
<1>1. SUFFICES ASSUME Init PROVE TransportInv
  OBVIOUS
<1>2. PICK size \in [Side -> Sizes(1)] :
        /\ unsent = [s \in Side |-> Bytes(1, Payload(1, size[s]))]
        /\ sent = [s \in Side |-> <<Payload(1, size[s])>>]
  BY <1>1 DEF Init
<1>3. ASSUME NEW s \in Side
      PROVE  /\ Payload(1, size[s]) \in ByteSeq /\ Bytes(1, Payload(1, size[s])) \in ByteSeq
             /\ unsent[s] = Bytes(1, Payload(1, size[s])) /\ sent[s] = <<Payload(1, size[s])>>
             /\ round[s] = 1 /\ state[s] = "sends" /\ wire[s] = <<>> /\ frame[s] = <<>>
             /\ received[s] = <<>>
  <2>1. size[s] \in Sizes(1)
    OBVIOUS
  <2>2. QED
    BY <1>1, <1>2, <2>1, PayloadType DEF Init
<1>4. <<>> \in ByteSeq /\ <<>> \in Seq(ByteSeq) /\ "sends" \in Awake /\ "sends" # "receives"
  BY DEF ByteSeq, Awake
<1>5. Types
  <2>1. round \in [Side -> Nat] /\ state \in [Side -> States]
    BY <1>1 DEF Init, States, Awake
  <2>2. wire \in [Side -> ByteSeq] /\ frame \in [Side -> ByteSeq] /\ received \in [Side -> Seq(ByteSeq)]
    BY <1>1, <1>4 DEF Init
  <2>3. unsent \in [Side -> ByteSeq] /\ sent \in [Side -> Seq(ByteSeq)]
    BY <1>2, <1>3
  <2>4. QED
    BY <2>1, <2>2, <2>3 DEF Types
<1>6. ASSUME NEW s \in Side
      PROVE  Counts(s)
  <2>1. \A x : Len(<<x>>) = 1 /\ Len(<<>>) + 1 = 1
    OBVIOUS
  <2>2. QED
    BY <1>3, <1>4, <2>1, Zenon DEF Counts
<1>7. ASSUME NEW s \in Side
      PROVE  Link(s)
  <2>1. Other[s] \in Side
    BY Constant
  <2>2. DEFINE pay == Payload(1, size[s])
  <2>3. /\ sent[s] = <<pay>> /\ received[Other[s]] = <<>> /\ frame[Other[s]] = <<>>
        /\ wire[Other[s]] = <<>> /\ unsent[s] = Bytes(1, pay) /\ state[s] = "sends" /\ pay \in ByteSeq
    BY <1>3, <2>1
  <2>4. HIDE DEF pay
  <2>5. Initial(<<>>, <<pay>>) /\ Pipe(<<pay>>, <<>>, <<>>, <<>>, Bytes(1, pay), "sends")
    BY <2>3, PipeStart
  <2>6. QED
    BY <2>3, <2>5 DEF Link, LinkOf
<1>8. QED
  BY <1>5, <1>6, <1>7 DEF TransportInv

LEMMA Pairs ==
  ASSUME NEW s \in Side, NEW t \in Side
  PROVE  /\ Other[s] \in Side /\ Other[s] # s /\ Other[Other[s]] = s /\ Other[t] \in Side
         /\ t # s => Other[t] # Other[s]
         /\ t # Other[s] => Other[t] # s
  BY Constant

LEMMA TypeFacts ==
  ASSUME Types, NEW s \in Side
  PROVE  /\ round[s] \in Nat /\ state[s] \in States
         /\ unsent[s] \in ByteSeq /\ wire[s] \in ByteSeq /\ frame[s] \in ByteSeq
         /\ sent[s] \in Seq(ByteSeq) /\ received[s] \in Seq(ByteSeq)
         /\ Len(unsent[s]) \in Nat /\ Len(wire[s]) \in Nat /\ Len(frame[s]) \in Nat
<1>1. unsent[s] \in ByteSeq /\ wire[s] \in ByteSeq /\ frame[s] \in ByteSeq
  BY DEF Types
<1>2. Len(unsent[s]) \in Nat /\ Len(wire[s]) \in Nat /\ Len(frame[s]) \in Nat
  BY <1>1 DEF ByteSeq
<1>3. QED
  BY <1>1, <1>2 DEF Types

\* A step of others leaves a direction as it is.
LEMMA LinkSame ==
  ASSUME NEW t \in Side, Link(t),
         sent'[t] = sent[t], received'[Other[t]] = received[Other[t]], frame'[Other[t]] = frame[Other[t]],
         wire'[Other[t]] = wire[Other[t]], unsent'[t] = unsent[t], state'[t] = state[t],
         state'[Other[t]] = state[Other[t]]
  PROVE  Link(t)'
  BY DEF Link

LEMMA Parts ==
  ASSUME NEW u \in ByteSeq, NEW k \in 0 .. Len(u)
  PROVE  SubSeq(u, 1, k) \in ByteSeq /\ SubSeq(u, k + 1, Len(u)) \in ByteSeq
  BY DEF ByteSeq

LEMMA Joined ==
  ASSUME NEW u \in ByteSeq, NEW v \in ByteSeq
  PROVE  u \o v \in ByteSeq
  BY DEF ByteSeq

LEMMA SendStep ==
  ASSUME TransportInv, NEW s \in Side, NEW k \in 1 .. Capacity, Send(s, k)
  PROVE  TransportInv'
<1>1. DEFINE o == Other[s]
             u == SubSeq(unsent[s], 1, k)
             v == SubSeq(unsent[s], k + 1, Len(unsent[s]))
<1>2. Types /\ (\A t \in Side : Counts(t) /\ Link(t)) /\ o \in Side /\ o # s /\ Other[o] = s
  BY Pairs DEF TransportInv
<1>3. state[s] = "sends" /\ state[s] \in Awake /\ k \in 0 .. Len(unsent[s])
  BY <1>2, TypeFacts, Constant DEF Send, Awake
<1>4. u \in ByteSeq /\ v \in ByteSeq
  BY <1>2, <1>3, TypeFacts, Parts
<1>5. HIDE DEF u, v
<1>6. /\ unsent' = [unsent EXCEPT ![s] = v]
      /\ UNCHANGED <<round, state, frame, sent, received>>
  BY DEF Send, v
<1>7. \/ state[o] \in Awake /\ wire' = [wire EXCEPT ![o] = wire[o] \o u]
      \/ state[o] \notin Awake /\ wire' = wire
  BY DEF Send, Running, Awake, u
<1>8. Types'
  <2>1. wire[o] \o u \in ByteSeq
    BY <1>2, <1>4, TypeFacts, Joined
  <2>2. wire' \in [Side -> ByteSeq]
    BY <1>2, <1>7, <2>1 DEF Types
  <2>3. unsent' \in [Side -> ByteSeq]
    BY <1>2, <1>4, <1>6 DEF Types
  <2>4. QED
    BY <1>2, <1>6, <2>2, <2>3 DEF Types
<1>9. ASSUME NEW t \in Side
      PROVE  Counts(t)'
  <2>1. t # s => unsent'[t] = unsent[t]
    BY <1>2, <1>6 DEF Types
  <2>2. QED
    BY <1>2, <1>3, <1>6, <2>1 DEF Counts
<1>10. ASSUME NEW t \in Side
       PROVE  Link(t)'
  <2>1. CASE t # s
    <3>1. Other[t] # o /\ Other[t] \in Side
      BY <2>1, Pairs
    <3>2. unsent'[t] = unsent[t] /\ wire'[Other[t]] = wire[Other[t]]
      BY <1>2, <1>6, <1>7, <2>1, <3>1 DEF Types
    <3>3. QED
      BY <1>2, <1>6, <3>2, LinkSame
  <2>2. CASE t = s
    <3>1. unsent'[s] = v
      BY <1>2, <1>6 DEF Types
    <3>2. CASE state[o] \in Awake
      <4>1. wire'[o] = wire[o] \o u
        BY <1>2, <1>7, <3>2 DEF Types
      <4>2. ASSUME Says(sent[s])
            PROVE  /\ Initial(received[o], sent[s])
                   /\ Pipe(sent[s], received[o], frame[o], wire[o] \o u, v, state[s])
        <5>1. Initial(received[o], sent[s]) /\ Pipe(sent[s], received[o], frame[o], wire[o], unsent[s], state[s])
          BY <1>2, <3>2, <4>2 DEF Link, LinkOf
        <5>2. Len(received[o]) <= Len(sent[s])
          BY <5>1 DEF Initial
        <5>3. /\ sent[s] \in Seq(ByteSeq) /\ received[o] \in Seq(ByteSeq) /\ frame[o] \in ByteSeq
              /\ wire[o] \in ByteSeq /\ unsent[s] \in ByteSeq
          BY <1>2, TypeFacts
        <5>4. Pipe(sent[s], received[o], frame[o], wire[o] \o u, v, state[s])
          BY <1>3, <5>1, <5>2, <5>3, PipeSend DEF u, v
        <5>5. QED
          BY <5>1, <5>4
      <4>3. QED
        BY <1>6, <2>2, <3>1, <4>1, <4>2 DEF Link, LinkOf
    <3>3. CASE state[o] \notin Awake
      BY <1>2, <1>6, <2>2, <3>3 DEF Link, LinkOf
    <3>4. QED
      BY <3>2, <3>3
  <2>3. QED
    BY <2>1, <2>2
<1>11. QED
  BY <1>8, <1>9, <1>10 DEF TransportInv

LEMMA RecvStep ==
  ASSUME TransportInv, NEW s \in Side, NEW k \in 1 .. Capacity, Recv(s, k)
  PROVE  TransportInv'
<1>1. DEFINE o == Other[s]
             u == SubSeq(wire[s], 1, k)
             v == SubSeq(wire[s], k + 1, Len(wire[s]))
<1>2. Types /\ (\A t \in Side : Counts(t) /\ Link(t)) /\ o \in Side /\ o # s /\ Other[o] = s
  BY Pairs DEF TransportInv
<1>3. state[s] = "receives" /\ state[s] \in Awake /\ k \in 0 .. Len(wire[s])
  BY <1>2, TypeFacts, Constant DEF Recv, Awake
<1>4. u \in ByteSeq /\ v \in ByteSeq
  BY <1>2, <1>3, TypeFacts, Parts
<1>5. HIDE DEF u, v
<1>6. /\ wire' = [wire EXCEPT ![s] = v] /\ frame' = [frame EXCEPT ![s] = frame[s] \o u]
      /\ UNCHANGED <<round, state, unsent, sent, received>>
  BY DEF Recv, u, v
<1>7. Types'
  <2>1. frame[s] \o u \in ByteSeq
    BY <1>2, <1>4, TypeFacts, Joined
  <2>2. frame' \in [Side -> ByteSeq]
    BY <1>2, <1>6, <2>1 DEF Types
  <2>3. wire' \in [Side -> ByteSeq]
    BY <1>2, <1>4, <1>6 DEF Types
  <2>4. QED
    BY <1>2, <1>6, <2>2, <2>3 DEF Types
<1>8. ASSUME NEW t \in Side
      PROVE  Counts(t)'
  <2>1. t # s => frame'[t] = frame[t]
    BY <1>2, <1>6 DEF Types
  <2>2. QED
    BY <1>2, <1>3, <1>6, <2>1 DEF Counts
<1>9. ASSUME NEW t \in Side
      PROVE  Link(t)'
  <2>1. CASE t # o
    <3>1. Other[t] # s /\ Other[t] \in Side
      BY <2>1, Pairs
    <3>2. frame'[Other[t]] = frame[Other[t]] /\ wire'[Other[t]] = wire[Other[t]]
      BY <1>2, <1>6, <3>1 DEF Types
    <3>3. QED
      BY <1>2, <1>6, <3>2, LinkSame
  <2>2. CASE t = o
    <3>1. wire'[s] = v /\ frame'[s] = frame[s] \o u
      BY <1>2, <1>6 DEF Types
    <3>2. ASSUME Says(sent[o])
          PROVE  /\ Initial(received[s], sent[o])
                 /\ Pipe(sent[o], received[s], frame[s] \o u, v, unsent[o], state[o])
      <4>1. Initial(received[s], sent[o]) /\ Pipe(sent[o], received[s], frame[s], wire[s], unsent[o], state[o])
        BY <1>2, <1>3, <3>2 DEF Link, LinkOf
      <4>2. Len(received[s]) <= Len(sent[o])
        BY <4>1 DEF Initial
      <4>3. /\ sent[o] \in Seq(ByteSeq) /\ received[s] \in Seq(ByteSeq) /\ frame[s] \in ByteSeq
            /\ wire[s] \in ByteSeq /\ unsent[o] \in ByteSeq
        BY <1>2, TypeFacts
      <4>4. Pipe(sent[o], received[s], frame[s] \o u, v, unsent[o], state[o])
        BY <1>3, <4>1, <4>2, <4>3, PipeRecv DEF u, v
      <4>5. QED
        BY <4>1, <4>4
    <3>3. QED
      BY <1>2, <1>6, <2>2, <3>1, <3>2 DEF Link, LinkOf
  <2>3. QED
    BY <2>1, <2>2
<1>10. QED
  BY <1>7, <1>8, <1>9 DEF TransportInv

LEMMA SendAllDoneStep ==
  ASSUME TransportInv, NEW s \in Side, SendAllDone(s)
  PROVE  TransportInv'
<1>1. Types /\ \A t \in Side : Counts(t) /\ Link(t)
  BY DEF TransportInv
<1>2. /\ state[s] = "sends" /\ unsent[s] = <<>> /\ state' = [state EXCEPT ![s] = "receives"]
      /\ UNCHANGED <<round, unsent, wire, frame, sent, received>>
  BY DEF SendAllDone
<1>3. /\ state'[s] = "receives" /\ \A t \in Side : t # s => state'[t] = state[t]
      /\ state' \in [Side -> States]
  BY <1>1, <1>2 DEF Types, States, Awake
<1>4. Types'
  BY <1>1, <1>2, <1>3 DEF Types
<1>5. ASSUME NEW t \in Side
      PROVE  Counts(t)'
  BY <1>1, <1>2, <1>3 DEF Counts, Awake
<1>6. ASSUME NEW t \in Side
      PROVE  Link(t)'
  <2>1. Other[t] \in Side
    BY Pairs
  <2>2. (state'[t] \in Awake <=> state[t] \in Awake) /\ (state'[Other[t]] \in Awake <=> state[Other[t]] \in Awake)
    BY <1>2, <1>3, <2>1 DEF Awake
  <2>3. QED
    BY <1>1, <1>2, <2>2 DEF Link, LinkOf, Pipe, Flows
<1>7. QED
  BY <1>4, <1>5, <1>6 DEF TransportInv

LEMMA InitialMore ==
  ASSUME NEW frames \in Seq(ByteSeq), NEW got \in Seq(ByteSeq), NEW payload \in ByteSeq, Initial(got, frames)
  PROVE  Initial(got, Append(frames, payload))
<1>1. DEFINE f2 == Append(frames, payload)
<1>2. /\ Len(f2) = Len(frames) + 1 /\ Len(frames) \in Nat /\ Len(got) \in Nat
      /\ \A k \in 1 .. Len(frames) : f2[k] = frames[k]
  OBVIOUS
<1>3. HIDE DEF f2
<1>4. \A k \in 1 .. Len(got) : k \in 1 .. Len(frames) /\ got[k] = frames[k]
  BY <1>2 DEF Initial
<1>5. Initial(got, f2)
  BY <1>2, <1>4 DEF Initial
<1>6. QED
  BY <1>5 DEF f2

LEMMA RecvFrameDoneStep ==
  ASSUME TransportInv, NEW s \in Side, RecvFrameDone(s)
  PROVE  TransportInv'
<1>1. DEFINE o == Other[s]
             pay == SubSeq(frame[s], HeaderLen + 1, Len(frame[s]))
<1>2. Types /\ (\A t \in Side : Counts(t) /\ Link(t)) /\ o \in Side /\ o # s /\ Other[o] = s
  BY Pairs DEF TransportInv
<1>3. /\ state[s] = "receives" /\ state[s] \in Awake /\ state[s] # "sends"
      /\ Len(frame[s]) >= HeaderLen /\ Wanted(frame[s]) = 0
  BY DEF RecvFrameDone, Complete, Awake
<1>4. /\ unsent[s] = <<>> /\ Len(sent[s]) = round[s] /\ Len(received[s]) + 1 = round[s]
  BY <1>2, <1>3 DEF Counts
<1>5. pay \in ByteSeq
  <2>1. HeaderLen \in 0 .. Len(frame[s]) /\ frame[s] \in ByteSeq
    BY <1>2, <1>3, TypeFacts, Constant
  <2>2. QED
    BY <2>1, Parts
<1>6. <<>> \in ByteSeq
  BY DEF ByteSeq
<1>7. /\ received' = [received EXCEPT ![s] = Append(received[s], pay)]
      /\ frame' = [frame EXCEPT ![s] = <<>>] /\ wire' = wire
  BY DEF RecvFrameDone
<1>8. \/ /\ round' = [round EXCEPT ![s] = round[s] + 1] /\ state' = [state EXCEPT ![s] = "sends"]
         /\ \E size \in Sizes(round[s] + 1) :
              /\ unsent' = [unsent EXCEPT ![s] = Bytes(round[s] + 1, Payload(round[s] + 1, size))]
              /\ sent' = [sent EXCEPT ![s] = Append(sent[s], Payload(round[s] + 1, size))]
      \/ state' = [state EXCEPT ![s] = "returned"] /\ UNCHANGED <<round, unsent, sent>>
  BY DEF RecvFrameDone, Sends
<1>9. /\ received'[s] = Append(received[s], pay) /\ frame'[s] = <<>>
      /\ \A t \in Side : t # s => received'[t] = received[t] /\ frame'[t] = frame[t]
  BY <1>2, <1>7 DEF Types
<1>10. Append(received[s], pay) \in Seq(ByteSeq) /\ Len(Append(received[s], pay)) = Len(received[s]) + 1
       /\ received[s] \in Seq(ByteSeq) /\ Len(received[s]) \in Nat /\ round[s] \in Nat
  <2>1. received[s] \in Seq(ByteSeq) /\ round[s] \in Nat
    BY <1>2, TypeFacts
  <2>2. HIDE DEF pay
  <2>3. QED
    BY <1>5, <2>1
<1>11. received' \in [Side -> Seq(ByteSeq)] /\ frame' \in [Side -> ByteSeq] /\ wire' \in [Side -> ByteSeq]
  <2>1. HIDE DEF pay
  <2>2. QED
    BY <1>2, <1>6, <1>7, <1>10 DEF Types
<1>12. ASSUME NEW t \in Side, t # s, unsent'[t] = unsent[t], sent'[t] = sent[t], state'[t] = state[t]
       PROVE  Link(t)'
  <2>1. CASE t = o
    <3>1. ASSUME Says(sent[o])
          PROVE  /\ Initial(Append(received[s], pay), sent[o])
                 /\ Pipe(sent[o], Append(received[s], pay), <<>>, wire[s], unsent[o], state[o])
      <4>1. Initial(received[s], sent[o]) /\ Pipe(sent[o], received[s], frame[s], wire[s], unsent[o], state[o])
        BY <1>2, <1>3, <3>1 DEF Link, LinkOf
      <4>2. /\ sent[o] \in Seq(ByteSeq) /\ received[s] \in Seq(ByteSeq) /\ frame[s] \in ByteSeq
            /\ wire[s] \in ByteSeq /\ unsent[o] \in ByteSeq
        BY <1>2, TypeFacts
      <4>3. QED
        BY <1>3, <3>1, <4>1, <4>2, PipeDone
    <3>2. HIDE DEF pay
    <3>3. QED
      BY <1>2, <1>7, <1>9, <1>12, <2>1, <3>1 DEF Link, LinkOf
  <2>2. CASE t # o
    <3>1. Other[t] # s /\ Other[t] \in Side /\ Other[t] # o
      BY <1>12, <2>2, Pairs
    <3>2. state'[Other[t]] = state[Other[t]]
      BY <1>2, <1>8, <3>1 DEF Types
    <3>3. QED
      BY <1>2, <1>7, <1>9, <1>12, <3>1, <3>2, LinkSame
  <2>3. QED
    BY <2>1, <2>2
<1>13. state'[o] = state[o] /\ received'[o] = received[o] /\ frame'[o] = frame[o]
  BY <1>2, <1>8, <1>9 DEF Types
<1>14. HIDE DEF pay
<1>15. CASE /\ round' = [round EXCEPT ![s] = round[s] + 1] /\ state' = [state EXCEPT ![s] = "sends"]
            /\ \E size \in Sizes(round[s] + 1) :
                 /\ unsent' = [unsent EXCEPT ![s] = Bytes(round[s] + 1, Payload(round[s] + 1, size))]
                 /\ sent' = [sent EXCEPT ![s] = Append(sent[s], Payload(round[s] + 1, size))]
  <2>1. PICK size \in Sizes(round[s] + 1) :
          /\ unsent' = [unsent EXCEPT ![s] = Bytes(round[s] + 1, Payload(round[s] + 1, size))]
          /\ sent' = [sent EXCEPT ![s] = Append(sent[s], Payload(round[s] + 1, size))]
    BY <1>15
  <2>2. DEFINE new == Payload(round[s] + 1, size)
               b == Bytes(round[s] + 1, new)
               more == Append(sent[s], new)
  <2>3. new \in ByteSeq /\ b \in ByteSeq
    <3>1. round[s] + 1 \in Nat
      BY <1>10
    <3>2. QED
      BY <3>1, PayloadType
  <2>4. unsent' = [unsent EXCEPT ![s] = b] /\ sent' = [sent EXCEPT ![s] = more]
    BY <2>1
  <2>5. HIDE DEF new
  <2>6. more \in Seq(ByteSeq) /\ Len(more) = round[s] + 1 /\ sent[s] \in Seq(ByteSeq)
    <3>1. sent[s] \in Seq(ByteSeq)
      BY <1>2, TypeFacts
    <3>2. QED
      BY <1>4, <2>3, <3>1
  <2>7. HIDE DEF b, more
  <2>8. /\ unsent'[s] = b /\ sent'[s] = more /\ state'[s] = "sends" /\ round'[s] = round[s] + 1
        /\ \A t \in Side : t # s => /\ unsent'[t] = unsent[t] /\ sent'[t] = sent[t]
                                    /\ state'[t] = state[t] /\ round'[t] = round[t]
    BY <1>2, <1>15, <2>4 DEF Types
  <2>9. Types'
    <3>1. round' \in [Side -> Nat] /\ state' \in [Side -> States]
      BY <1>2, <1>10, <1>15 DEF Types, States, Awake
    <3>2. unsent' \in [Side -> ByteSeq] /\ sent' \in [Side -> Seq(ByteSeq)]
      BY <1>2, <2>3, <2>4, <2>6 DEF Types
    <3>3. QED
      BY <1>11, <3>1, <3>2 DEF Types
  <2>10. ASSUME NEW t \in Side
         PROVE  Counts(t)'
    <3>1. CASE t = s
      <4>1. Len(more) = round[s] + 1 /\ Len(Append(received[s], pay)) + 1 = round[s] + 1
        BY <1>4, <1>10, <2>6
      <4>2. QED
        BY <1>9, <2>8, <3>1, <4>1 DEF Counts
    <3>2. CASE t # s
      BY <1>2, <1>9, <2>8, <3>2 DEF Counts
    <3>3. QED
      BY <3>1, <3>2
  <2>11. Link(s)'
    <3>1. ASSUME Says(more)
          PROVE  Initial(received[o], more)
                 /\ (state[o] \in Awake => Pipe(more, received[o], frame[o], wire[o], b, "sends"))
      <4>1. Says(sent[s])
        BY <2>3, <2>6, <3>1, SaysBefore DEF more
      <4>2. Initial(received[o], sent[s])
            /\ (state[o] \in Awake => Pipe(sent[s], received[o], frame[o], wire[o], <<>>, state[s]))
        BY <1>2, <1>4, <4>1 DEF Link, LinkOf
      <4>3. received[o] \in Seq(ByteSeq) /\ frame[o] \in ByteSeq /\ wire[o] \in ByteSeq
        BY <1>2, TypeFacts
      <4>4. Initial(received[o], more)
        BY <2>3, <2>6, <4>2, <4>3, InitialMore DEF more
      <4>5. ASSUME state[o] \in Awake
            PROVE  Pipe(more, received[o], frame[o], wire[o], b, "sends")
        <5>1. "sends" \in Awake /\ b = Bytes(Len(sent[s]) + 1, new)
          BY <1>4 DEF Awake, b
        <5>2. QED
          BY <1>3, <2>3, <2>6, <4>2, <4>3, <4>5, <5>1, PipeMore DEF more
      <4>6. QED
        BY <4>4, <4>5
    <3>2. QED
      BY <1>7, <1>13, <2>8, <3>1 DEF Link, LinkOf
  <2>12. ASSUME NEW t \in Side
         PROVE  Link(t)'
    BY <1>12, <2>8, <2>11
  <2>13. QED
    BY <2>9, <2>10, <2>12 DEF TransportInv
<1>16. CASE state' = [state EXCEPT ![s] = "returned"] /\ UNCHANGED <<round, unsent, sent>>
  <2>1. state'[s] = "returned" /\ \A t \in Side : t # s => state'[t] = state[t]
    BY <1>2, <1>16 DEF Types
  <2>2. Types'
    BY <1>2, <1>11, <1>16 DEF Types, States
  <2>3. ASSUME NEW t \in Side
        PROVE  Counts(t)'
    BY <1>2, <1>9, <1>16, <2>1 DEF Counts, Awake
  <2>4. Link(s)'
    <3>1. "returned" \notin Awake
      BY DEF Awake
    <3>2. ASSUME Pipe(sent[s], received[o], frame[o], wire[o], unsent[s], state[s])
          PROVE  Pipe(sent[s], received[o], frame[o], wire[o], unsent[s], "returned")
      BY <3>1, <3>2 DEF Pipe, Flows
    <3>3. Link(s)
      BY <1>2
    <3>4. QED
      BY <1>7, <1>13, <1>16, <2>1, <3>2, <3>3 DEF Link, LinkOf
  <2>5. ASSUME NEW t \in Side
        PROVE  Link(t)'
    BY <1>12, <1>16, <2>1, <2>4
  <2>6. QED
    BY <2>2, <2>3, <2>5 DEF TransportInv
<1>17. QED
  BY <1>8, <1>15, <1>16

LEMMA LeaveStep ==
  ASSUME TransportInv, NEW s \in Side, NEW how \in {"returned", "gone"}, Leave(s, how)
  PROVE  TransportInv'
<1>1. DEFINE o == Other[s]
<1>2. Types /\ (\A t \in Side : Counts(t) /\ Link(t)) /\ o \in Side /\ o # s /\ Other[o] = s
  BY Pairs DEF TransportInv
<1>3. how \in States /\ how \notin Awake
  BY DEF States, Awake
<1>4. PICK k \in 0 .. Len(wire[o]) : wire' = [wire EXCEPT ![s] = <<>>, ![o] = SubSeq(@, 1, k)]
  BY DEF Leave
<1>5. DEFINE u == SubSeq(wire[o], 1, k)
<1>6. <<>> \in ByteSeq /\ u \in ByteSeq
  <2>1. wire[o] \in ByteSeq
    BY <1>2, TypeFacts
  <2>2. QED
    BY <2>1, Parts DEF ByteSeq
<1>7. wire' = [wire EXCEPT ![s] = <<>>, ![o] = u]
  BY <1>2, <1>4 DEF Types
<1>8. HIDE DEF u
<1>9. /\ state' = [state EXCEPT ![s] = how] /\ unsent' = [unsent EXCEPT ![s] = <<>>]
      /\ frame' = [frame EXCEPT ![s] = <<>>] /\ UNCHANGED <<round, sent, received>>
  BY DEF Leave
<1>10. /\ state'[s] = how /\ unsent'[s] = <<>> /\ frame'[s] = <<>> /\ wire'[o] = u
       /\ \A t \in Side : t # s => state'[t] = state[t] /\ unsent'[t] = unsent[t] /\ frame'[t] = frame[t]
       /\ \A t \in Side : t # s /\ t # o => wire'[t] = wire[t]
  BY <1>2, <1>7, <1>9 DEF Types
<1>11. Types'
  BY <1>2, <1>3, <1>6, <1>7, <1>9 DEF Types
<1>12. ASSUME NEW t \in Side
       PROVE  Counts(t)'
  BY <1>2, <1>3, <1>9, <1>10 DEF Counts, Awake
<1>13. ASSUME NEW t \in Side
       PROVE  Link(t)'
  <2>1. CASE t = s
    <3>1. ASSUME Pipe(sent[s], received[o], frame[o], wire[o], unsent[s], state[s]), Initial(received[o], sent[s])
          PROVE  Pipe(sent[s], received[o], frame[o], u, <<>>, how)
      <4>1. Len(received[o]) <= Len(sent[s])
        BY <3>1 DEF Initial
      <4>2. /\ sent[s] \in Seq(ByteSeq) /\ received[o] \in Seq(ByteSeq) /\ frame[o] \in ByteSeq
            /\ wire[o] \in ByteSeq
        BY <1>2, TypeFacts
      <4>3. QED
        BY <1>3, <3>1, <4>1, <4>2, PipeCut DEF u
    <3>2. Link(s)
      BY <1>2
    <3>3. QED
      BY <1>2, <1>9, <1>10, <2>1, <3>1, <3>2 DEF Link, LinkOf
  <2>2. CASE t = o
    BY <1>2, <1>3, <1>9, <1>10, <2>2 DEF Link, LinkOf
  <2>3. CASE t # s /\ t # o
    <3>1. Other[t] # s /\ Other[t] # o /\ Other[t] \in Side
      BY <2>3, Pairs
    <3>2. QED
      BY <1>2, <1>9, <1>10, <2>3, <3>1, LinkSame
  <2>4. QED
    BY <2>1, <2>2, <2>3
<1>14. QED
  BY <1>11, <1>12, <1>13 DEF TransportInv

LEMMA TransportStep == TransportInv /\ [Next]_vars => TransportInv'
<1>1. SUFFICES ASSUME TransportInv, [Next]_vars PROVE TransportInv'
  OBVIOUS
<1>2. CASE UNCHANGED vars
  BY <1>1, <1>2 DEF vars, TransportInv, Types, Counts, Link
<1>3. CASE Next
  <2>1. PICK s \in Side : Step(s) \/ Kill(s)
    BY <1>3 DEF Next
  <2>2. CASE \E k \in 1 .. Capacity : Send(s, k)
    BY <1>1, <2>2, SendStep
  <2>3. CASE \E k \in 1 .. Capacity : Recv(s, k)
    BY <1>1, <2>3, RecvStep
  <2>4. CASE SendAllDone(s)
    BY <1>1, <2>4, SendAllDoneStep
  <2>5. CASE RecvFrameDone(s)
    BY <1>1, <2>5, RecvFrameDoneStep
  <2>6. CASE Fail(s)
    <3>1. PICK how \in {"returned", "gone"} : Leave(s, how)
      BY <2>6 DEF Fail
    <3>2. QED
      BY <1>1, <3>1, LeaveStep
  <2>7. CASE Kill(s)
    BY <1>1, <2>7, LeaveStep DEF Kill
  <2>8. QED
    BY <2>1, <2>2, <2>3, <2>4, <2>5, <2>6, <2>7 DEF Step
<1>4. QED
  BY <1>1, <1>2, <1>3

LEMMA TransportInvariant == Spec => []TransportInv
  BY TransportInit, TransportStep, PTL DEF Spec

-----------------------------------------------------------------------------
(* Theorems.                                                                *)

\* recv_frame returns the payloads given to send_frame, whole, unchanged and in
\* order, however the socket splits and joins them and wherever the peer goes
\* away: for any sizes of payloads and buffers, and any width of the length
\* field, as long as the lengths fit into it.
THEOREM FramesIntactHolds == Spec => []FramesIntact
<1>1. TransportInv => FramesIntact
  <2>1. SUFFICES ASSUME TransportInv, NEW s \in Side, Sayable(Other[s])
                 PROVE  IsPrefix(received[s], sent[Other[s]])
    BY DEF FramesIntact
  <2>2. DEFINE o == Other[s]
               u == received[s]
               v == sent[o]
  <2>3. Types /\ o \in Side /\ Other[o] = s /\ Link(o)
    BY <2>1, Pairs DEF TransportInv
  <2>4. u \in Seq(ByteSeq) /\ v \in Seq(ByteSeq)
    BY <2>3, TypeFacts
  <2>5. Initial(u, v)
    BY <2>1, <2>3 DEF Sayable, Says, Link, LinkOf
  <2>6. HIDE DEF u, v
  <2>7. Len(u) <= Len(v) /\ Len(u) \in Nat /\ Len(v) \in Nat /\ \A k \in 1 .. Len(u) : u[k] = v[k]
    BY <2>4, <2>5 DEF Initial
  <2>8. u = SubSeq(v, 1, Len(u))
    <3>1. DEFINE w == SubSeq(v, 1, Len(u))
    <3>2. w \in Seq(ByteSeq) /\ Len(w) = Len(u) /\ \A k \in 1 .. Len(u) : w[k] = v[k]
      BY <2>4, <2>7
    <3>3. HIDE DEF w
    <3>4. w = [k \in 1 .. Len(w) |-> w[k]] /\ u = [k \in 1 .. Len(u) |-> u[k]]
      BY <2>4, <3>2
    <3>5. u = w
      BY <2>7, <3>2, <3>4
    <3>6. QED
      BY <3>5 DEF w
  <2>9. IsPrefix(u, v)
    BY <2>7, <2>8 DEF IsPrefix
  <2>10. QED
    BY <2>9 DEF u, v
<1>2. QED
  BY <1>1, TransportInvariant, PTL

\* Two sides that are both in send_all with full buffers are in the same round,
\* and both frames of that round are larger than the buffers: run_sync_session,
\* which sends before it receives, is stuck only between two large frames.
THEOREM BlockedOnlyByTwoLargeHolds == Spec => []BlockedOnlyByTwoLarge
<1>1. TransportInv => BlockedOnlyByTwoLarge
  <2>1. SUFFICES ASSUME TransportInv, Blocked, \A s \in Side : Sayable(s), NEW s \in Side
                 PROVE  HeaderLen + Len(Last(sent[s])) > Capacity
    BY DEF BlockedOnlyByTwoLarge
  <2>2. Types /\ \A t \in Side : Counts(t) /\ Link(t)
    BY <2>1 DEF TransportInv
  <2>3. ASSUME NEW t \in Side
        PROVE  /\ state[t] = "sends" /\ state[t] \in Awake /\ unsent[t] # <<>> /\ Len(wire[t]) = Capacity
               /\ frame[t] = <<>> /\ Len(sent[t]) = round[t] /\ Len(received[t]) + 1 = round[t]
               /\ round[t] \in Nat /\ Len(received[t]) \in Nat /\ Len(sent[t]) \in Nat
    <3>1. state[t] = "sends" /\ unsent[t] # <<>> /\ Len(wire[t]) = Capacity /\ Counts(t)
      BY <2>1, <2>2 DEF Blocked
    <3>2. "sends" \in Awake
      BY DEF Awake
    <3>3. sent[t] \in Seq(ByteSeq) /\ received[t] \in Seq(ByteSeq) /\ round[t] \in Nat
      BY <2>2, TypeFacts
    <3>4. Len(received[t]) \in Nat /\ Len(sent[t]) \in Nat
      BY <3>3
    <3>5. QED
      BY <3>1, <3>2, <3>3, <3>4 DEF Counts
  <2>4. ASSUME NEW t \in Side
        PROVE  \E p \in [0 .. Len(sent[t]) -> Nat] :
                 /\ Len(received[Other[t]]) < Len(sent[t])
                 /\ p[Len(sent[t])] > p[Len(received[Other[t]])] + Capacity
                 /\ \A k \in 1 .. Len(sent[t]) : p[k] = p[k - 1] + HeaderLen + Len(sent[t][k])
    <3>1. DEFINE q == Other[t]
                 n == Len(received[q])
                 m == Len(sent[t])
    <3>2. q \in Side
      BY Pairs
    <3>3. Initial(received[q], sent[t]) /\ Pipe(sent[t], received[q], <<>>, wire[q], unsent[t], "sends")
      BY <2>1, <2>2, <2>3, <3>2 DEF Sayable, Says, Link, LinkOf
    <3>4. PICK T \in ByteSeq, p \in [0 .. Len(sent[t]) -> Nat] :
            Framed(T, p, sent[t]) /\ Flows(T, p[n], <<>>, wire[q], unsent[t], "sends")
      BY <3>3 DEF Pipe
    <3>5. n <= m /\ n \in Nat /\ m \in Nat
      BY <2>3, <3>2, <3>3 DEF Initial
    <3>6. p[n] \in Nat /\ p[m] \in Nat /\ p[m] = Len(T)
      BY <3>4, <3>5 DEF Framed
    <3>7. Len(unsent[t]) \in Nat \ {0}
      <4>1. unsent[t] \in ByteSeq /\ unsent[t] # <<>>
        BY <2>2, <2>3, TypeFacts
      <4>2. QED
        BY <4>1 DEF ByteSeq
    <3>8. p[n] + Capacity + Len(unsent[t]) = Len(T)
      <4>1. p[n] + Len(<<>>) + Len(wire[q]) + Len(unsent[t]) = Len(T)
        BY <3>4 DEF Flows, Awake
      <4>2. Len(<<>>) = 0 /\ p[n] + 0 = p[n]
        BY <3>6
      <4>3. QED
        BY <2>3, <3>2, <4>1, <4>2
    <3>9. p[m] > p[n] + Capacity
      BY <3>6, <3>7, <3>8, Constant
    <3>10. n # m
      BY <3>6, <3>9, Constant
    <3>11. \A k \in 1 .. m : p[k] = p[k - 1] + HeaderLen + Len(sent[t][k])
      BY <3>4 DEF Framed
    <3>12. QED
      BY <3>5, <3>9, <3>10, <3>11
  <2>5. DEFINE o == Other[s]
               m == Len(sent[s])
  <2>6. o \in Side /\ Other[o] = s
    BY Pairs
  <2>7. PICK p \in [0 .. Len(sent[s]) -> Nat] :
          /\ Len(received[o]) < m /\ p[m] > p[Len(received[o])] + Capacity
          /\ \A k \in 1 .. m : p[k] = p[k - 1] + HeaderLen + Len(sent[s][k])
    BY <2>4
  <2>8. Len(received[s]) < Len(sent[o])
    BY <2>4, <2>6
  <2>9. Len(received[o]) = m - 1 /\ m \in 1 .. m /\ m \in Nat
    <3>1. /\ m = round[s] /\ Len(received[o]) + 1 = round[o] /\ m \in Nat /\ Len(received[o]) \in Nat
          /\ Len(sent[o]) = round[o] /\ Len(received[s]) + 1 = round[s] /\ Len(received[s]) \in Nat
      BY <2>3, <2>6
    <3>2. Len(received[o]) < m /\ Len(received[s]) < Len(sent[o])
      BY <2>7, <2>8
    <3>3. HIDE DEF m
    <3>4. QED
      BY <3>1, <3>2
  <2>10. p[m] = p[m - 1] + HeaderLen + Len(sent[s][m]) /\ p[m] > p[m - 1] + Capacity /\ p[m - 1] \in Nat
    BY <2>7, <2>9
  <2>11. Len(sent[s][m]) \in Nat
    <3>1. sent[s] \in Seq(ByteSeq)
      BY <2>2, TypeFacts
    <3>2. sent[s][m] \in ByteSeq
      BY <2>9, <3>1
    <3>3. QED
      BY <3>2 DEF ByteSeq
  <2>12. HeaderLen + Len(sent[s][m]) > Capacity
    <3>1. DEFINE l == Len(sent[s][m])
                 x == p[m - 1]
    <3>2. x + HeaderLen + l > x + Capacity /\ x \in Nat /\ l \in Nat
      BY <2>10, <2>11
    <3>3. HIDE DEF l, x
    <3>4. HeaderLen + l > Capacity
      BY <3>2, Constant
    <3>5. QED
      BY <3>4 DEF l
  <2>13. QED
    BY <2>12 DEF Last
<1>2. QED
  BY <1>1, TransportInvariant, PTL
=============================================================================
