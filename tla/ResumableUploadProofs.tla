----------------------- MODULE ResumableUploadProofs -----------------------
(***************************************************************************)
(* Bytes in place, answers that mean what they say, reservations that can  *)
(* be used and a quota that holds, for any paths, files, chunk sizes,      *)
(* clients and bounds of ResumableUpload.                                  *)
(***************************************************************************)
EXTENDS ResumableUpload, TotalsProofs, FiniteSetTheorems, SequenceTheorems,
        TLAPS

(* A request asks for no more than its file has. *)
Fits(r) == r.offset + r.len <= SizeOf[r.ver]

(* The client of a live request waits for exactly its answer. *)
Awaited(r) ==
  r.live =>
    /\ session[r.session].phase = "wait" /\ session[r.session].reply = "none"
    /\ session[r.session].ver = r.ver /\ session[r.session].offset = r.offset
    /\ r.len = Smaller(ChunkLen, SizeOf[r.ver] - r.offset)

WireOK ==
  /\ \A r \in wire : Fits(r) /\ Awaited(r)
  /\ \A q, r \in wire : q.live /\ r.live /\ q.session = r.session => q = r

(* What the checks of the handler established still holds at each step.     *)
CallOK ==
  call # None =>
    /\ Fits(call.req)
    /\ call.step # "release" =>
         /\ Awaited(call.req)
         /\ \A r \in wire :
              call.req.live /\ r.live => r.session # call.req.session
    /\ call.step = "write" /\ call.req.offset # 0 =>
         Size(part[call.req.path]) = call.req.offset
    /\ call.step = "publish" =>
         /\ part[call.req.path] # None
         /\ Len(part[call.req.path]) = SizeOf[call.req.ver]
         /\ part[call.req.path][SizeOf[call.req.ver]].ver = call.req.ver
    /\ call.step = "clean" /\ call.req.live =>
         session[call.req.session].published

(* A client that has no bytes left to send, or is about to learn so, has    *)
(* had its file published.                                                  *)
SessionOK(x) ==
  /\ x.phase # "wait" => x.reply = "none"
  /\ x.phase = "wait" => x.offset < SizeOf[x.ver]
  /\ x.phase = "send" /\ x.offset >= SizeOf[x.ver] => x.published
  /\ x.phase = "wait" /\ x.reply = "ok"
     /\ x.offset + Smaller(ChunkLen, SizeOf[x.ver] - x.offset) >= SizeOf[x.ver]
       => x.published
  /\ x.phase = "ok" => x.published

SessionsOK == \A s \in Sessions : SessionOK(session[s])

IInv ==
  /\ TypeOK
  /\ BytesInPlace
  /\ WireOK /\ CallOK /\ SessionsOK
  /\ ReservationIsResumable

-----------------------------------------------------------------------------
(* Bytes.                                                                   *)

LEMMA SizeIsNat ==
  ASSUME NEW f \in Seq(Bytes) \cup {None}
  PROVE  Size(f) \in Nat
  BY DEF Size

LEMMA SmallerFits ==
  ASSUME NEW v \in Versions, NEW offset \in Nat, offset < SizeOf[v]
  PROVE  /\ Smaller(ChunkLen, SizeOf[v] - offset) \in Nat \ {0}
         /\ offset + Smaller(ChunkLen, SizeOf[v] - offset) <= SizeOf[v]
         /\ SizeOf[v] \in Nat \ {0}
  BY SizesAssumption DEF Smaller

LEMMA ChunkIsBytes ==
  ASSUME NEW v \in Versions, NEW offset \in Nat, NEW n \in Nat
  PROVE  /\ Chunk(v, offset, n) \in Seq(Bytes)
         /\ Len(Chunk(v, offset, n)) = n
         /\ \A i \in 1 .. n :
              Chunk(v, offset, n)[i] = [ver |-> v, pos |-> offset + i]
<1>1. \A i \in 1 .. n : [ver |-> v, pos |-> offset + i] \in Bytes
  BY DEF Bytes
<1> QED BY <1>1 DEF Chunk

LEMMA ConcatInPlace ==
  ASSUME NEW base \in Seq(Bytes), NEW c \in Seq(Bytes), NEW v \in Versions,
         \A i \in 1 .. Len(base) : base[i].pos = i,
         \A i \in 1 .. Len(c) : c[i] = [ver |-> v, pos |-> Len(base) + i]
  PROVE  /\ base \o c \in Seq(Bytes) /\ Len(base \o c) = Len(base) + Len(c)
         /\ \A i \in 1 .. Len(base) + Len(c) : (base \o c)[i].pos = i
         /\ Len(c) # 0 => (base \o c)[Len(base) + Len(c)].ver = v
<1> DEFINE offset == Len(base)
           n == Len(c)
<1>0. offset \in Nat /\ n \in Nat
  OBVIOUS
<1>1. /\ base \o c \in Seq(Bytes) /\ Len(base \o c) = offset + n
      /\ \A i \in 1 .. offset + n :
           (base \o c)[i] = IF i <= offset THEN base[i] ELSE c[i - offset]
  BY ConcatProperties
<1>3. \A i \in 1 .. offset : base[i].pos = i
  OBVIOUS
<1>4. \A i \in 1 .. n : c[i] = [ver |-> v, pos |-> offset + i]
  OBVIOUS
<1> HIDE DEF offset, n
<1>5. ASSUME NEW i \in 1 .. offset + n
      PROVE  (base \o c)[i].pos = i
  <2>1. CASE i <= offset
    BY <1>0, <1>1, <1>3, <2>1
  <2>2. CASE ~(i <= offset)
    <3>1. i - offset \in 1 .. n /\ offset + (i - offset) = i
      BY <1>0, <2>2
    <3>2. c[i - offset] = [ver |-> v, pos |-> i]
      BY <1>4, <3>1
    <3> QED BY <1>1, <2>2, <3>2
  <2> QED BY <2>1, <2>2
<1>6. ASSUME n # 0 PROVE (base \o c)[offset + n].ver = v
  <2> DEFINE k == offset + n
  <2>1. /\ k \in 1 .. offset + n /\ ~(k <= offset) /\ k - offset = n
        /\ n \in 1 .. n
    BY <1>0, <1>6
  <2> HIDE DEF k
  <2>2. (base \o c)[k] = c[n]
    BY <1>1, <2>1
  <2>3. c[n] = [ver |-> v, pos |-> offset + n]
    BY <1>4, <2>1
  <2> QED BY <2>2, <2>3 DEF k
<1> QED BY <1>1, <1>5, <1>6 DEF offset, n

(* A chunk appended where the bytes end leaves every byte in place. *)
LEMMA WrittenInPlace ==
  ASSUME TypeOK, BytesInPlace, NEW r \in Requests, NEW n \in Nat,
         r.offset # 0 => Size(part[r.path]) = r.offset
  PROVE  /\ Written(r, n) \in Seq(Bytes)
         /\ Len(Written(r, n)) = r.offset + n
         /\ InPlace(Written(r, n))
         /\ n # 0 => Written(r, n)[r.offset + n].ver = r.ver
<1>1. r.offset \in Nat /\ r.ver \in Versions /\ r.path \in Paths
  BY DEF Requests
<1>2. PICK base \in Seq(Bytes) :
        /\ Len(base) = r.offset
        /\ \A i \in 1 .. Len(base) : base[i].pos = i
        /\ Written(r, n) = base \o Chunk(r.ver, r.offset, n)
  <2>1. CASE r.offset = 0
    <3>1. /\ <<>> \in Seq(Bytes) /\ Len(<<>>) = 0
          /\ \A i \in 1 .. Len(<<>>) : <<>>[i].pos = i
      OBVIOUS
    <3>2. Written(r, n) = <<>> \o Chunk(r.ver, r.offset, n)
      BY <2>1 DEF Written
    <3> QED BY <2>1, <3>1, <3>2
  <2>2. CASE r.offset # 0 /\ part[r.path] # None
    BY <1>1, <2>2 DEF TypeOK, Size, BytesInPlace, InPlace, Written
  <2>3. CASE r.offset # 0 /\ part[r.path] = None
    BY <2>3 DEF Size
  <2> QED BY <2>1, <2>2, <2>3
<1> DEFINE c == Chunk(r.ver, r.offset, n)
<1>3. /\ c \in Seq(Bytes) /\ Len(c) = n
      /\ \A i \in 1 .. n : c[i] = [ver |-> r.ver, pos |-> r.offset + i]
  BY <1>1, ChunkIsBytes
<1> HIDE DEF c
<1>4. /\ base \o c \in Seq(Bytes) /\ Len(base \o c) = r.offset + n
      /\ \A i \in 1 .. r.offset + n : (base \o c)[i].pos = i
      /\ n # 0 => (base \o c)[r.offset + n].ver = r.ver
  <2>1. \A i \in 1 .. Len(c) : c[i] = [ver |-> r.ver, pos |-> Len(base) + i]
    BY <1>2, <1>3
  <2>2. /\ base \o c \in Seq(Bytes) /\ Len(base \o c) = Len(base) + Len(c)
        /\ \A i \in 1 .. Len(base) + Len(c) : (base \o c)[i].pos = i
        /\ Len(c) # 0 => (base \o c)[Len(base) + Len(c)].ver = r.ver
    BY <1>1, <1>2, <1>3, <2>1, ConcatInPlace
  <2> QED BY <1>2, <1>3, <2>2
<1> QED BY <1>2, <1>4 DEF InPlace, c

(* A whole file is in place. *)
LEMMA WholeInPlace ==
  ASSUME NEW v \in Versions
  PROVE  LET f == Chunk(v, 0, SizeOf[v]) IN
         /\ f \in Seq(Bytes) /\ f # <<>> /\ InPlace(f)
         /\ Len(f) = SizeOf[v] /\ f[Len(f)].ver = v
<1> DEFINE n == SizeOf[v]
<1>1. n \in Nat \ {0} /\ 0 \in Nat /\ n \in 1 .. n
  BY SizesAssumption
<1>2. /\ Chunk(v, 0, n) \in Seq(Bytes) /\ Len(Chunk(v, 0, n)) = n
      /\ \A i \in 1 .. n : Chunk(v, 0, n)[i] = [ver |-> v, pos |-> 0 + i]
  BY <1>1, ChunkIsBytes
<1> HIDE DEF n
<1>3. ASSUME NEW i \in 1 .. n
      PROVE  Chunk(v, 0, n)[i].pos = i /\ Chunk(v, 0, n)[i].ver = v
  <2>1. Chunk(v, 0, n)[i] = [ver |-> v, pos |-> 0 + i]
    BY <1>2
  <2>2. 0 + i = i
    BY <1>1
  <2> QED BY <2>1, <2>2
<1>4. Chunk(v, 0, n) # <<>>
  BY <1>1, <1>2
<1> QED BY <1>1, <1>2, <1>3, <1>4 DEF InPlace, n

LEMMA GrowthIsNat ==
  ASSUME TypeOK, NEW p \in Paths, NEW v \in Versions
  PROVE  Growth(p, SizeOf[v]) \in Nat
<1>1. Size(stored[p]) \in Nat /\ SizeOf[v] \in Nat
  BY SizeIsNat, SizesAssumption DEF TypeOK
<1> QED BY <1>1 DEF Growth
-----------------------------------------------------------------------------
(* Clients.                                                                 *)

(* A client without a request underway goes on as it should. *)
LEMMA ClientMoves ==
  ASSUME IInv, NEW s \in Sessions, NEW x \in SessionStates,
         ~Underway(s), SessionOK(x), session' = [session EXCEPT ![s] = x],
         UNCHANGED <<serverVars, userVars, wire, cuts>>,
         faults' \in 0 .. MaxFaults
  PROVE  IInv'
<1>1. TypeOK'
  BY DEF IInv, TypeOK, serverVars, userVars
<1>2. /\ \A q \in Sessions \ {s} : session'[q] = session[q]
      /\ session'[s] = x
  BY DEF IInv, TypeOK
<1>3. UNCHANGED <<part, stored, reserved, call, wire, cuts>>
  BY DEF serverVars
<1>4. BytesInPlace' /\ ReservationIsResumable'
  BY <1>3 DEF IInv, BytesInPlace, InPlace, ReservationIsResumable
<1>5. WireOK'
  <2>1. \A r \in wire : r.live => r.session # s /\ r.session \in Sessions
    BY DEF IInv, TypeOK, Requests, Underway, Mine
  <2> QED BY <1>2, <1>3, <2>1 DEF IInv, WireOK, Fits, Awaited
<1>6. CallOK'
  <2>1. call # None /\ call.step # "release" /\ call.req.live =>
          call.req.session # s /\ call.req.session \in Sessions
    BY DEF IInv, TypeOK, Calls, Requests, Underway, Mine
  <2> QED BY <1>2, <1>3, <2>1 DEF IInv, CallOK, Fits, Awaited, Size
<1>7. SessionsOK'
  BY <1>2 DEF IInv, SessionsOK, SessionOK
<1> QED BY <1>1, <1>4, <1>5, <1>6, <1>7 DEF IInv

(* A client that does not wait has no request underway. *)
LEMMA WaitersOnly ==
  ASSUME IInv, NEW s \in Sessions,
         session[s].phase # "wait" \/ session[s].reply # "none"
  PROVE  ~Underway(s)
  BY DEF IInv, WireOK, CallOK, Awaited, Underway, Mine

LEMMA ClientSteps ==
  ASSUME IInv, NEW s \in Sessions,
         \/ \E p \in Paths, v \in Versions : Begin(s, p, v)
         \/ Query(s) \/ Finish(s) \/ ReceiveOk(s) \/ ReceiveError(s)
         \/ NoticeCut(s) \/ Cancel(s)
  PROVE  IInv'
<1>1. /\ session[s] \in SessionStates /\ SessionOK(session[s])
      /\ faults \in 0 .. MaxFaults /\ MaxFaults \in Nat
      /\ session[s].offset \in Nat /\ session[s].ver \in Versions
      /\ SizeOf[session[s].ver] \in Nat \ {0}
  BY SizesAssumption DEF IInv, TypeOK, SessionsOK, SessionStates
<1>2. ASSUME NEW p \in Paths, NEW v \in Versions, Begin(s, p, v)
      PROVE  IInv'
  <2> DEFINE x == [phase |-> "query", path |-> p, ver |-> v, offset |-> 0,
                   tries |-> 0, reply |-> "none", published |-> FALSE]
  <2>1. x \in SessionStates /\ SessionOK(x)
    BY DEF SessionStates, Phases, SessionOK
  <2>2. ~Underway(s)
    BY <1>2, WaitersOnly DEF Begin
  <2> QED BY <1>1, <1>2, <2>1, <2>2, ClientMoves DEF Begin
<1>3. CASE Query(s)
  <2>1. PICK received \in {0, Size(part[session[s].path])} :
          session' = [session EXCEPT ![s].phase = "send",
            ![s].offset = ResumeOffset(received, SizeOf[session[s].ver])]
    BY <1>3 DEF Query
  <2> DEFINE x == [session[s] EXCEPT !.phase = "send",
                !.offset = ResumeOffset(received, SizeOf[session[s].ver])]
  <2>2. received \in Nat
    BY <1>1, SizeIsNat DEF IInv, TypeOK, SessionStates
  <2>3. /\ ResumeOffset(received, SizeOf[session[s].ver]) \in Nat
        /\ ResumeOffset(received, SizeOf[session[s].ver]) < SizeOf[session[s].ver]
    BY <1>1, <2>2 DEF ResumeOffset
  <2>4. x \in SessionStates /\ SessionOK(x)
    <3>1. x \in SessionStates
      BY <1>1, <2>3 DEF SessionStates, Phases
    <3>2. /\ x.phase = "send" /\ x.ver = session[s].ver
          /\ x.offset = ResumeOffset(received, SizeOf[session[s].ver])
          /\ x.reply = session[s].reply
      BY <1>1 DEF SessionStates
    <3> HIDE DEF x
    <3>3. session[s].reply = "none"
      BY <1>1, <1>3 DEF Query, SessionOK
    <3>4. ~(x.offset >= SizeOf[x.ver])
      BY <1>1, <2>3, <3>2
    <3> QED BY <3>1, <3>2, <3>3, <3>4 DEF SessionOK
  <2>5. session' = [session EXCEPT ![s] = x]
    BY <2>1
  <2>6. ~Underway(s)
    BY <1>3, WaitersOnly DEF Query
  <2> HIDE DEF x
  <2> QED BY <1>1, <1>3, <2>4, <2>5, <2>6, ClientMoves DEF Query
<1>4. CASE Finish(s)
  <2> DEFINE x == [session[s] EXCEPT !.phase = "ok"]
  <2>1. x \in SessionStates /\ SessionOK(x)
    BY <1>1, <1>4 DEF Finish, SessionStates, Phases, SessionOK
  <2>2. ~Underway(s)
    BY <1>4, WaitersOnly DEF Finish
  <2>3. session' = [session EXCEPT ![s] = x]
    BY <1>4 DEF Finish
  <2> HIDE DEF x
  <2> QED BY <1>1, <1>4, <2>1, <2>2, <2>3, ClientMoves DEF Finish
<1>5. CASE ReceiveOk(s)
  <2> DEFINE n == Smaller(ChunkLen, SizeOf[session[s].ver] - session[s].offset)
             x == [session[s] EXCEPT !.phase = "send", !.reply = "none",
                     !.tries = 0, !.offset = @ + n]
  <2>1. n \in Nat \ {0}
    BY <1>1, <1>5, SmallerFits DEF ReceiveOk, SessionOK
  <2>2. x \in SessionStates /\ SessionOK(x)
    <3>1. x \in SessionStates
      <4>1. session[s].offset + n \in Nat
        BY <1>1, <2>1
      <4> DEFINE m == session[s].offset + n
      <4> HIDE DEF m
      <4>2. [session[s] EXCEPT !.phase = "send", !.reply = "none", !.tries = 0,
               !.offset = m] \in SessionStates
        BY <1>1, <4>1 DEF SessionStates, Phases, m
      <4> QED BY <4>2 DEF m
    <3>2. /\ x.phase = "send" /\ x.ver = session[s].ver /\ x.reply = "none"
          /\ x.offset = session[s].offset + n
          /\ x.published = session[s].published
      BY <1>1 DEF SessionStates
    <3>3. session[s].offset + n >= SizeOf[session[s].ver] => session[s].published
      BY <1>1, <1>5 DEF ReceiveOk, SessionOK
    <3> HIDE DEF x
    <3> QED BY <3>1, <3>2, <3>3 DEF SessionOK
  <2>3. ~Underway(s)
    BY <1>5, WaitersOnly DEF ReceiveOk
  <2>4. session' = [session EXCEPT ![s] = x]
    BY <1>5 DEF ReceiveOk
  <2> HIDE DEF x
  <2> QED BY <1>1, <1>5, <2>2, <2>3, <2>4, ClientMoves DEF ReceiveOk
<1>6. CASE ReceiveError(s) \/ NoticeCut(s)
  <2> DEFINE x == [session[s] EXCEPT !.phase = AfterFailure(s), !.reply = "none"]
  <2>1. session[s].offset < SizeOf[session[s].ver]
    BY <1>1, <1>6 DEF ReceiveError, NoticeCut, SessionOK
  <2>2. AfterFailure(s) \in {"send", "failed"}
    BY DEF AfterFailure
  <2>3. x \in SessionStates /\ SessionOK(x)
    <3>1. x \in SessionStates
      BY <1>1, <2>2 DEF SessionStates, Phases
    <3>2. /\ x.phase = AfterFailure(s) /\ x.ver = session[s].ver
          /\ x.offset = session[s].offset /\ x.reply = "none"
      BY <1>1 DEF SessionStates
    <3> HIDE DEF x
    <3>3. ~(x.offset >= SizeOf[x.ver])
      BY <1>1, <2>1, <3>2
    <3> QED BY <2>2, <3>1, <3>2, <3>3 DEF SessionOK
  <2>4. ~Underway(s)
    BY <1>6, WaitersOnly DEF ReceiveError, NoticeCut
  <2>5. session' = [session EXCEPT ![s] = x]
    BY <1>1, <1>6 DEF ReceiveError, NoticeCut, SessionStates
  <2>6. UNCHANGED <<serverVars, userVars, wire, cuts, faults>>
    BY <1>6 DEF ReceiveError, NoticeCut
  <2> HIDE DEF x
  <2> QED BY <1>1, <2>3, <2>4, <2>5, <2>6, ClientMoves
<1>7. CASE Cancel(s)
  <2> DEFINE x == [session[s] EXCEPT !.phase = "failed"]
  <2>1. x \in SessionStates /\ SessionOK(x)
    BY <1>1, <1>7 DEF Cancel, SessionStates, Phases, SessionOK
  <2>2. ~Underway(s)
    BY <1>7, WaitersOnly DEF Cancel
  <2>3. session' = [session EXCEPT ![s] = x]
    BY <1>7 DEF Cancel
  <2>4. faults' \in 0 .. MaxFaults
    BY <1>1, <1>7 DEF Cancel
  <2> HIDE DEF x
  <2> QED BY <1>7, <2>1, <2>2, <2>3, <2>4, ClientMoves DEF Cancel
<1> QED BY <1>2, <1>3, <1>4, <1>5, <1>6, <1>7
LEMMA SendChunkStep ==
  ASSUME IInv, NEW s \in Sessions, SendChunk(s)
  PROVE  IInv'
<1>14. PICK n : n = Smaller(ChunkLen, SizeOf[session[s].ver] - session[s].offset)
  OBVIOUS
<1>15. PICK r : r = [session |-> s, path |-> session[s].path,
                     ver |-> session[s].ver, offset |-> session[s].offset,
                     len |-> n, live |-> TRUE]
  OBVIOUS
<1>1. /\ session[s] \in SessionStates /\ SessionOK(session[s])
      /\ session[s].phase = "send" /\ session[s].reply = "none"
      /\ session[s].offset < SizeOf[session[s].ver]
      /\ session[s].ver \in Versions /\ session[s].offset \in Nat
      /\ session[s].path \in Paths /\ session[s].tries \in Nat
  BY DEF SendChunk, IInv, TypeOK, SessionsOK, SessionOK, SessionStates
<1>2. /\ n \in Nat \ {0} /\ session[s].offset + n <= SizeOf[session[s].ver]
      /\ SizeOf[session[s].ver] \in Nat \ {0}
  BY <1>1, <1>14, SmallerFits
<1>3. /\ wire' = wire \cup {r}
      /\ UNCHANGED <<part, stored, reserved, call, trashed, limit, faults, cuts>>
  BY <1>14, <1>15 DEF SendChunk, serverVars, userVars
<1>4. /\ \A q \in Sessions \ {s} : session'[q] = session[q]
      /\ session'[s] \in SessionStates
      /\ session'[s].phase = "wait" /\ session'[s].reply = "none"
      /\ session'[s].ver = session[s].ver /\ session'[s].path = session[s].path
      /\ session'[s].offset = session[s].offset
      /\ session'[s].published = session[s].published
      /\ session' \in [Sessions -> SessionStates]
  <2>1. session \in [Sessions -> SessionStates]
    BY DEF IInv, TypeOK
  <2>2. session' = [session EXCEPT ![s] =
                      [session[s] EXCEPT !.phase = "wait", !.tries = @ + 1]]
    BY DEF SendChunk
  <2>3. session[s].tries + 1 \in Nat
    BY <1>1
  <2>4. [session[s] EXCEPT !.phase = "wait", !.tries = @ + 1] \in SessionStates
    BY <1>1, <2>3 DEF SessionStates, Phases
  <2> QED BY <1>1, <2>1, <2>2, <2>4 DEF SessionStates
<1>5. ~Underway(s)
  BY <1>1, WaitersOnly
<1>6. r \in Requests /\ Fits(r) /\ r.session = s /\ r.live
      /\ r.ver = session[s].ver /\ r.offset = session[s].offset /\ r.len = n
  BY <1>1, <1>2, <1>15 DEF Requests, Fits
<1>7. TypeOK'
  BY <1>3, <1>4, <1>6 DEF IInv, TypeOK
<1>8. BytesInPlace' /\ ReservationIsResumable'
  BY <1>3 DEF IInv, BytesInPlace, InPlace, ReservationIsResumable
<1>9. SessionsOK'
  BY <1>1, <1>4 DEF IInv, SessionsOK, SessionOK
<1>10. \A q \in wire : q.live => q.session # s /\ q.session \in Sessions
  BY <1>5 DEF IInv, TypeOK, Requests, Underway, Mine
<1>11. Awaited(r)'
  BY <1>3, <1>4, <1>6, <1>14 DEF Awaited
<1>12. WireOK'
  <2>1. \A q \in wire : Fits(q)' /\ Awaited(q)'
    BY <1>4, <1>10 DEF IInv, WireOK, Fits, Awaited
  <2>2. Fits(r)'
    BY <1>6 DEF Fits
  <2> QED BY <1>3, <1>6, <1>10, <1>11, <2>1, <2>2 DEF IInv, WireOK
<1>13. CallOK'
  <2>1. call # None /\ call.step # "release" /\ call.req.live =>
          call.req.session # s /\ call.req.session \in Sessions
    BY <1>5 DEF IInv, TypeOK, Calls, Requests, Underway, Mine
  <2> QED BY <1>3, <1>4, <1>6, <2>1 DEF IInv, CallOK, Fits, Awaited, Size
<1> QED BY <1>7, <1>8, <1>9, <1>12, <1>13 DEF IInv

LEMMA VanishStep ==
  ASSUME IInv, NEW r \in wire, Vanish(r)
  PROVE  IInv'
<1>1. /\ wire' = wire \ {r}
      /\ UNCHANGED <<part, stored, reserved, call, trashed, limit, session,
                     faults, cuts>>
  BY DEF Vanish, serverVars, userVars
<1> QED BY <1>1 DEF IInv, TypeOK, BytesInPlace, InPlace, WireOK, CallOK, Fits,
           Awaited, Size, SessionsOK, SessionOK, ReservationIsResumable

LEMMA LateIsRequest ==
  ASSUME NEW r \in Requests
  PROVE  /\ Late(r) \in Requests /\ ~Late(r).live
         /\ Late(r).session = r.session /\ Late(r).path = r.path
         /\ Late(r).ver = r.ver /\ Late(r).offset = r.offset
         /\ Late(r).len = r.len
  BY DEF Late, Requests

LEMMA LoseConnectionStep ==
  ASSUME IInv, NEW s \in Sessions, LoseConnection(s)
  PROVE  IInv'
<1>1. /\ UNCHANGED <<part, stored, reserved, trashed, limit, cuts>>
      /\ wire' = {IF Mine(s, r) THEN Late(r) ELSE r : r \in wire}
      /\ faults' \in 0 .. MaxFaults
  BY SizesAssumption DEF LoseConnection, userVars, IInv, TypeOK
<1>2. /\ session[s] \in SessionStates /\ SessionOK(session[s])
      /\ session[s].phase = "wait" /\ session[s].reply = "none"
      /\ session[s].offset < SizeOf[session[s].ver]
      /\ session[s].ver \in Versions /\ session[s].offset \in Nat
      /\ SizeOf[session[s].ver] \in Nat
  BY SizesAssumption DEF LoseConnection, IInv, TypeOK, SessionsOK, SessionOK,
                         SessionStates
<1>3. /\ \A q \in Sessions \ {s} : session'[q] = session[q]
      /\ session' \in [Sessions -> SessionStates]
      /\ session'[s].phase \in {"send", "failed"} /\ session'[s].reply = "none"
      /\ session'[s].ver = session[s].ver
      /\ session'[s].offset = session[s].offset
  <2>1. session \in [Sessions -> SessionStates]
    BY DEF IInv, TypeOK
  <2>2. session' = [session EXCEPT ![s] =
                      [session[s] EXCEPT !.phase = AfterFailure(s)]]
    BY DEF LoseConnection
  <2>3. AfterFailure(s) \in {"send", "failed"}
    BY DEF AfterFailure
  <2>4. [session[s] EXCEPT !.phase = AfterFailure(s)] \in SessionStates
    BY <1>2, <2>3 DEF SessionStates, Phases
  <2> QED BY <1>2, <2>1, <2>2, <2>3, <2>4 DEF SessionStates
<1>4. \A r \in wire : r \in Requests
  BY DEF IInv, TypeOK
<1>5. \A q \in wire' : \E r \in wire :
        /\ q \in Requests /\ q.session = r.session /\ q.ver = r.ver
        /\ q.offset = r.offset /\ q.len = r.len
        /\ q.live => q = r /\ q.session # s
  BY <1>1, <1>4, LateIsRequest DEF Mine
<1>6. /\ call = None => call' = None
      /\ call # None =>
           /\ call' \in Calls /\ call' # None /\ call'.step = call.step
           /\ call'.req.session = call.req.session
           /\ call'.req.path = call.req.path /\ call'.req.ver = call.req.ver
           /\ call'.req.offset = call.req.offset /\ call'.req.len = call.req.len
           /\ call'.req.live => call.req.live /\ call.req.session # s
  <2>1. CASE call # None /\ Mine(s, call.req)
    <3>1. call \in Calls /\ call.req \in Requests
      BY <2>1 DEF IInv, TypeOK, Calls
    <3>2. call' = [call EXCEPT !.req = Late(call.req)]
      BY <2>1 DEF LoseConnection
    <3>3. /\ call' \in Calls /\ call'.step = call.step
          /\ call'.req = Late(call.req)
      BY <3>1, <3>2, LateIsRequest DEF Calls
    <3> QED BY <2>1, <3>1, <3>3, LateIsRequest, NoneAssumption
  <2>2. CASE ~(call # None /\ Mine(s, call.req))
    BY <2>2 DEF LoseConnection, IInv, TypeOK, Mine
  <2> QED BY <2>1, <2>2
<1>7. TypeOK'
  BY <1>1, <1>3, <1>5, <1>6 DEF IInv, TypeOK
<1>8. BytesInPlace'
  BY <1>1 DEF IInv, BytesInPlace, InPlace
<1>9. ReservationIsResumable'
  BY <1>1, <1>6 DEF IInv, ReservationIsResumable
<1>10. SessionsOK'
  BY <1>2, <1>3 DEF IInv, SessionsOK, SessionOK
<1>11. WireOK'
  <2>1. ASSUME NEW q \in wire' PROVE Fits(q)' /\ Awaited(q)'
    BY <1>3, <1>4, <1>5 DEF IInv, WireOK, Fits, Awaited, Requests
  <2>2. ASSUME NEW p \in wire', NEW q \in wire', p.live, q.live,
               p.session = q.session
        PROVE  p = q
    BY <1>5, <2>2 DEF IInv, WireOK
  <2> QED BY <2>1, <2>2 DEF WireOK
<1>12. CallOK'
  <2> SUFFICES ASSUME call' # None PROVE CallOK'
    BY DEF CallOK
  <2>1. call # None /\ call \in Calls /\ call.req \in Requests
    BY <1>6 DEF IInv, TypeOK, Calls
  <2>2. Fits(call.req)'
    BY <1>6, <2>1 DEF IInv, CallOK, Fits
  <2>3. ASSUME call'.step # "release"
        PROVE  /\ Awaited(call.req)'
               /\ \A r \in wire' :
                    call'.req.live /\ r.live => r.session # call'.req.session
    <3>1. Awaited(call.req)'
      BY <1>3, <1>6, <2>1, <2>3 DEF IInv, CallOK, Awaited, Requests
    <3> QED BY <1>5, <1>6, <2>1, <2>3, <3>1 DEF IInv, CallOK
  <2>4. call'.step = "clean" /\ call'.req.live =>
          session'[call'.req.session].published
    BY <1>3, <1>6, <2>1 DEF IInv, CallOK, Requests
  <2> QED BY <1>1, <1>6, <2>1, <2>2, <2>3, <2>4 DEF IInv, CallOK, Size
<1> QED BY <1>7, <1>8, <1>9, <1>10, <1>11, <1>12 DEF IInv
-----------------------------------------------------------------------------
(* The handler.                                                             *)

(* What a step of the handler finds. *)
LEMMA CallFacts ==
  ASSUME IInv, call # None
  PROVE  /\ call \in Calls /\ call.req \in Requests
         /\ call.req.path \in Paths /\ call.req.ver \in Versions
         /\ call.req.session \in Sessions /\ call.req.offset \in Nat
         /\ call.req.len \in Nat \ {0} /\ Fits(call.req)
         /\ part[call.req.path] \in Seq(Bytes) \cup {None}
  BY DEF IInv, TypeOK, CallOK, Calls, Requests
(* An answer reaches the client that waits for it; "ok" for the last chunk  *)
(* needs a published file.                                                  *)
LEMMA Answering ==
  ASSUME IInv, NEW r \in Requests, Awaited(r), NEW code \in {"ok", "error"},
         session' = Answered(r, code), wire' \subseteq wire,
         r.live => \A q \in wire' : q.live => q.session # r.session,
         code = "ok" /\ r.live =>
           r.offset + r.len < SizeOf[r.ver] \/ session[r.session].published
  PROVE  session' \in [Sessions -> SessionStates] /\ WireOK' /\ SessionsOK'
<1>1. /\ session \in [Sessions -> SessionStates] /\ wire \subseteq Requests
      /\ SessionsOK /\ WireOK
  BY DEF IInv, TypeOK
<1>2. CASE ~r.live
  <2>1. session' = session
    BY <1>2 DEF Answered
  <2> QED BY <1>1, <2>1 DEF WireOK, Fits, Awaited, SessionsOK, SessionOK
<1>3. CASE r.live
  <2> DEFINE s == r.session
             x == [session[s] EXCEPT !.reply = code]
  <2>1. s \in Sessions /\ session[s] \in SessionStates /\ SessionOK(session[s])
    BY <1>1 DEF Requests, SessionsOK
  <2>2. x \in SessionStates
    BY <2>1 DEF SessionStates
  <2>3. session' = [session EXCEPT ![s] = x]
    BY <1>3 DEF Answered
  <2>4. /\ x.phase = session[s].phase /\ x.ver = session[s].ver
        /\ x.offset = session[s].offset /\ x.published = session[s].published
        /\ x.reply = code
    BY <2>1 DEF SessionStates
  <2> HIDE DEF x
  <2>5. /\ session' \in [Sessions -> SessionStates] /\ session'[s] = x
        /\ \A q \in Sessions \ {s} : session'[q] = session[q]
    BY <1>1, <2>1, <2>2, <2>3
  <2>6. WireOK'
    <3>1. \A q \in wire' : Awaited(q)'
      BY <1>1, <1>3, <2>5 DEF WireOK, Awaited, Requests
    <3> QED BY <1>1, <3>1 DEF WireOK, Fits
  <2>7. SessionOK(x)
    <3>1. /\ x.phase = "wait" /\ x.ver = r.ver /\ x.offset = r.offset
          /\ r.len = Smaller(ChunkLen, SizeOf[r.ver] - r.offset)
      BY <1>3, <2>4 DEF Awaited
    <3>2. r.offset \in Nat /\ r.len \in Nat /\ SizeOf[r.ver] \in Nat
      BY SizesAssumption DEF Requests
    <3>3. code = "ok" /\ r.offset + r.len >= SizeOf[r.ver] => x.published
      BY <1>3, <2>4, <3>2
    <3>4. x.offset < SizeOf[x.ver]
      BY <2>1, <2>4, <3>1 DEF SessionOK
    <3> QED BY <2>4, <3>1, <3>3, <3>4 DEF SessionOK
  <2>8. SessionsOK'
    BY <1>1, <2>5, <2>7 DEF SessionsOK, SessionOK
  <2> QED BY <2>5, <2>6, <2>8
<1> QED BY <1>2, <1>3

LEMMA RejectStep ==
  ASSUME IInv, NEW r \in wire, Reject(r)
  PROVE  IInv'
<1>1. /\ wire' = wire \ {r} /\ session' = Answered(r, "error") /\ call = None
      /\ UNCHANGED <<part, stored, reserved, call, trashed, limit, faults, cuts>>
  BY DEF Reject, serverVars, userVars
<1>2. /\ r \in Requests /\ Awaited(r)
      /\ r.live => \A q \in wire' : q.live => q.session # r.session
  BY <1>1 DEF IInv, TypeOK, WireOK
<1>3. session' \in [Sessions -> SessionStates] /\ WireOK' /\ SessionsOK'
  BY <1>1, <1>2, Answering
<1> QED BY <1>1, <1>3 DEF IInv, TypeOK, BytesInPlace, InPlace, CallOK,
           ReservationIsResumable

LEMMA AcceptStep ==
  ASSUME IInv, NEW r \in wire, Accept(r)
  PROVE  IInv'
<1>1. /\ wire' = wire \ {r} /\ call = None
      /\ call' = [req |-> r, step |-> "write"]
      /\ reserved' = [reserved EXCEPT ![r.path] = Growth(r.path, SizeOf[r.ver])]
      /\ UNCHANGED <<part, stored, trashed, limit, session, faults, cuts>>
      /\ r.offset # 0 => Size(part[r.path]) = r.offset
  BY DEF Accept, userVars, WrongOffset
<1>2. /\ r \in Requests /\ Awaited(r) /\ Fits(r)
      /\ r.path \in Paths /\ r.ver \in Versions
      /\ r.live => \A q \in wire' : q.live => q.session # r.session
  BY <1>1 DEF IInv, TypeOK, WireOK, Requests
<1>3. TypeOK'
  <2>1. call' \in Calls
    BY <1>1, <1>2 DEF Calls
  <2>2. Growth(r.path, SizeOf[r.ver]) \in Nat
    BY <1>2, GrowthIsNat DEF IInv
  <2>3. reserved' \in [Paths -> Nat \cup {None}]
    BY <1>1, <2>2 DEF IInv, TypeOK
  <2> QED BY <1>1, <2>1, <2>3 DEF IInv, TypeOK
<1>4. WireOK' /\ SessionsOK' /\ BytesInPlace'
  BY <1>1 DEF IInv, WireOK, Fits, Awaited, SessionsOK, SessionOK, BytesInPlace,
              InPlace
<1>5. /\ call' # None /\ call'.req = r /\ call'.step = "write"
  <2>1. call' \in Calls
    BY <1>1, <1>2 DEF Calls
  <2> QED BY <1>1, <2>1, NoneAssumption
<1>6. CallOK'
  <2>1. Fits(call.req)' /\ Awaited(call.req)'
    BY <1>1, <1>2, <1>5 DEF Fits, Awaited
  <2> QED BY <1>1, <1>2, <1>5, <2>1 DEF CallOK, Size
<1>7. ReservationIsResumable'
  BY <1>1, <1>2, <1>5 DEF IInv, TypeOK, ReservationIsResumable
<1> QED BY <1>3, <1>4, <1>6, <1>7 DEF IInv

LEMMA WriteStep ==
  ASSUME IInv, Write
  PROVE  IInv'
<1>0. PICK r : r = call.req
  OBVIOUS
<1>1. call # None /\ call.step = "write"
  BY DEF Write, At
<1>2. /\ call \in Calls /\ r \in Requests /\ r.path \in Paths
      /\ r.ver \in Versions /\ r.offset \in Nat /\ r.len \in Nat \ {0}
      /\ r.offset + r.len <= SizeOf[r.ver] /\ SizeOf[r.ver] \in Nat
      /\ r.offset # 0 => Size(part[r.path]) = r.offset
      /\ Awaited(r)
      /\ r.live => \A q \in wire : q.live => q.session # r.session
  BY <1>0, <1>1, CallFacts, SizesAssumption DEF IInv, CallOK, Fits
<1>3. PICK bytes : bytes = Written(r, r.len)
  OBVIOUS
<1>4. /\ bytes \in Seq(Bytes) /\ Len(bytes) = r.offset + r.len
      /\ InPlace(bytes) /\ bytes[r.offset + r.len].ver = r.ver
  <2>1. r.len \in Nat
    BY <1>2
  <2> QED BY <1>2, <1>3, <2>1, WrittenInPlace DEF IInv
<1>5. /\ part' = [part EXCEPT ![r.path] = bytes]
      /\ UNCHANGED <<stored, reserved, trashed, limit, wire, faults, cuts>>
  BY <1>0, <1>3 DEF Write, userVars
<1>6. /\ part' \in [Paths -> Seq(Bytes) \cup {None}] /\ part'[r.path] = bytes
      /\ \A p \in Paths \ {r.path} : part'[p] = part[p]
      /\ bytes # None
  BY <1>2, <1>4, <1>5, NoneAssumption DEF IInv, TypeOK
<1>7. BytesInPlace'
  BY <1>4, <1>5, <1>6 DEF IInv, BytesInPlace, InPlace
<1>8. ReservationIsResumable'
  <2> SUFFICES ASSUME cuts' = 0, NEW p \in Paths, reserved'[p] # None
               PROVE  part'[p] # None
    BY DEF ReservationIsResumable
  <2>1. CASE p = r.path
    BY <1>6, <2>1
  <2>2. CASE p # r.path
    BY <1>0, <1>5, <1>6, <2>2 DEF IInv, ReservationIsResumable
  <2> QED BY <2>1, <2>2
<1>9. CASE Len(bytes) = SizeOf[r.ver]
  <2>1. call' = [call EXCEPT !.step = "publish"] /\ session' = session
    BY <1>0, <1>3, <1>9 DEF Write
  <2>2. call' \in Calls /\ call' # None /\ call'.req = r /\ call'.step = "publish"
    BY <1>0, <1>2, <2>1, NoneAssumption DEF Calls
  <2>3. TypeOK'
    BY <1>5, <1>6, <2>1, <2>2 DEF IInv, TypeOK
  <2>4. WireOK' /\ SessionsOK'
    BY <1>5, <2>1 DEF IInv, WireOK, Fits, Awaited, SessionsOK, SessionOK
  <2>5. Fits(call.req)' /\ Awaited(call.req)'
    BY <1>2, <2>1, <2>2 DEF Fits, Awaited
  <2>6. CallOK'
    <3>1. /\ part'[call'.req.path] = bytes /\ bytes # None
          /\ Len(bytes) = SizeOf[r.ver] /\ bytes[SizeOf[r.ver]].ver = r.ver
      BY <1>4, <1>6, <1>9, <2>2
    <3>2. \A q \in wire' : r.live /\ q.live => q.session # r.session
      BY <1>2, <1>5
    <3> QED BY <2>2, <2>5, <3>1, <3>2 DEF CallOK
  <2> QED BY <1>7, <1>8, <2>3, <2>4, <2>6 DEF IInv
<1>10. CASE Len(bytes) # SizeOf[r.ver]
  <2>1. call' = None /\ session' = Answered(r, "ok")
    BY <1>0, <1>3, <1>10 DEF Write
  <2>2. r.offset + r.len < SizeOf[r.ver]
    BY <1>2, <1>4, <1>10
  <2>3. session' \in [Sessions -> SessionStates] /\ WireOK' /\ SessionsOK'
    BY <1>2, <1>5, <2>1, <2>2, Answering
  <2>4. TypeOK'
    BY <1>5, <1>6, <2>1, <2>3 DEF IInv, TypeOK
  <2>5. CallOK'
    BY <2>1 DEF CallOK
  <2> QED BY <1>7, <1>8, <2>3, <2>4, <2>5 DEF IInv
<1> QED BY <1>9, <1>10
LEMMA PublishStep ==
  ASSUME IInv, Publish
  PROVE  IInv'
<1>0. PICK r : r = call.req
  OBVIOUS
<1>1. call # None /\ call.step = "publish"
  BY DEF Publish, At
<1>2. /\ call \in Calls /\ r \in Requests /\ r.path \in Paths
      /\ r.session \in Sessions /\ r.ver \in Versions /\ Fits(r) /\ Awaited(r)
      /\ r.live => \A q \in wire : q.live => q.session # r.session
      /\ part[r.path] # None /\ part[r.path] \in Seq(Bytes)
      /\ Len(part[r.path]) = SizeOf[r.ver] /\ SizeOf[r.ver] \in Nat \ {0}
      /\ part[r.path][SizeOf[r.ver]].ver = r.ver
  BY <1>0, <1>1, CallFacts, SizesAssumption DEF IInv, CallOK
<1>3. /\ UNCHANGED <<part, reserved, trashed, limit, wire, faults, cuts>>
      /\ stored' = [stored EXCEPT ![r.path] = part[r.path]]
      /\ session' = IF r.live THEN [session EXCEPT ![r.session].published = TRUE]
                              ELSE session
      /\ call' = [call EXCEPT !.step = "clean"]
  BY <1>0 DEF Publish, userVars
<1>4. /\ call' \in Calls /\ call' # None /\ call'.req = r /\ call'.step = "clean"
  BY <1>0, <1>2, <1>3, NoneAssumption DEF Calls
<1>5. /\ session' \in [Sessions -> SessionStates]
      /\ \A q \in Sessions :
           /\ session'[q].phase = session[q].phase
           /\ session'[q].reply = session[q].reply
           /\ session'[q].ver = session[q].ver
           /\ session'[q].offset = session[q].offset
           /\ session[q].published => session'[q].published
      /\ r.live => session'[r.session].published
  <2>1. session \in [Sessions -> SessionStates]
    BY DEF IInv, TypeOK
  <2>2. CASE ~r.live
    BY <1>3, <2>1, <2>2
  <2>3. CASE r.live
    <3>1. session' = [session EXCEPT ![r.session] =
                        [session[r.session] EXCEPT !.published = TRUE]]
      BY <1>3, <2>3
    <3>2. session[r.session] \in SessionStates
      BY <1>2, <2>1
    <3>3. [session[r.session] EXCEPT !.published = TRUE] \in SessionStates
      BY <3>2 DEF SessionStates
    <3> QED BY <1>2, <2>1, <3>1, <3>2, <3>3 DEF SessionStates
  <2> QED BY <2>2, <2>3
<1>6. TypeOK'
  <2>1. stored' \in [Paths -> Seq(Bytes) \cup {None}]
    BY <1>2, <1>3 DEF IInv, TypeOK
  <2> QED BY <1>3, <1>4, <1>5, <2>1 DEF IInv, TypeOK
<1>7. BytesInPlace'
  <2>1. /\ stored'[r.path] = part[r.path]
        /\ \A p \in Paths \ {r.path} : stored'[p] = stored[p]
    BY <1>2, <1>3 DEF IInv, TypeOK
  <2>2. part[r.path] # <<>>
    BY <1>2
  <2>3. ASSUME NEW p \in Paths
        PROVE  /\ InPlace(part[p])' /\ InPlace(stored[p])'
               /\ stored'[p] # None =>
                    /\ stored'[p] # <<>>
                    /\ Len(stored'[p]) = SizeOf[stored'[p][Len(stored'[p])].ver]
    <3>1. CASE p = r.path
      BY <1>2, <1>3, <2>1, <2>2, <3>1 DEF IInv, BytesInPlace, InPlace
    <3>2. CASE p # r.path
      BY <1>3, <2>1, <3>2 DEF IInv, BytesInPlace, InPlace
    <3> QED BY <3>1, <3>2
  <2> QED BY <2>3 DEF BytesInPlace
<1>8. WireOK'
  BY <1>3, <1>5 DEF IInv, TypeOK, Requests, WireOK, Fits, Awaited
<1>9. SessionsOK'
  BY <1>5 DEF IInv, SessionsOK, SessionOK
<1>10. CallOK'
  <2>1. Fits(call.req)' /\ Awaited(call.req)'
    BY <1>2, <1>4, <1>5 DEF Fits, Awaited
  <2>2. \A q \in wire' : r.live /\ q.live => q.session # r.session
    BY <1>2, <1>3
  <2> QED BY <1>4, <1>5, <2>1, <2>2 DEF CallOK
<1>11. ReservationIsResumable'
  BY <1>0, <1>3, <1>4 DEF IInv, ReservationIsResumable
<1> QED BY <1>6, <1>7, <1>8, <1>9, <1>10, <1>11 DEF IInv

LEMMA CleanStep ==
  ASSUME IInv, Clean
  PROVE  IInv'
<1>0. PICK r : r = call.req
  OBVIOUS
<1>1. call # None /\ call.step = "clean"
  BY DEF Clean, At
<1>2. /\ call \in Calls /\ r \in Requests /\ r.path \in Paths
      /\ Fits(r) /\ Awaited(r)
      /\ r.live => \A q \in wire : q.live => q.session # r.session
      /\ r.live => session[r.session].published
  BY <1>0, <1>1, CallFacts DEF IInv, CallOK
<1>3. /\ UNCHANGED <<stored, reserved, trashed, limit, wire, faults, cuts>>
      /\ part' = [part EXCEPT ![r.path] = None]
      /\ session' = Answered(r, "ok")
      /\ call' = [call EXCEPT !.step = "release"]
  BY <1>0 DEF Clean, userVars
<1>4. /\ call' \in Calls /\ call' # None /\ call'.req = r
      /\ call'.step = "release"
  BY <1>0, <1>2, <1>3, NoneAssumption DEF Calls
<1>5. session' \in [Sessions -> SessionStates] /\ WireOK' /\ SessionsOK'
  BY <1>2, <1>3, Answering
<1>6. /\ part' \in [Paths -> Seq(Bytes) \cup {None}] /\ part'[r.path] = None
      /\ \A p \in Paths \ {r.path} : part'[p] = part[p]
  BY <1>2, <1>3 DEF IInv, TypeOK
<1>7. TypeOK'
  BY <1>3, <1>4, <1>5, <1>6 DEF IInv, TypeOK
<1>8. BytesInPlace'
  BY <1>3, <1>6 DEF IInv, BytesInPlace, InPlace
<1>9. CallOK'
  <2>1. Fits(call.req)'
    BY <1>2, <1>4 DEF Fits
  <2> QED BY <1>4, <2>1 DEF CallOK
<1>10. ReservationIsResumable'
  BY <1>0, <1>3, <1>4, <1>6 DEF IInv, ReservationIsResumable
<1> QED BY <1>5, <1>7, <1>8, <1>9, <1>10 DEF IInv

LEMMA ReleaseStep ==
  ASSUME IInv, Release
  PROVE  IInv'
<1>0. PICK r : r = call.req
  OBVIOUS
<1>1. call # None /\ r.path \in Paths
  BY <1>0, CallFacts DEF Release, At
<1>2. /\ UNCHANGED <<part, stored, trashed, limit, wire, session, faults, cuts>>
      /\ reserved' = [reserved EXCEPT ![r.path] = None] /\ call' = None
  BY <1>0 DEF Release, userVars
<1>3. /\ reserved' \in [Paths -> Nat \cup {None}] /\ reserved'[r.path] = None
      /\ \A p \in Paths \ {r.path} : reserved'[p] = reserved[p]
  BY <1>1, <1>2 DEF IInv, TypeOK
<1>4. TypeOK' /\ BytesInPlace' /\ WireOK' /\ SessionsOK' /\ CallOK'
  BY <1>2, <1>3 DEF IInv, TypeOK, BytesInPlace, InPlace, WireOK, Fits, Awaited,
                    SessionsOK, SessionOK, CallOK
<1>5. ReservationIsResumable'
  BY <1>0, <1>2, <1>3 DEF IInv, ReservationIsResumable
<1> QED BY <1>4, <1>5 DEF IInv

(* What a write leaves behind is in place whatever part of it was done. *)
LEMMA PartialInPlace ==
  ASSUME IInv, At("write"), NEW left \in Partial(call.req)
  PROVE  left \in Seq(Bytes) \cup {None} /\ InPlace(left)
<1>1. /\ call # None /\ call.req \in Requests /\ call.req.path \in Paths
      /\ call.req.len \in Nat
      /\ call.req.offset # 0 => Size(part[call.req.path]) = call.req.offset
  BY CallFacts DEF At, IInv, CallOK
<1>2. CASE left = part[call.req.path]
  BY <1>1, <1>2 DEF IInv, TypeOK, BytesInPlace
<1>3. CASE \E n \in 0 .. call.req.len : left = Written(call.req, n)
  <2>1. PICK n \in Nat : left = Written(call.req, n)
    BY <1>1, <1>3
  <2> QED BY <1>1, <2>1, WrittenInPlace DEF IInv
<1> QED BY <1>2, <1>3 DEF Partial

LEMMA FailStep ==
  ASSUME IInv, Fail
  PROVE  IInv'
<1>0. PICK r : r = call.req
  OBVIOUS
<1>1. call # None /\ call.step \in {"write", "publish"}
  BY DEF Fail, At
<1>2. /\ r \in Requests /\ r.path \in Paths /\ Awaited(r)
      /\ r.live => \A q \in wire : q.live => q.session # r.session
  BY <1>0, <1>1, CallFacts DEF IInv, CallOK
<1>3. /\ UNCHANGED <<stored, trashed, limit, wire, cuts>>
      /\ reserved' = [reserved EXCEPT ![r.path] = None] /\ call' = None
      /\ session' = Answered(r, "error") /\ faults' \in 0 .. MaxFaults
  BY <1>0, SizesAssumption DEF Fail, userVars, IInv, TypeOK
<1>4. PICK left : /\ part' = [part EXCEPT ![r.path] = left]
                  /\ left \in Seq(Bytes) \cup {None} /\ InPlace(left)
  <2>1. CASE At("write")
    BY <1>0, <2>1, PartialInPlace DEF Fail
  <2>2. CASE ~At("write")
    BY <1>0, <1>2, <2>2 DEF Fail, IInv, TypeOK, BytesInPlace
  <2> QED BY <2>1, <2>2
<1>5. /\ part' \in [Paths -> Seq(Bytes) \cup {None}] /\ part'[r.path] = left
      /\ \A p \in Paths \ {r.path} : part'[p] = part[p]
  BY <1>2, <1>4 DEF IInv, TypeOK
<1>6. /\ reserved' \in [Paths -> Nat \cup {None}] /\ reserved'[r.path] = None
      /\ \A p \in Paths \ {r.path} : reserved'[p] = reserved[p]
  BY <1>2, <1>3 DEF IInv, TypeOK
<1>7. session' \in [Sessions -> SessionStates] /\ WireOK' /\ SessionsOK'
  BY <1>2, <1>3, Answering
<1>8. TypeOK' /\ CallOK'
  BY <1>3, <1>5, <1>6, <1>7 DEF IInv, TypeOK, CallOK
<1>9. BytesInPlace'
  BY <1>3, <1>4, <1>5 DEF IInv, BytesInPlace, InPlace
<1>10. ReservationIsResumable'
  BY <1>0, <1>3, <1>5, <1>6 DEF IInv, ReservationIsResumable
<1> QED BY <1>7, <1>8, <1>9, <1>10 DEF IInv

LEMMA CutStep ==
  ASSUME IInv, Cut
  PROVE  IInv'
<1>1. /\ UNCHANGED <<stored, reserved, trashed, limit, session, faults>>
      /\ call' = None /\ wire' = {} /\ cuts' \in 0 .. MaxCuts /\ cuts' # 0
  BY SizesAssumption DEF Cut, userVars, IInv, TypeOK
<1>2. /\ part' \in [Paths -> Seq(Bytes) \cup {None}]
      /\ \A p \in Paths : InPlace(part'[p])
  <2>1. CASE At("write")
    <3>1. PICK left \in Partial(call.req) :
                 part' = [part EXCEPT ![call.req.path] = left]
      BY <2>1 DEF Cut
    <3>2. left \in Seq(Bytes) \cup {None} /\ InPlace(left)
      BY <2>1, PartialInPlace
    <3>3. \A p \in Paths :
            /\ part[p] \in Seq(Bytes) \cup {None} /\ InPlace(part[p])
            /\ part'[p] = IF p = call.req.path THEN left ELSE part[p]
      BY <3>1 DEF IInv, TypeOK, BytesInPlace
    <3>4. part' \in [Paths -> Seq(Bytes) \cup {None}]
      BY <3>1, <3>2 DEF IInv, TypeOK
    <3>5. ASSUME NEW p \in Paths PROVE InPlace(part'[p])
      <4>1. CASE p = call.req.path
        BY <3>2, <3>3, <4>1
      <4>2. CASE p # call.req.path
        BY <3>3, <4>2
      <4> QED BY <4>1, <4>2
    <3> QED BY <3>4, <3>5
  <2>2. CASE ~At("write")
    <3>1. part' = part
      BY <2>2 DEF Cut
    <3> QED BY <3>1 DEF IInv, TypeOK, BytesInPlace
  <2> QED BY <2>1, <2>2
<1>3. TypeOK'
  BY <1>1, <1>2, NoneAssumption DEF IInv, TypeOK
<1>4. BytesInPlace'
  BY <1>1, <1>2 DEF IInv, BytesInPlace, InPlace
<1>5. WireOK' /\ CallOK' /\ SessionsOK' /\ ReservationIsResumable'
  BY <1>1 DEF IInv, WireOK, CallOK, SessionsOK, SessionOK, ReservationIsResumable
<1> QED BY <1>3, <1>4, <1>5 DEF IInv

-----------------------------------------------------------------------------
(* The user's other changes.                                                *)

(* While no request is handled, files that stay in place and reservations   *)
(* that are only given up keep the invariant.                               *)
LEMMA QuietStep ==
  ASSUME IInv, call = None,
         UNCHANGED <<part, call, wire, session, faults, cuts>>,
         stored' \in [Paths -> Seq(Bytes) \cup {None}],
         \A p \in Paths :
           stored'[p] = stored[p] \/ stored'[p] = None
             \/ \E v \in Versions : stored'[p] = Chunk(v, 0, SizeOf[v]),
         trashed' \in Nat, limit' \in Nat,
         reserved' \in [Paths -> Nat \cup {None}],
         \A p \in Paths : reserved'[p] = reserved[p] \/ reserved'[p] = None
  PROVE  IInv'
<1>1. TypeOK'
  BY DEF IInv, TypeOK
<1>2. BytesInPlace'
  <2>1. \A p \in Paths : InPlace(part'[p])
    BY DEF IInv, BytesInPlace, InPlace
  <2>2. ASSUME NEW p \in Paths
        PROVE  /\ InPlace(stored'[p])
               /\ stored'[p] # None =>
                    stored'[p] # <<>>
                    /\ Len(stored'[p]) = SizeOf[stored'[p][Len(stored'[p])].ver]
    <3>1. CASE stored'[p] = stored[p]
      BY <3>1 DEF IInv, BytesInPlace, InPlace
    <3>2. CASE stored'[p] = None
      BY <3>2 DEF InPlace
    <3>3. ASSUME NEW v \in Versions, stored'[p] = Chunk(v, 0, SizeOf[v])
          PROVE  /\ InPlace(stored'[p])
                 /\ stored'[p] # None =>
                      stored'[p] # <<>>
                      /\ Len(stored'[p]) = SizeOf[stored'[p][Len(stored'[p])].ver]
      BY <3>3, WholeInPlace
    <3> QED BY <3>1, <3>2, <3>3
  <2> QED BY <2>1, <2>2 DEF BytesInPlace, InPlace
<1>3. WireOK' /\ CallOK' /\ SessionsOK' /\ ReservationIsResumable'
  BY DEF IInv, WireOK, Fits, Awaited, CallOK, SessionsOK, SessionOK,
         ReservationIsResumable
<1> QED BY <1>1, <1>2, <1>3 DEF IInv

LEMMA UserSteps ==
  ASSUME IInv,
         \/ \E p \in Paths :
              \/ \E v \in Versions : UploadWhole(p, v)
              \/ MoveToTrash(p) \/ Expire(p)
         \/ EmptyTrash \/ SetLimit
  PROVE  IInv'
<1>1. /\ part \in [Paths -> Seq(Bytes) \cup {None}]
      /\ stored \in [Paths -> Seq(Bytes) \cup {None}]
      /\ trashed \in Nat /\ limit \in Nat
      /\ reserved \in [Paths -> Nat \cup {None}]
  BY DEF IInv, TypeOK
<1>2. ASSUME NEW p \in Paths, NEW v \in Versions, UploadWhole(p, v) PROVE IInv'
  <2>1. Chunk(v, 0, SizeOf[v]) \in Seq(Bytes)
    BY WholeInPlace
  <2> QED BY <1>1, <1>2, <2>1, QuietStep DEF UploadWhole, userVars
<1>3. ASSUME NEW p \in Paths, MoveToTrash(p) PROVE IInv'
  <2>1. trashed + Size(stored[p]) \in Nat
    BY <1>1, SizeIsNat
  <2> QED BY <1>1, <1>3, <2>1, QuietStep DEF MoveToTrash
<1>4. ASSUME NEW p \in Paths, Expire(p) PROVE IInv'
  BY <1>1, <1>4, QuietStep DEF Expire, userVars
<1>5. CASE EmptyTrash
  BY <1>1, <1>5, QuietStep DEF EmptyTrash, serverVars
<1>6. CASE SetLimit
  BY <1>1, <1>6, QuietStep, SizesAssumption DEF SetLimit, serverVars
<1> QED BY <1>2, <1>3, <1>4, <1>5, <1>6

-----------------------------------------------------------------------------
LEMMA InitImpliesIInv == Init => IInv
<1> SUFFICES ASSUME Init PROVE IInv
  OBVIOUS
<1> DEFINE X == [phase : {"idle"}, path : Paths, ver : Versions, offset : {0},
                 tries : {0}, reply : {"none"}, published : {FALSE}]
<1>1. session \in [Sessions -> X]
  BY DEF Init
<1>3. \A x \in X : x.phase = "idle" /\ x.reply = "none"
  OBVIOUS
<1>4. ASSUME NEW x \in X PROVE x \in SessionStates
  <2>1. PICK p \in Paths, v \in Versions : x.path = p /\ x.ver = v
    BY <1>4
  <2>2. x = [phase |-> "idle", path |-> p, ver |-> v, offset |-> 0, tries |-> 0,
             reply |-> "none", published |-> FALSE]
    BY <1>4, <2>1
  <2>3. [phase |-> "idle", path |-> p, ver |-> v, offset |-> 0, tries |-> 0,
         reply |-> "none", published |-> FALSE] \in SessionStates
    BY DEF SessionStates, Phases
  <2> QED BY <2>2, <2>3
<1> HIDE DEF X
<1>5. session \in [Sessions -> SessionStates]
  BY <1>1, <1>4
<1>6. TypeOK
  BY <1>5, SizesAssumption DEF Init, TypeOK
<1>7. SessionsOK
  BY <1>1, <1>3 DEF SessionsOK, SessionOK
<1>8. BytesInPlace /\ WireOK /\ CallOK /\ ReservationIsResumable
  BY DEF Init, BytesInPlace, InPlace, WireOK, CallOK, ReservationIsResumable
<1> QED BY <1>6, <1>7, <1>8 DEF IInv

LEMMA StepKeepsIInv == IInv /\ [Next]_vars => IInv'
<1> SUFFICES ASSUME IInv, [Next]_vars PROVE IInv'
  OBVIOUS
<1>1. CASE \E s \in Sessions :
             \/ \E p \in Paths, v \in Versions : Begin(s, p, v)
             \/ Client(s) \/ LoseConnection(s) \/ Cancel(s)
  BY <1>1, ClientSteps, SendChunkStep, LoseConnectionStep DEF Client
<1>2. CASE \E r \in wire : Accept(r) \/ Reject(r) \/ Vanish(r)
  BY <1>2, AcceptStep, RejectStep, VanishStep DEF IInv, TypeOK
<1>3. CASE Handle
  BY <1>3, WriteStep, PublishStep, CleanStep, ReleaseStep DEF Handle
<1>4. CASE Fail \/ Cut
  BY <1>4, FailStep, CutStep
<1>5. CASE \/ \E p \in Paths :
                \/ \E v \in Versions : UploadWhole(p, v)
                \/ MoveToTrash(p) \/ Expire(p)
           \/ EmptyTrash \/ SetLimit
  BY <1>5, UserSteps
<1>6. CASE UNCHANGED vars
  BY <1>6 DEF vars, serverVars, userVars, IInv, TypeOK, BytesInPlace, InPlace,
              WireOK, Fits, Awaited, CallOK, Size, SessionsOK, SessionOK,
              ReservationIsResumable
<1> QED BY <1>1, <1>2, <1>3, <1>4, <1>5, <1>6 DEF Next

(* The invariant holds throughout. *)
THEOREM InvariantHolds == Spec => []IInv
  BY InitImpliesIInv, StepKeepsIInv, PTL DEF Spec

(* Everything stays of its type. *)
THEOREM UploadTypes == Spec => []TypeOK
<1>1. IInv => TypeOK
  BY DEF IInv
<1> QED BY <1>1, InvariantHolds, PTL

(* Whatever is lost, repeated or late, every received and published byte is *)
(* where its file has it, and a published file has the length of the file   *)
(* its last byte comes from: uploadFile() at FileController.cpp:1279-1432.  *)
THEOREM BytesStayInPlace == Spec => []BytesInPlace
<1>1. IInv => BytesInPlace
  BY DEF IInv
<1> QED BY <1>1, InvariantHolds, PTL

(* A client that reports success has had its file published.                *)
THEOREM SuccessIsPublication == Spec => []OkMeansPublished
<1>1. IInv => OkMeansPublished
  BY DEF IInv, SessionsOK, SessionOK, OkMeansPublished
<1> QED BY <1>1, InvariantHolds, PTL

(* Unless the process ended, a reservation is of a request being handled or *)
(* of bytes that can be resumed.                                            *)
THEOREM ReservationsAreResumable == Spec => []ReservationIsResumable
<1>1. IInv => ReservationIsResumable
  BY DEF IInv
<1> QED BY <1>1, InvariantHolds, PTL

-----------------------------------------------------------------------------
(* Quota.  What reserve() found stays true until the file is published,     *)
(* since nothing else changes files, trash, quota or reservations of other  *)
(* paths while the request is handled.                                      *)

Admitted ==
  call # None /\ call.step \in {"write", "publish"} =>
    ~Refused(call.req.path, SizeOf[call.req.ver])

LEMMA UsedIsNat ==
  ASSUME TypeOK
  PROVE  /\ \A p \in Paths : Size(stored[p]) \in Nat
         /\ Used \in Nat
<1> DEFINE size == [p \in Paths |-> Size(stored[p])]
<1>1. \A p \in Paths : Size(stored[p]) \in Nat
  BY SizeIsNat DEF TypeOK
<1>2. \A p \in Paths : size[p] \in Nat
  BY <1>1
<1>3. Total(size, Paths) \in Nat
  <2> HIDE DEF size
  <2> QED  BY <1>2, SizesAssumption, TotalType
<1> QED  BY <1>1, <1>3 DEF Used, TypeOK

(* The new file of a path counts instead of the old one.                    *)
LEMMA UsedAfterStore ==
  ASSUME TypeOK, UNCHANGED trashed, NEW p \in Paths,
         NEW f \in Seq(Bytes) \cup {None}, stored' = [stored EXCEPT ![p] = f]
  PROVE  Used' \in Nat /\ Used' + Size(stored[p]) = Used + Size(f)
<1> DEFINE old == [q \in Paths |-> Size(stored[q])]
           new == [q \in Paths |-> Size(stored'[q])]
           rest == Paths \ {p}
<1>1. /\ \A q \in Paths : old[q] \in Nat
      /\ \A q \in Paths : new[q] \in Nat
      /\ \A q \in rest : old[q] = new[q]
      /\ old[p] = Size(stored[p]) /\ new[p] = Size(f)
  BY SizeIsNat DEF TypeOK
<1>2. /\ Used = Total(old, Paths) + trashed
      /\ Used' = Total(new, Paths) + trashed
      /\ trashed \in Nat
  BY DEF Used, TypeOK, Size
<1> HIDE DEF old, new
<1>3. Total(old, Paths) = Total(old, rest) + old[p] /\ Total(old, rest) \in Nat
  BY <1>1, SizesAssumption, TotalRemove
<1>4. Total(new, Paths) = Total(new, rest) + new[p] /\ Total(new, rest) \in Nat
  BY <1>1, SizesAssumption, TotalRemove
<1>5. Total(old, rest) = Total(new, rest)
  BY <1>1, TotalSame
<1>6. old[p] \in Nat /\ new[p] \in Nat
  BY <1>1
<1>7. \A r, o, n, t \in Nat :
        (r + n) + t \in Nat /\ (r + n) + t + o = (r + o) + t + n
  OBVIOUS
<1> QED
  <2> HIDE DEF rest
  <2> QED  BY <1>1, <1>2, <1>3, <1>4, <1>5, <1>6, <1>7

(* A file that was let in leaves room for the reservations of all others.   *)
LEMMA AdmittedFits ==
  ASSUME TypeOK, UNCHANGED trashed, NEW p \in Paths,
         NEW f \in Seq(Bytes), stored' = [stored EXCEPT ![p] = f],
         ~Refused(p, Len(f)), Used' > Used, limit > 0
  PROVE  Used' + Total(reserved, {q \in Paths : /\ reserved[q] # None
                                                /\ stored'[q] = stored[q]})
           <= limit
<1> DEFINE S == {q \in Paths : reserved[q] # None /\ stored'[q] = stored[q]}
           T == {q \in Paths \ {p} : reserved[q] # None}
<1>1. /\ Used \in Nat /\ Size(stored[p]) \in Nat /\ Size(f) = Len(f)
      /\ Len(f) \in Nat /\ limit \in Nat
  BY UsedIsNat, NoneAssumption DEF TypeOK, Size
<1>2. Used' \in Nat /\ Used' + Size(stored[p]) = Used + Len(f)
  BY <1>1, UsedAfterStore
<1>3. Growth(p, Len(f)) = Len(f) - Size(stored[p])
  BY <1>1, <1>2 DEF Growth
<1>4. Used + ReservedElsewhere(p) + Growth(p, Len(f)) <= limit
  <2>1. ReservedElsewhere(p) \in Nat
    <3>1. T \subseteq Paths
      OBVIOUS
    <3>2. IsFiniteSet(T)
      <4> HIDE DEF T
      <4> QED  BY <3>1, SizesAssumption, FS_Subset
    <3>3. \A q \in T : reserved[q] \in Nat
      BY DEF TypeOK
    <3>4. Total(reserved, T) \in Nat
      <4> HIDE DEF T
      <4> QED  BY <3>2, <3>3, TotalType
    <3> QED  BY <3>4 DEF ReservedElsewhere
  <2>2. \A u, w, o, n \in Nat : w + o = u + n /\ w > u => n - o > 0
    OBVIOUS
  <2>3. Growth(p, Len(f)) > 0
    BY <1>1, <1>2, <1>3, <2>2
  <2>4. ~(Used + ReservedElsewhere(p) + Growth(p, Len(f)) > limit)
    BY <2>3 DEF Refused
  <2>5. Growth(p, Len(f)) \in Int
    BY <1>1, <1>3
  <2> HIDE DEF T
  <2> QED  BY <1>1, <2>1, <2>4, <2>5
<1>5. Total(reserved, S) <= Total(reserved, T) /\ Total(reserved, S) \in Nat
        /\ Total(reserved, T) \in Nat
  <2>1. p \notin S
    <3>1. stored'[p] = f
      BY DEF TypeOK
    <3>2. Size(stored[p]) # Len(f)
      BY <1>1, <1>2
    <3> QED  BY <1>1, <3>1, <3>2
  <2>2. S \subseteq T /\ T \subseteq Paths
    BY <2>1
  <2>3. \A q \in T : reserved[q] \in Nat
    BY DEF TypeOK
  <2> HIDE DEF S, T
  <2>4. IsFiniteSet(T) /\ IsFiniteSet(S)
    BY <2>2, SizesAssumption, FS_Subset
  <2>5. \A q \in S : reserved[q] \in Nat /\ reserved[q] <= reserved[q]
    BY <2>2, <2>3
  <2> QED  BY <2>2, <2>3, <2>4, <2>5, TotalMonotone, TotalType
<1>6. ReservedElsewhere(p) = Total(reserved, T)
  BY DEF ReservedElsewhere
<1> HIDE DEF S, T
<1>7. \A u, w, o, n, a, b, l \in Nat :
        w + o = u + n /\ u + b + (n - o) <= l /\ a <= b => w + a <= l
  OBVIOUS
<1>8. Used + Total(reserved, T) + (Len(f) - Size(stored[p])) <= limit
  BY <1>3, <1>4, <1>6
<1>9. Used' + Total(reserved, S) <= limit
  BY <1>1, <1>2, <1>5, <1>7, <1>8
<1> QED  BY <1>9 DEF S

(* Only a publication and a whole upload change files so that they grow.    *)
LEMMA FilesChange ==
  ASSUME IInv, [Next]_vars, Used' > Used
  PROVE  \/ Publish
         \/ \E p \in Paths, v \in Versions : UploadWhole(p, v)
<1>1. Used \in Nat
  BY UsedIsNat DEF IInv
<1>2. ASSUME UNCHANGED <<stored, trashed>> PROVE FALSE
  <2>1. Used' = Used
    BY <1>2 DEF Used, Size
  <2> QED  BY <1>1, <2>1
<1>3. ASSUME NEW p \in Paths, MoveToTrash(p) PROVE FALSE
  <2> DEFINE old == [q \in Paths |-> Size(stored[q])]
             new == [q \in Paths |-> Size(stored'[q])]
             rest == Paths \ {p}
  <2>1. /\ \A q \in Paths : old[q] \in Nat
        /\ \A q \in Paths : new[q] \in Nat
        /\ \A q \in rest : old[q] = new[q]
        /\ old[p] = Size(stored[p]) /\ new[p] = 0
    BY <1>3, SizeIsNat DEF MoveToTrash, IInv, TypeOK, Size
  <2>2. /\ Used = Total(old, Paths) + trashed
        /\ Used' = Total(new, Paths) + trashed + old[p]
        /\ trashed \in Nat
    <3>1. trashed' = trashed + old[p] /\ trashed \in Nat
      BY <1>3 DEF MoveToTrash, IInv, TypeOK
    <3>2. Used' = Total(new, Paths) + (trashed + old[p])
      BY <3>1 DEF Used, Size
    <3>3. Total(new, Paths) \in Nat
      <4> HIDE DEF new
      <4> QED  BY <2>1, SizesAssumption, TotalType
    <3>4. old[p] \in Nat
      BY <2>1
    <3>5. Used = Total(old, Paths) + trashed
      BY DEF Used
    <3> HIDE DEF old, new
    <3> QED  BY <3>1, <3>2, <3>3, <3>4, <3>5
  <2> HIDE DEF old, new
  <2>3. /\ Total(old, Paths) = Total(old, rest) + old[p]
        /\ Total(old, rest) \in Nat
    BY <2>1, SizesAssumption, TotalRemove
  <2>4. /\ Total(new, Paths) = Total(new, rest) + new[p]
        /\ Total(new, rest) \in Nat
    BY <2>1, SizesAssumption, TotalRemove
  <2>5. Total(old, rest) = Total(new, rest)
    BY <2>1, TotalSame
  <2>6. old[p] \in Nat
    BY <2>1
  <2> HIDE DEF rest
  <2> QED  BY <1>1, <2>1, <2>2, <2>3, <2>4, <2>5, <2>6
<1>4. CASE EmptyTrash
  <2>1. Used' = Total([q \in Paths |-> Size(stored[q])], Paths) + 0
    BY <1>4 DEF EmptyTrash, serverVars, Used, Size
  <2>2. Total([q \in Paths |-> Size(stored[q])], Paths) \in Nat
    <3> DEFINE size == [q \in Paths |-> Size(stored[q])]
    <3>1. \A q \in Paths : size[q] \in Nat
      BY UsedIsNat DEF IInv
    <3> HIDE DEF size
    <3>2. Total(size, Paths) \in Nat
      BY <3>1, SizesAssumption, TotalType
    <3> QED  BY <3>2 DEF size
  <2> QED  BY <2>1, <2>2 DEF Used, IInv, TypeOK
<1>5. ASSUME NEW s \in Sessions,
             \/ \E p \in Paths, v \in Versions : Begin(s, p, v)
             \/ Client(s) \/ LoseConnection(s) \/ Cancel(s)
      PROVE  FALSE
  BY <1>2, <1>5
  DEF Begin, Client, Query, SendChunk, Finish, ReceiveOk, ReceiveError,
      NoticeCut, LoseConnection, Cancel, serverVars, userVars
<1>6. ASSUME NEW r \in wire, Accept(r) \/ Reject(r) \/ Vanish(r)
      PROVE  FALSE
  BY <1>2, <1>6 DEF Accept, Reject, Vanish, serverVars, userVars
<1>7. CASE Write \/ Clean \/ Release \/ Fail \/ Cut
  BY <1>2, <1>7 DEF Write, Clean, Release, Fail, Cut, userVars
<1>8. CASE SetLimit \/ UNCHANGED vars
  BY <1>2, <1>8 DEF SetLimit, serverVars, userVars, vars
<1>9. ASSUME NEW p \in Paths, Expire(p) PROVE FALSE
  BY <1>2, <1>9 DEF Expire, userVars
<1> QED
  BY <1>3, <1>4, <1>5, <1>6, <1>7, <1>8, <1>9 DEF Next, Handle

(* What the check found does not change while the request is handled.       *)
LEMMA StepKeepsAdmitted ==
  ASSUME IInv, Admitted, [Next]_vars
  PROVE  Admitted'
<1>1. ASSUME call' = None \/ call'.step \notin {"write", "publish"}
      PROVE  Admitted'
  BY <1>1 DEF Admitted
<1>2. ASSUME UNCHANGED <<stored, trashed, reserved, limit>>,
             call # None, call.step \in {"write", "publish"},
             call'.req.path = call.req.path, call'.req.ver = call.req.ver
      PROVE  Admitted'
  <2>1. ~Refused(call.req.path, SizeOf[call.req.ver])
    BY <1>2 DEF Admitted
  <2>2. ~Refused(call.req.path, SizeOf[call.req.ver])'
    BY <1>2, <2>1 DEF Refused, Growth, Used, ReservedElsewhere, Size
  <2> QED  BY <1>2, <2>2 DEF Admitted
<1>3. ASSUME UNCHANGED <<stored, trashed, reserved, limit, call>>
      PROVE  Admitted'
  BY <1>1, <1>2, <1>3
<1>4. ASSUME NEW s \in Sessions,
             \/ \E p \in Paths, v \in Versions : Begin(s, p, v)
             \/ Client(s) \/ Cancel(s)
      PROVE  Admitted'
  BY <1>3, <1>4
  DEF Begin, Client, Query, SendChunk, Finish, ReceiveOk, ReceiveError,
      NoticeCut, Cancel, serverVars, userVars
<1>5. ASSUME NEW s \in Sessions, LoseConnection(s) PROVE Admitted'
  <2>1. UNCHANGED <<stored, trashed, reserved, limit>>
    BY <1>5 DEF LoseConnection, userVars
  <2>2. CASE call' = call
    BY <1>3, <2>1, <2>2
  <2>3. CASE call # None /\ call' = [call EXCEPT !.req = Late(@)]
    <3>1. call \in Calls
      BY <2>3 DEF IInv, TypeOK
    <3>2. call'.step = call.step /\ call'.req = Late(call.req)
      BY <2>3, <3>1 DEF Calls
    <3>3. Late(call.req).path = call.req.path /\ Late(call.req).ver = call.req.ver
      BY <3>1 DEF Late, Calls, Requests
    <3> QED  BY <1>1, <1>2, <2>1, <2>3, <3>2, <3>3
  <2> QED  BY <1>5, <2>2, <2>3 DEF LoseConnection
<1>6. ASSUME NEW r \in wire, Reject(r) \/ Vanish(r) PROVE Admitted'
  BY <1>3, <1>6 DEF Reject, Vanish, serverVars, userVars
<1>7. ASSUME NEW r \in wire, Accept(r) PROVE Admitted'
  <2>1. r.path \in Paths
    BY DEF IInv, TypeOK, Requests
  <2>2. /\ ~Refused(r.path, SizeOf[r.ver])
        /\ call' = [req |-> r, step |-> "write"]
        /\ UNCHANGED <<stored, trashed, limit>>
        /\ \A q \in Paths \ {r.path} : reserved'[q] = reserved[q]
    BY <1>7 DEF Accept, userVars, IInv, TypeOK
  <2>3. ReservedElsewhere(r.path)' = ReservedElsewhere(r.path)
    <3> DEFINE T == {q \in Paths \ {r.path} : reserved[q] # None}
               T1 == {q \in Paths \ {r.path} : reserved'[q] # None}
    <3>1. T1 = T /\ \A q \in T : reserved[q] = reserved'[q]
      BY <2>2
    <3>2. Total(reserved, T) = Total(reserved', T1)
      <4> HIDE DEF T, T1
      <4> QED  BY <3>1, TotalSame
    <3> QED  BY <3>2 DEF ReservedElsewhere
  <2>4. ~Refused(r.path, SizeOf[r.ver])'
    BY <2>2, <2>3 DEF Refused, Growth, Used, Size
  <2> QED  BY <2>2, <2>4 DEF Admitted
<1>8. CASE Write
  <2>1. call \in Calls /\ call.step = "write"
    BY <1>8 DEF Write, At, IInv, TypeOK
  <2>2. call' = None \/ call' = [call EXCEPT !.step = "publish"]
    BY <1>8 DEF Write
  <2>3. call' = None \/ call'.req = call.req
    BY <2>1, <2>2 DEF Calls
  <2>4. UNCHANGED <<stored, trashed, reserved, limit>> /\ call # None
    BY <1>8 DEF Write, At, userVars
  <2> QED  BY <1>1, <1>2, <2>1, <2>3, <2>4
<1>9. CASE Publish \/ Clean \/ Release \/ Fail \/ Cut
  BY <1>1, <1>9 DEF Publish, Clean, Release, Fail, Cut, At, IInv, TypeOK, Calls
<1>10. ASSUME NEW p \in Paths,
              \/ \E v \in Versions : UploadWhole(p, v)
              \/ MoveToTrash(p) \/ Expire(p)
       PROVE  Admitted'
  BY <1>1, <1>10 DEF UploadWhole, MoveToTrash, Expire
<1>11. CASE EmptyTrash \/ SetLimit
  <2>1. call' = None
    BY <1>11 DEF EmptyTrash, SetLimit, serverVars
  <2> QED  BY <1>1, <2>1
<1>12. CASE UNCHANGED vars
  BY <1>3, <1>12 DEF vars, serverVars, userVars
<1> QED
  BY <1>4, <1>5, <1>6, <1>7, <1>8, <1>9, <1>10, <1>11, <1>12
  DEF Next, Handle

LEMMA StepHoldsQuota ==
  ASSUME IInv, Admitted, [Next]_vars, Used' > Used, limit > 0
  PROVE  Used' + Total(reserved, {q \in Paths : /\ reserved[q] # None
                                                /\ stored'[q] = stored[q]})
           <= limit
<1>1. CASE Publish
  <2> DEFINE r == call.req
  <2>1. call \in Calls /\ call # None /\ call.step = "publish"
    BY <1>1 DEF Publish, At, IInv, TypeOK
  <2>2. r.path \in Paths /\ r.ver \in Versions
    BY <2>1 DEF Calls, Requests
  <2>3. part[r.path] \in Seq(Bytes) /\ Len(part[r.path]) = SizeOf[r.ver]
    BY <2>1, <2>2 DEF IInv, CallOK, TypeOK
  <2>4. ~Refused(r.path, Len(part[r.path]))
    BY <2>1, <2>3 DEF Admitted
  <2>5. UNCHANGED trashed /\ stored' = [stored EXCEPT ![r.path] = part[r.path]]
    BY <1>1 DEF Publish, userVars
  <2> HIDE DEF r
  <2> QED  BY <2>2, <2>3, <2>4, <2>5, AdmittedFits DEF IInv
<1>2. ASSUME NEW p \in Paths, NEW v \in Versions, UploadWhole(p, v)
      PROVE  Used' + Total(reserved, {q \in Paths : /\ reserved[q] # None
                                                    /\ stored'[q] = stored[q]})
               <= limit
  <2> DEFINE f == Chunk(v, 0, SizeOf[v])
  <2>1. f \in Seq(Bytes) /\ Len(f) = SizeOf[v]
    BY ChunkIsBytes, SizesAssumption
  <2>2. /\ UNCHANGED trashed /\ stored' = [stored EXCEPT ![p] = f]
        /\ ~Refused(p, SizeOf[v])
    BY <1>2 DEF UploadWhole, userVars
  <2> HIDE DEF f
  <2> QED  BY <2>1, <2>2, AdmittedFits DEF IInv
<1> QED  BY <1>1, <1>2, FilesChange

(* No publication takes the room other uploads have reserved: files that    *)
(* make the usage grow leave it, with all other reservations, within the    *)
(* quota (QuotaService::reserve, UploadQuota).                              *)
THEOREM QuotaIsKept == Spec => QuotaHolds
<1>1. Init => Admitted
  BY DEF Init, Admitted
<1>2. IInv /\ Admitted /\ [Next]_vars => Admitted'
  BY StepKeepsAdmitted
<1>3. IInv /\ Admitted /\ [Next]_vars =>
        [Used' > Used /\ limit > 0 =>
           Used' + Total(reserved, {q \in Paths : /\ reserved[q] # None
                                                  /\ stored'[q] = stored[q]})
             <= limit]_vars
  BY StepHoldsQuota
<1> QED
  BY <1>1, <1>2, <1>3, InvariantHolds, PTL DEF Spec, QuotaHolds
=============================================================================
