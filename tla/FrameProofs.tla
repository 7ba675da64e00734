------------------------------ MODULE FrameProofs ------------------------------
(* Proofs about frames.  FrameStream, for any lengths, buffers and numbers of   *)
(* senders: the byte streams implement the queues of whole frames of FrameQueue. *)
(* FrameHeader: what the receiver reads of a header is what the sender wrote.    *)
EXTENDS FrameStream, FrameHeader, SequenceTheorems, TLAPS

-----------------------------------------------------------------------------
(* The invariants                                                            *)

\* The type invariant in parts: the ends and locks, their states, what senders and
\* receive threads want, the streams, the frames begun and handled, the receive threads.
LockTypes == open \in [Ends -> BOOLEAN] /\ lock \in [Ends -> Threads \cup {"free"}]
StateTypes ==
  /\ up \in [Ends -> BOOLEAN] /\ running \in [Ends -> BOOLEAN]
  /\ \A e \in Ends : up[e] => open[e]
WantTypes == want \in [Ends -> [Threads -> Kinds \cup {"none", "close"}]]
StreamTypes ==
  /\ left \in [Ends -> Seq(SomePiece)] /\ pipe \in [Ends -> Seq(SomePiece)]
  /\ part \in [Ends -> Seq(SomePiece)]
FrameTypes == begun \in [Ends -> Seq(Frames)] /\ handled \in [Ends -> Seq(Frames \cup {NoFrame})]
RecvTypes == rpc \in [Ends -> {"top", "header", "payload", "drop", "end"}]
Bounded == \A e \in Ends : Len(pipe[e]) =< SockBuf
Locked == \A e \in Ends : left[e] # <<>> => lock[e] # "free"

\* Whoever has the lock has something left to send, and the frames of an end are
\* numbered as they begin.
Holding == \A e \in Ends : lock[e] # "free" => left[e] # <<>>
Numbered == \A e \in Ends : \A i \in DOMAIN begun[e] : begun[e][i].no = i

\* What end e has yet to read, and all it has read or has yet to read of frames that
\* it has not finished with.  The rest of a frame is never sent after a close.
ToRead(e) == IF Live THEN pipe[Peer(e)] \o left[Peer(e)] ELSE pipe[Peer(e)]
Stream(e) == part[e] \o ToRead(e)

\* The pieces of a frame that come after piece x; piece y comes d pieces after x.
ToCome(x) == Size(x.frame.kind) - x.no
Fits(x, y, d) ==
  /\ d =< ToCome(x) => y.frame = x.frame /\ y.no = x.no + d
  /\ d > ToCome(x) => y.frame.no > x.frame.no
  /\ d = ToCome(x) + 1 => y.no = 1 /\ y.frame.no = x.frame.no + 1

\* A sequence of pieces is a part of the stream of the frames b.
Run(s, b) ==
  /\ \A i \in DOMAIN s : /\ s[i].frame.no \in DOMAIN b /\ s[i].frame = b[s[i].frame.no]
                         /\ s[i].no \in 1 .. Size(s[i].frame.kind)
  /\ \A i, j \in DOMAIN s : i =< j => Fits(s[i], s[j], j - i)

\* It goes on to the end of the last of them.
Full(s, b) ==
  \A i \in DOMAIN s : /\ i + ToCome(s[i]) =< Len(s)
                      /\ i + ToCome(s[i]) = Len(s) => s[i].frame.no = Len(b)

\* What is still to come when an end has handled frame n: part of what the peer
\* sends, and new; for the server in step, that is, the next piece is the first of
\* the next frame.  As long as the connection is there, it is all of it.  A receive
\* thread that has ended with the socket open has left everything where it was.
ComesAfter(s, b, n, e) ==
  /\ Run(s, b) /\ \A i \in DOMAIN s : s[i].frame.no > n
  /\ e = "server" /\ s # <<>> => s[1].no = 1 /\ s[1].frame.no = n + 1
Complete(s, b, n, e) == Full(s, b) /\ (e = "server" /\ s = <<>> => n = Len(b))
InStep(e) == rpc[e] \in {"top", "header", "payload"} \/ (rpc[e] = "end" /\ open[e])
InStream(e) ==
  /\ LastHandled(e) \in 0 .. Len(begun[Peer(e)])
  /\ InStep(e) =>
       /\ ComesAfter(Stream(e), begun[Peer(e)], LastHandled(e), e)
       /\ Live => Complete(Stream(e), begun[Peer(e)], LastHandled(e), e)

\* The receive thread is before a frame, in the header, or in the payload of a header
\* that began a frame.
Parted(e) ==
  /\ rpc[e] = "top" => part[e] = <<>>
  /\ rpc[e] = "header" => Len(part[e]) < HeaderLen
  /\ rpc[e] = "payload" =>
       /\ Len(part[e]) >= HeaderLen /\ part[e][1].no = 1
       /\ Len(part[e]) < Announced(part[e])

StreamInv == Holding /\ Numbered /\ \A e \in Ends : InStream(e) /\ Parted(e)

-----------------------------------------------------------------------------
(* Ends and lengths                                                          *)

LEMMA EndFacts ==
  /\ \A e \in Ends : Peer(e) \in Ends /\ Peer(e) # e /\ Peer(Peer(e)) = e
  /\ \A e, d \in Ends : d = e \/ d = Peer(e)
  /\ Ends = {"client", "server"} /\ "recv" \in Threads /\ Senders \subseteq Threads
  /\ "free" \notin Threads
BY SendersAssumption DEF Ends, Peer, Threads

LEMMA Sizes ==
  /\ HeaderLen \in Nat /\ HeaderLen >= 1 /\ PayloadLen \in Nat /\ SockBuf \in Nat
  /\ \A k : Size(k) \in Nat /\ Size(k) >= HeaderLen /\ Size(k) =< HeaderLen + PayloadLen
            /\ (Size(k) = HeaderLen <=> k \in {"answer", "bye"})
BY LengthAssumption, SizeAssumption DEF Size

LEMMA FrameFacts ==
  /\ \A x \in SomePiece : /\ x.frame \in Frames /\ x.frame.no \in Nat /\ x.frame.kind \in Kinds
                          /\ x.no \in Nat /\ x.no >= 1 /\ x = [frame |-> x.frame, no |-> x.no]
                          /\ ToCome(x) \in Int
  /\ \A f \in Frames : /\ f.no \in Nat /\ Pieces(f) \in Seq(SomePiece) /\ Pieces(f) # <<>>
                       /\ Len(Pieces(f)) = Size(f.kind)
                       /\ \A i \in 1 .. Size(f.kind) : Pieces(f)[i] = [frame |-> f, no |-> i]
<1>1. ASSUME NEW x \in SomePiece
      PROVE  /\ x.frame \in Frames /\ x.frame.no \in Nat /\ x.frame.kind \in Kinds
             /\ x.no \in Nat /\ x.no >= 1 /\ x = [frame |-> x.frame, no |-> x.no]
             /\ ToCome(x) \in Int
  <2>1. x.no \in 1 .. HeaderLen + PayloadLen /\ x.frame \in Frames
        /\ x = [frame |-> x.frame, no |-> x.no]
    BY DEF SomePiece
  <2> QED
    BY <2>1, Sizes DEF Frames, ToCome
<1>2. ASSUME NEW f \in Frames
      PROVE  /\ f.no \in Nat /\ Pieces(f) \in Seq(SomePiece) /\ Pieces(f) # <<>>
             /\ Len(Pieces(f)) = Size(f.kind)
             /\ \A i \in 1 .. Size(f.kind) : Pieces(f)[i] = [frame |-> f, no |-> i]
  <2>1. Size(f.kind) \in Nat /\ Size(f.kind) >= 1
    BY Sizes
  <2>2. \A i \in 1 .. Size(f.kind) : [frame |-> f, no |-> i] \in SomePiece
    BY Sizes DEF SomePiece
  <2>3. Pieces(f) \in Seq(SomePiece) /\ Len(Pieces(f)) = Size(f.kind)
    BY <2>1, <2>2 DEF Pieces
  <2> QED
    BY <2>1, <2>3 DEF Pieces, Frames
<1> QED
  BY <1>1, <1>2

-----------------------------------------------------------------------------
(* Sequences                                                                 *)

LEMMA Joined ==
  ASSUME NEW S, NEW s \in Seq(S), NEW t \in Seq(S)
  PROVE  /\ s \o t \in Seq(S) /\ Len(s \o t) = Len(s) + Len(t)
         /\ Len(s) \in Nat /\ Len(t) \in Nat
         /\ DOMAIN s = 1 .. Len(s) /\ DOMAIN t = 1 .. Len(t)
         /\ DOMAIN (s \o t) = 1 .. (Len(s) + Len(t))
         /\ \A i \in DOMAIN s : (s \o t)[i] = s[i]
         /\ \A i \in DOMAIN t : (s \o t)[Len(s) + i] = t[i]
         /\ s # <<>> => Len(s) >= 1 /\ (s \o t)[1] = s[1] /\ s \o t # <<>>
         /\ s = <<>> => Len(s) = 0 /\ s \o t = t
         /\ t = <<>> => s \o t = s
<1>1. /\ s \o t \in Seq(S) /\ Len(s \o t) = Len(s) + Len(t)
      /\ Len(s) \in Nat /\ Len(t) \in Nat
      /\ DOMAIN s = 1 .. Len(s) /\ DOMAIN t = 1 .. Len(t)
      /\ DOMAIN (s \o t) = 1 .. (Len(s) + Len(t))
  OBVIOUS
<1>2. /\ \A i \in DOMAIN s : (s \o t)[i] = s[i]
      /\ \A i \in DOMAIN t : (s \o t)[Len(s) + i] = t[i]
  OBVIOUS
<1>3. /\ s # <<>> => Len(s) >= 1 /\ (s \o t)[1] = s[1] /\ s \o t # <<>>
      /\ s = <<>> => Len(s) = 0 /\ s \o t = t
      /\ t = <<>> => s \o t = s
  OBVIOUS
<1> QED
  BY <1>1, <1>2, <1>3

LEMMA Assoc ==
  \A s, t, u \in Seq(SomePiece) : (s \o t) \o u = s \o (t \o u)
BY ConcatAssociative

\* A piece moves from the head of one sequence to the end of another.
LEMMA Shift ==
  ASSUME NEW S, NEW s \in Seq(S), NEW t \in Seq(S), t # <<>>
  PROVE  /\ Append(s, Head(t)) \in Seq(S) /\ Tail(t) \in Seq(S) /\ Head(t) = t[1]
         /\ Append(s, Head(t)) \o Tail(t) = s \o t
         /\ Len(Append(s, Head(t))) = Len(s) + 1 /\ Append(s, Head(t)) # <<>>
         /\ \A i \in DOMAIN s : Append(s, Head(t))[i] = s[i]
<1>1. /\ Head(t) \in S /\ Tail(t) \in Seq(S) /\ Head(t) = t[1] /\ Len(Tail(t)) = Len(t) - 1
      /\ \A i \in 1 .. Len(Tail(t)) : Tail(t)[i] = t[i + 1]
  BY HeadTailProperties
<1>2. Append(s, Head(t)) \in Seq(S) /\ Len(Append(s, Head(t))) = Len(s) + 1
      /\ (\A i \in 1 .. Len(s) : Append(s, Head(t))[i] = s[i])
      /\ Append(s, Head(t))[Len(s) + 1] = t[1] /\ Append(s, Head(t)) # <<>>
  BY <1>1, AppendProperties
<1>3. Append(s, Head(t)) \o Tail(t) = s \o t
  <2>1. Len(t) \in Nat /\ Len(t) >= 1 /\ Len(s) \in Nat
    BY EmptySeq, LenProperties
  <2>2. /\ Append(s, Head(t)) \o Tail(t) \in Seq(S)
        /\ Len(Append(s, Head(t)) \o Tail(t)) = Len(s) + Len(t)
        /\ \A i \in 1 .. Len(s) + Len(t) :
             (Append(s, Head(t)) \o Tail(t))[i] =
                IF i =< Len(s) + 1 THEN Append(s, Head(t))[i] ELSE Tail(t)[i - (Len(s) + 1)]
    BY <1>1, <1>2, <2>1, ConcatProperties
  <2>3. /\ s \o t \in Seq(S) /\ Len(s \o t) = Len(s) + Len(t)
        /\ \A i \in 1 .. Len(s) + Len(t) :
             (s \o t)[i] = IF i =< Len(s) THEN s[i] ELSE t[i - Len(s)]
    BY ConcatProperties
  <2>4. ASSUME NEW i \in 1 .. Len(s) + Len(t)
        PROVE  (Append(s, Head(t)) \o Tail(t))[i] = (s \o t)[i]
    <3>1. CASE i =< Len(s)
      BY <1>2, <2>1, <2>2, <2>3, <3>1
    <3>2. CASE i = Len(s) + 1
      BY <1>2, <2>1, <2>2, <2>3, <3>2
    <3>3. CASE i > Len(s) + 1
      <4>1. i - (Len(s) + 1) \in 1 .. Len(Tail(t)) /\ (i - (Len(s) + 1)) + 1 = i - Len(s)
        BY <1>1, <2>1, <3>3
      <4>2. Tail(t)[i - (Len(s) + 1)] = t[i - Len(s)]
        BY <1>1, <4>1
      <4>3. (Append(s, Head(t)) \o Tail(t))[i] = Tail(t)[i - (Len(s) + 1)]
        BY <2>1, <2>2, <3>3
      <4>4. (s \o t)[i] = t[i - Len(s)]
        BY <2>1, <2>3, <3>3
      <4> QED
        BY <4>2, <4>3, <4>4
    <3> QED
      BY <2>1, <3>1, <3>2, <3>3
  <2> QED
    BY <2>2, <2>3, <2>4, SeqEqual
<1> QED
  BY <1>1, <1>2, <1>3

-----------------------------------------------------------------------------
(* Runs of pieces                                                            *)

\* A part of a run is a run.
LEMMA RunParts ==
  ASSUME NEW s \in Seq(SomePiece), NEW t \in Seq(SomePiece), NEW b, Run(s \o t, b)
  PROVE  Run(s, b) /\ Run(t, b)
<1>1. /\ Len(s) \in Nat /\ Len(t) \in Nat
      /\ DOMAIN s = 1 .. Len(s) /\ DOMAIN t = 1 .. Len(t)
      /\ DOMAIN (s \o t) = 1 .. (Len(s) + Len(t))
      /\ \A i \in DOMAIN s : (s \o t)[i] = s[i]
      /\ \A i \in DOMAIN t : (s \o t)[Len(s) + i] = t[i]
  BY Joined
<1>2. Run(s, b)
  <2>1. \A i \in DOMAIN s : i \in DOMAIN (s \o t)
    BY <1>1
  <2> QED
    BY <1>1, <2>1 DEF Run
<1>3. Run(t, b)
  <2>1. \A i \in DOMAIN t : Len(s) + i \in DOMAIN (s \o t)
    BY <1>1
  <2>2. ASSUME NEW i \in DOMAIN t, NEW j \in DOMAIN t, i =< j PROVE Fits(t[i], t[j], j - i)
    <3>1. Len(s) + i =< Len(s) + j /\ (Len(s) + j) - (Len(s) + i) = j - i
      BY <1>1, <2>2
    <3>2. Fits((s \o t)[Len(s) + i], (s \o t)[Len(s) + j], (Len(s) + j) - (Len(s) + i))
      BY <2>1, <3>1 DEF Run
    <3> QED
      BY <1>1, <3>1, <3>2
  <2> QED
    BY <1>1, <2>1, <2>2 DEF Run
<1> QED
  BY <1>2, <1>3

LEMMA Cancel ==
  \A a, i, c, n \in Int : /\ (a + i) + c =< a + n => i + c =< n
                          /\ i + c = n => (a + i) + c = a + n
OBVIOUS

LEMMA FullParts ==
  ASSUME NEW s \in Seq(SomePiece), NEW t \in Seq(SomePiece), NEW b, Full(s \o t, b)
  PROVE  Full(t, b)
<1>1. /\ Len(s) \in Nat /\ Len(t) \in Nat /\ Len(s \o t) = Len(s) + Len(t)
      /\ DOMAIN t = 1 .. Len(t) /\ DOMAIN (s \o t) = 1 .. (Len(s) + Len(t))
      /\ \A i \in DOMAIN t : (s \o t)[Len(s) + i] = t[i]
  BY Joined
<1>2. ASSUME NEW i \in DOMAIN t
      PROVE  /\ i + ToCome(t[i]) =< Len(t)
             /\ i + ToCome(t[i]) = Len(t) => t[i].frame.no = Len(b)
  <2>1. Len(s) + i \in DOMAIN (s \o t) /\ t[i] \in SomePiece
    BY <1>1
  <2>2. /\ (Len(s) + i) + ToCome(t[i]) =< Len(s) + Len(t)
        /\ (Len(s) + i) + ToCome(t[i]) = Len(s) + Len(t) => t[i].frame.no = Len(b)
    BY <1>1, <2>1 DEF Full
  <2>3. ToCome(t[i]) \in Int
    BY <2>1, FrameFacts
  <2>4. \A c \in Int : /\ (Len(s) + i) + c =< Len(s) + Len(t) => i + c =< Len(t)
                       /\ i + c = Len(t) => (Len(s) + i) + c = Len(s) + Len(t)
    <3>1. i \in Int /\ Len(s) \in Int /\ Len(t) \in Int
      BY <1>1
    <3>2. PICK a \in Int, k \in Int, n \in Int : a = Len(s) /\ k = i /\ n = Len(t)
      BY <3>1
    <3>3. \A c \in Int : /\ (a + k) + c =< a + n => k + c =< n
                         /\ k + c = n => (a + k) + c = a + n
      BY Cancel
    <3> QED
      BY <3>2, <3>3
  <2> QED
    BY <2>2, <2>3, <2>4
<1> QED
  BY <1>2 DEF Full

\* Another frame begins.
LEMMA RunGrows ==
  ASSUME NEW s, NEW b \in Seq(Frames), NEW f \in Frames, Run(s, b)
  PROVE  Run(s, Append(b, f))
<1>1. \A i \in DOMAIN b : i \in DOMAIN Append(b, f) /\ Append(b, f)[i] = b[i]
  OBVIOUS
<1> QED
  BY <1>1 DEF Run

\* ... and all of it is added to what is sent.
LEMMA RunExtended ==
  ASSUME NEW s \in Seq(SomePiece), NEW b \in Seq(Frames), NEW f \in Frames, f.no = Len(b) + 1,
         Run(s, b), Full(s, b)
  PROVE  Run(s \o Pieces(f), Append(b, f)) /\ Full(s \o Pieces(f), Append(b, f))
<1> DEFINE t == Pieces(f)
           u == s \o t
           c == Append(b, f)
<1>1. /\ t \in Seq(SomePiece) /\ Len(t) = Size(f.kind) /\ Len(t) \in Nat /\ Len(t) >= 1
      /\ \A i \in 1 .. Len(t) : t[i] = [frame |-> f, no |-> i]
  <2>1. /\ t \in Seq(SomePiece) /\ Len(t) = Size(f.kind)
        /\ \A i \in 1 .. Size(f.kind) : t[i] = [frame |-> f, no |-> i]
    BY FrameFacts
  <2>2. Size(f.kind) \in Nat /\ Size(f.kind) >= 1
    BY Sizes
  <2> HIDE DEF t
  <2> QED
    BY <2>1, <2>2
<1> HIDE DEF t
<1>2. /\ u \in Seq(SomePiece) /\ Len(u) = Len(s) + Len(t) /\ Len(s) \in Nat
      /\ DOMAIN s = 1 .. Len(s) /\ DOMAIN u = 1 .. (Len(s) + Len(t)) /\ DOMAIN t = 1 .. Len(t)
      /\ \A i \in DOMAIN s : u[i] = s[i]
      /\ \A i \in DOMAIN t : u[Len(s) + i] = t[i]
  <2>1. t \in Seq(SomePiece)
    BY <1>1
  <2> QED
    BY <2>1, Joined
<1>3. /\ c \in Seq(Frames) /\ Len(c) = Len(b) + 1 /\ c[Len(b) + 1] = f /\ Len(b) \in Nat
      /\ DOMAIN c = 1 .. (Len(b) + 1) /\ DOMAIN b = 1 .. Len(b)
      /\ \A i \in DOMAIN b : c[i] = b[i]
  OBVIOUS
<1>4. Run(s, c)
  BY RunGrows
<1> HIDE DEF u, c
\* A piece of the new frame.
<1>5. ASSUME NEW i \in DOMAIN u, i > Len(s)
      PROVE  u[i] = [frame |-> f, no |-> i - Len(s)] /\ i - Len(s) \in 1 .. Size(f.kind)
             /\ ToCome(u[i]) = Len(t) - (i - Len(s))
  <2>1. i - Len(s) \in 1 .. Len(t) /\ Len(s) + (i - Len(s)) = i
    BY <1>1, <1>2, <1>5
  <2>2. u[i] = [frame |-> f, no |-> i - Len(s)]
    BY <1>1, <1>2, <2>1
  <2> QED
    BY <1>1, <2>1, <2>2 DEF ToCome
\* One of an older frame, which ends before.
<1>6. ASSUME NEW i \in DOMAIN u, i =< Len(s)
      PROVE  /\ i \in DOMAIN s /\ u[i] = s[i] /\ s[i] \in SomePiece /\ ToCome(u[i]) \in Int
             /\ s[i].frame.no \in 1 .. Len(b)
             /\ i + ToCome(u[i]) =< Len(s)
             /\ i + ToCome(u[i]) = Len(s) => s[i].frame.no = Len(b)
  <2>1. i \in DOMAIN s /\ u[i] = s[i] /\ s[i] \in SomePiece
    BY <1>1, <1>2, <1>6
  <2> QED
    BY <1>3, <2>1, FrameFacts DEF Run, Full
<1>7. Run(u, c)
  <2>1. ASSUME NEW i \in DOMAIN u
        PROVE  /\ u[i].frame.no \in DOMAIN c /\ u[i].frame = c[u[i].frame.no]
               /\ u[i].no \in 1 .. Size(u[i].frame.kind)
    <3>1. CASE i =< Len(s)
      BY <1>4, <1>6, <3>1 DEF Run
    <3>2. CASE i > Len(s)
      BY <1>3, <1>5, <3>2
    <3> QED
      BY <1>2, <3>1, <3>2
  <2>2. ASSUME NEW i \in DOMAIN u, NEW j \in DOMAIN u, i =< j PROVE Fits(u[i], u[j], j - i)
    <3>1. CASE j =< Len(s)
      <4>1. i =< Len(s)
        BY <1>2, <2>2, <3>1
      <4> QED
        BY <1>4, <1>6, <2>2, <3>1, <4>1 DEF Run
    <3>2. CASE i > Len(s)
      <4>1. j > Len(s)
        BY <1>2, <2>2, <3>2
      <4>2. u[i] = [frame |-> f, no |-> i - Len(s)] /\ ToCome(u[i]) = Len(t) - (i - Len(s))
        BY <1>5, <3>2
      <4>3. u[j] = [frame |-> f, no |-> j - Len(s)]
        BY <1>5, <4>1
      <4>4. j =< Len(s) + Len(t)
        BY <1>2
      <4> QED
        BY <1>1, <1>2, <2>2, <3>2, <4>2, <4>3, <4>4 DEF Fits
    <3>3. CASE i =< Len(s) /\ j > Len(s)
      <4>1. u[j] = [frame |-> f, no |-> j - Len(s)]
        BY <1>5, <3>3
      <4>2. /\ u[i] = s[i] /\ ToCome(u[i]) \in Int /\ s[i].frame.no \in 1 .. Len(b)
            /\ i + ToCome(u[i]) =< Len(s)
            /\ i + ToCome(u[i]) = Len(s) => s[i].frame.no = Len(b)
        BY <1>6, <3>3
      <4>3. PICK r \in Int : r = ToCome(u[i])
        BY <4>2
      <4>4. ~(j - i =< r)
        BY <1>1, <1>2, <3>3, <4>2, <4>3
      <4>5. j - i = r + 1 => i + r = Len(s) /\ j = Len(s) + 1
        <5>1. i \in Int /\ j \in Int /\ Len(s) \in Int /\ j > Len(s) /\ i + r =< Len(s)
          BY <1>2, <3>3, <4>2, <4>3
        <5>2. PICK a \in Int, k \in Int, n \in Int : a = Len(s) /\ k = i /\ n = j
          BY <5>1
        <5>3. n > a /\ k + r =< a => (n - k = r + 1 => k + r = a /\ n = a + 1)
          OBVIOUS
        <5> QED
          BY <5>1, <5>2, <5>3
      <4>6. u[j].frame.no > u[i].frame.no
        BY <1>3, <4>1, <4>2
      <4>7. j - i = r + 1 => u[j].no = 1 /\ u[j].frame.no = u[i].frame.no + 1
        <5>1. j - i = r + 1 => j - Len(s) = 1 /\ s[i].frame.no = Len(b)
          <6>1. i + r = Len(s) => s[i].frame.no = Len(b)
            BY <4>2, <4>3
          <6>2. j = Len(s) + 1 => j - Len(s) = 1
            BY <1>2
          <6> QED
            BY <4>5, <6>1, <6>2
        <5>2. u[j].no = j - Len(s) /\ u[j].frame.no = Len(b) + 1
          BY <4>1
        <5>3. u[i].frame.no = s[i].frame.no
          BY <4>2
        <5> QED
          BY <5>1, <5>2, <5>3
      <4> QED
        BY <4>3, <4>4, <4>6, <4>7 DEF Fits
    <3> QED
      BY <1>2, <3>1, <3>2, <3>3
  <2> QED
    BY <2>1, <2>2 DEF Run
<1>8. Full(u, c)
  <2>1. ASSUME NEW i \in DOMAIN u
        PROVE  /\ i + ToCome(u[i]) =< Len(u)
               /\ i + ToCome(u[i]) = Len(u) => u[i].frame.no = Len(c)
    <3>1. CASE i > Len(s)
      BY <1>1, <1>2, <1>3, <1>5, <3>1
    <3>2. CASE i =< Len(s)
      <4>1. PICK r \in Int : r = ToCome(u[i])
        BY <1>6, <3>2
      <4>2. i + r =< Len(s)
        BY <1>6, <3>2, <4>1
      <4> QED
        BY <1>1, <1>2, <4>1, <4>2
    <3> QED
      BY <1>2, <3>1, <3>2
  <2> QED
    BY <2>1 DEF Full
<1> QED
  BY <1>7, <1>8 DEF u, c, t

\* A frame read from its first piece to its last is the one that was sent, and what
\* follows is the next one.
LEMMA WholeFrame ==
  ASSUME NEW s \in Seq(SomePiece), NEW t \in Seq(SomePiece), NEW b, Run(s \o t, b),
         s # <<>>, s[1].no = 1
  PROVE  /\ s[1].frame.no \in DOMAIN b /\ s[1].frame = b[s[1].frame.no]
         /\ \A i \in 1 .. Len(s) :
              i =< Size(s[1].frame.kind) => s[i] = [frame |-> s[1].frame, no |-> i]
         /\ Len(s) = Size(s[1].frame.kind) =>
              /\ s = Pieces(s[1].frame)
              /\ \A i \in DOMAIN t : t[i].frame.no > s[1].frame.no
              /\ t # <<>> => t[1].no = 1 /\ t[1].frame.no = s[1].frame.no + 1
              /\ Full(s \o t, b) /\ t = <<>> => s[1].frame.no = Len(b)
<1> DEFINE u == s \o t
           f == s[1].frame
<1>1. /\ Len(u) = Len(s) + Len(t) /\ Len(s) \in Nat /\ Len(t) \in Nat /\ Len(s) >= 1
      /\ DOMAIN s = 1 .. Len(s) /\ DOMAIN u = 1 .. (Len(s) + Len(t)) /\ DOMAIN t = 1 .. Len(t)
      /\ \A i \in DOMAIN s : u[i] = s[i]
      /\ \A i \in DOMAIN t : u[Len(s) + i] = t[i]
      /\ t = <<>> => Len(t) = 0
      /\ t # <<>> => Len(t) >= 1
  BY Joined, EmptySeq
<1>2. Run(u, b)
  OBVIOUS
<1> HIDE DEF u
<1>3. 1 \in DOMAIN s /\ 1 \in DOMAIN u /\ u[1] = s[1] /\ s[1] \in SomePiece
  BY <1>1
<1>4. f.no \in DOMAIN b /\ f = b[f.no] /\ f \in Frames /\ Size(f.kind) \in Nat
      /\ ToCome(u[1]) = Size(f.kind) - 1 /\ u[1].frame = f /\ u[1].no = 1
  BY <1>2, <1>3, FrameFacts, Sizes DEF Run, ToCome
<1>5. ASSUME NEW j \in DOMAIN u
      PROVE  /\ j =< Size(f.kind) => u[j].frame = f /\ u[j].no = j
             /\ j > Size(f.kind) => u[j].frame.no > f.no
             /\ j = Size(f.kind) + 1 => u[j].no = 1 /\ u[j].frame.no = f.no + 1
  <2>1. Fits(u[1], u[j], j - 1) /\ j \in Int
    BY <1>1, <1>2, <1>3 DEF Run
  <2>y. PICK y : y = u[j]
    OBVIOUS
  <2>2. PICK z \in Nat : z = Size(f.kind) /\ y = u[j]
    BY <1>4, <2>y
  <2>3. /\ j - 1 =< z - 1 => y.frame = f /\ y.no = 1 + (j - 1)
        /\ j - 1 > z - 1 => y.frame.no > f.no
        /\ j - 1 = (z - 1) + 1 => y.no = 1 /\ y.frame.no = f.no + 1
    BY <1>4, <2>1, <2>2 DEF Fits
  <2>4. /\ j - 1 =< z - 1 <=> j =< z
        /\ j - 1 > z - 1 <=> j > z
        /\ j - 1 = (z - 1) + 1 <=> j = z + 1
        /\ 1 + (j - 1) = j
    <3>1. j \in Int
      BY <2>1
    <3> QED
      BY <3>1
  <2> QED
    BY <2>2, <2>3, <2>4, Zenon
<1>6. ASSUME NEW i \in 1 .. Len(s), i =< Size(f.kind) PROVE s[i] = [frame |-> f, no |-> i]
  <2>1. i \in DOMAIN u /\ u[i] = s[i] /\ s[i] \in SomePiece
    BY <1>1
  <2>2. u[i].frame = f /\ u[i].no = i
    BY <1>5, <1>6, <2>1
  <2>3. s[i] = [frame |-> s[i].frame, no |-> s[i].no]
    BY <2>1, FrameFacts
  <2> QED
    BY <2>1, <2>2, <2>3
<1>7. ASSUME Len(s) = Size(f.kind)
      PROVE  /\ s = Pieces(f)
             /\ \A i \in DOMAIN t : t[i].frame.no > f.no
             /\ t # <<>> => t[1].no = 1 /\ t[1].frame.no = f.no + 1
             /\ Full(u, b) /\ t = <<>> => f.no = Len(b)
  <2>1. s = Pieces(f)
    <3>1. Pieces(f) \in Seq(SomePiece) /\ Len(Pieces(f)) = Len(s)
          /\ \A i \in 1 .. Len(s) : s[i] = Pieces(f)[i]
      <4>1. /\ Pieces(f) \in Seq(SomePiece) /\ Len(Pieces(f)) = Size(f.kind)
            /\ \A i \in 1 .. Size(f.kind) : Pieces(f)[i] = [frame |-> f, no |-> i]
        BY <1>4, FrameFacts
      <4>2. \A i \in 1 .. Len(s) : i =< Size(f.kind)
        BY <1>1, <1>7
      <4> QED
        BY <1>6, <1>7, <4>1, <4>2
    <3> QED
      BY <3>1, SeqEqual
  <2>2. ASSUME NEW i \in DOMAIN t
        PROVE  t[i].frame.no > f.no /\ (i = 1 => t[1].no = 1 /\ t[1].frame.no = f.no + 1)
    <3>1. Len(s) + i \in DOMAIN u /\ u[Len(s) + i] = t[i] /\ Len(s) + i > Size(f.kind)
      BY <1>1, <1>7
    <3> QED
      BY <1>4, <1>5, <1>7, <3>1
  <2>3. ASSUME Full(u, b), t = <<>> PROVE f.no = Len(b)
    <3>1. 1 + ToCome(u[1]) = Len(u)
      BY <1>1, <1>4, <1>7, <2>3
    <3> QED
      BY <1>3, <1>4, <2>3, <3>1 DEF Full
  <2> QED
    BY <1>1, <2>1, <2>2, <2>3
<1> QED
  BY <1>4, <1>6, <1>7 DEF u

\* What comes after a frame: with the next frame, when the rest is never sent, when
\* the beginning is forgotten, and when it is another frame.
LEMMA ComesExtended ==
  ASSUME NEW s \in Seq(SomePiece), NEW q \in Seq(SomePiece), NEW b \in Seq(Frames),
         NEW f \in Frames, q = Pieces(f), f.no = Len(b) + 1, NEW n \in 0 .. Len(b), NEW e,
         ComesAfter(s, b, n, e), Complete(s, b, n, e)
  PROVE  ComesAfter(s \o q, Append(b, f), n, e) /\ Complete(s \o q, Append(b, f), n, e)
<1> DEFINE u == s \o q
<1>1. Run(u, Append(b, f)) /\ Full(u, Append(b, f))
  BY RunExtended DEF ComesAfter, Complete
<1>2. /\ Len(s) \in Nat /\ Len(q) \in Nat
      /\ DOMAIN s = 1 .. Len(s) /\ DOMAIN q = 1 .. Len(q)
      /\ DOMAIN u = 1 .. (Len(s) + Len(q))
      /\ \A i \in DOMAIN s : u[i] = s[i]
      /\ \A i \in DOMAIN q : u[Len(s) + i] = q[i]
      /\ s # <<>> => Len(s) >= 1 /\ u[1] = s[1] /\ u # <<>>
      /\ s = <<>> => Len(s) = 0 /\ u = q
  <2>1. /\ Len(s) \in Nat /\ Len(q) \in Nat
        /\ DOMAIN s = 1 .. Len(s) /\ DOMAIN q = 1 .. Len(q)
    BY Joined
  <2>2. /\ DOMAIN u = 1 .. (Len(s) + Len(q))
        /\ \A i \in DOMAIN s : u[i] = s[i]
        /\ \A i \in DOMAIN q : u[Len(s) + i] = q[i]
    BY Joined
  <2>3. /\ s # <<>> => Len(s) >= 1 /\ u[1] = s[1] /\ u # <<>>
        /\ s = <<>> => Len(s) = 0 /\ u = q
    BY Joined
  <2> QED
    BY <2>1, <2>2, <2>3
<1> HIDE DEF u
<1>3. /\ \A i \in DOMAIN q : q[i] = [frame |-> f, no |-> i]
      /\ q # <<>> /\ 1 \in DOMAIN q
  <2>1. /\ Pieces(f) # <<>> /\ Len(Pieces(f)) = Size(f.kind)
        /\ \A i \in 1 .. Size(f.kind) : Pieces(f)[i] = [frame |-> f, no |-> i]
    BY FrameFacts
  <2>2. Size(f.kind) \in Nat /\ Size(f.kind) >= 1
    BY Sizes
  <2> QED
    BY <1>2, <2>1, <2>2
<1>4. n \in Nat /\ f.no > n /\ Len(b) \in Nat
  BY LenProperties
<1>5. ASSUME NEW i \in DOMAIN u PROVE u[i].frame.no > n
  <2>1. CASE i \in DOMAIN s
    BY <1>2, <2>1 DEF ComesAfter
  <2>2. CASE i \notin DOMAIN s
    <3>1. i \in Int /\ i > Len(s) /\ i =< Len(s) + Len(q)
      BY <1>2, <2>2
    <3>2. PICK k \in DOMAIN q : Len(s) + k = i
      <4>1. i - Len(s) \in 1 .. Len(q) /\ Len(s) + (i - Len(s)) = i
        BY <1>2, <3>1
      <4> QED
        BY <1>2, <4>1
    <3>3. u[i] = q[k] /\ q[k] = [frame |-> f, no |-> k]
      BY <1>2, <1>3, <3>2
    <3> QED
      BY <1>4, <3>3
  <2> QED
    BY <2>1, <2>2
<1>6. e = "server" => u[1].no = 1 /\ u[1].frame.no = n + 1
  <2>1. CASE s = <<>>
    BY <1>2, <1>3, <2>1 DEF Complete
  <2>2. CASE s # <<>>
    BY <1>2, <2>2 DEF ComesAfter
  <2> QED
    BY <2>1, <2>2
<1>7. u # <<>>
  BY <1>2, <1>3
<1> QED
  BY <1>1, <1>5, <1>6, <1>7 DEF ComesAfter, Complete, u

LEMMA ComesCut ==
  ASSUME NEW s \in Seq(SomePiece), NEW t \in Seq(SomePiece), NEW b, NEW n, NEW e,
         ComesAfter(s \o t, b, n, e)
  PROVE  ComesAfter(s, b, n, e)
<1>1. Run(s, b)
  BY RunParts DEF ComesAfter
<1>2. /\ Len(s) \in Nat /\ Len(t) \in Nat /\ DOMAIN s = 1 .. Len(s)
      /\ DOMAIN (s \o t) = 1 .. (Len(s) + Len(t))
      /\ \A i \in DOMAIN s : (s \o t)[i] = s[i]
      /\ s # <<>> => Len(s) >= 1 /\ (s \o t)[1] = s[1] /\ s \o t # <<>>
  BY Joined
<1>3. \A i \in DOMAIN s : i \in DOMAIN (s \o t)
  BY <1>2
<1> QED
  BY <1>1, <1>2, <1>3 DEF ComesAfter

LEMMA ComesForgotten ==
  ASSUME NEW s \in Seq(SomePiece), NEW t \in Seq(SomePiece), NEW b, NEW n, NEW e,
         e # "server", ComesAfter(s \o t, b, n, e)
  PROVE  /\ ComesAfter(t, b, n, e)
         /\ Complete(s \o t, b, n, e) => Complete(t, b, n, e)
<1>1. Run(t, b) /\ (Full(s \o t, b) => Full(t, b))
  BY RunParts, FullParts DEF ComesAfter
<1>2. /\ Len(s) \in Nat /\ Len(t) \in Nat /\ DOMAIN t = 1 .. Len(t)
      /\ DOMAIN (s \o t) = 1 .. (Len(s) + Len(t))
      /\ \A i \in DOMAIN t : (s \o t)[Len(s) + i] = t[i]
  BY Joined
<1>3. \A i \in DOMAIN t : Len(s) + i \in DOMAIN (s \o t)
  BY <1>2
<1>4. \A i \in DOMAIN t : t[i].frame.no > n
  BY <1>2, <1>3 DEF ComesAfter
<1> QED
  BY <1>1, <1>4 DEF ComesAfter, Complete

LEMMA ComesWhole ==
  ASSUME NEW s \in Seq(SomePiece), NEW t \in Seq(SomePiece), NEW b, NEW n \in Nat, NEW e,
         ComesAfter(s \o t, b, n, e), s # <<>>, s[1].no = 1,
         Len(s) = Size(s[1].frame.kind)
  PROVE  /\ s = Pieces(s[1].frame) /\ s[1].frame.no \in DOMAIN b
         /\ s[1].frame = b[s[1].frame.no] /\ s[1].frame.no > n
         /\ e = "server" => s[1].frame.no = n + 1
         /\ ComesAfter(t, b, s[1].frame.no, e)
         /\ Complete(s \o t, b, n, e) => Complete(t, b, s[1].frame.no, e)
<1>1. Run(s \o t, b)
  BY DEF ComesAfter
<1>2. /\ s[1].frame.no \in DOMAIN b /\ s[1].frame = b[s[1].frame.no]
      /\ s = Pieces(s[1].frame)
      /\ \A i \in DOMAIN t : t[i].frame.no > s[1].frame.no
      /\ t # <<>> => t[1].no = 1 /\ t[1].frame.no = s[1].frame.no + 1
      /\ Full(s \o t, b) /\ t = <<>> => s[1].frame.no = Len(b)
  BY <1>1, WholeFrame
<1>3. Run(t, b) /\ (Full(s \o t, b) => Full(t, b))
  BY <1>1, RunParts, FullParts
<1>4. /\ Len(s) \in Nat /\ Len(t) \in Nat /\ Len(s) >= 1
      /\ DOMAIN (s \o t) = 1 .. (Len(s) + Len(t)) /\ DOMAIN s = 1 .. Len(s)
      /\ s \o t # <<>> /\ (s \o t)[1] = s[1] /\ 1 \in DOMAIN (s \o t)
  BY Joined
<1>5. s[1].frame.no > n /\ (e = "server" => s[1].frame.no = n + 1)
  BY <1>4 DEF ComesAfter
<1> QED
  BY <1>2, <1>3, <1>5 DEF ComesAfter, Complete

-----------------------------------------------------------------------------
(* Types                                                                     *)

LEMMA TypeParts ==
  /\ TypeOK <=> /\ LockTypes /\ StateTypes /\ WantTypes /\ StreamTypes /\ FrameTypes
                /\ RecvTypes /\ Bounded /\ Locked
  /\ TypeOK' <=> /\ LockTypes' /\ StateTypes' /\ WantTypes' /\ StreamTypes' /\ FrameTypes'
                 /\ RecvTypes' /\ Bounded' /\ Locked'
BY DEF TypeOK, LockTypes, StateTypes, WantTypes, StreamTypes, FrameTypes, RecvTypes, Bounded, Locked

LEMMA TypesKept ==
  /\ LockTypes /\ UNCHANGED <<open, lock>> => LockTypes'
  /\ StateTypes /\ UNCHANGED ctxVars => StateTypes'
  /\ WantTypes /\ UNCHANGED want => WantTypes'
  /\ StreamTypes /\ UNCHANGED <<left, pipe, part>> => StreamTypes'
  /\ FrameTypes /\ UNCHANGED <<begun, handled>> => FrameTypes'
  /\ RecvTypes /\ UNCHANGED rpc => RecvTypes'
  /\ Bounded /\ UNCHANGED pipe => Bounded'
  /\ Locked /\ UNCHANGED <<left, lock>> => Locked'
  /\ Holding /\ UNCHANGED <<left, lock>> => Holding'
  /\ Numbered /\ UNCHANGED begun => Numbered'
BY DEF LockTypes, StateTypes, WantTypes, StreamTypes, FrameTypes, RecvTypes, Bounded, Locked,
       Holding, Numbered, ctxVars

\* The frame that is begun.
NextFrame(e, t) == [no |-> Len(begun[e]) + 1, kind |-> want[e][t]]

LEMMA LockStep ==
  ASSUME TypeOK, Holding, Numbered, NEW e \in Ends, NEW t \in Threads, SendLock(e, t)
  PROVE  /\ NextFrame(e, t) \in Frames /\ left[e] = <<>>
         /\ begun' = [begun EXCEPT ![e] = Append(@, NextFrame(e, t))]
         /\ left' = [left EXCEPT ![e] = Pieces(NextFrame(e, t))]
         /\ TypeOK' /\ Holding' /\ Numbered'
<1> USE TypeParts, TypesKept, EndFacts DEF recvVars, ctxVars
<1>1. want[e][t] \in Kinds /\ begun[e] \in Seq(Frames) /\ Len(begun[e]) \in Nat
      /\ lock[e] = "free" /\ left[e] = <<>>
  BY DEF SendLock, WantTypes, FrameTypes, Locked
<1>2. PICK f : f = NextFrame(e, t)
  OBVIOUS
<1>3. f \in Frames /\ f.no = Len(begun[e]) + 1
  BY <1>1, <1>2 DEF NextFrame, Frames
<1>4. /\ lock' = [lock EXCEPT ![e] = t] /\ begun' = [begun EXCEPT ![e] = Append(@, f)]
      /\ left' = [left EXCEPT ![e] = Pieces(f)] /\ UNCHANGED <<ctxVars, want, pipe, recvVars>>
  BY <1>2 DEF SendLock, NextFrame
<1>5. Pieces(f) \in Seq(SomePiece) /\ Pieces(f) # <<>>
  BY <1>3, FrameFacts
<1>6. Append(begun[e], f) \in Seq(Frames)
      /\ \A i \in DOMAIN Append(begun[e], f) :
           \/ i \in DOMAIN begun[e] /\ Append(begun[e], f)[i] = begun[e][i]
           \/ i = Len(begun[e]) + 1 /\ Append(begun[e], f)[i] = f
  BY <1>1, <1>3
<1>7. LockTypes' /\ StreamTypes' /\ FrameTypes'
  BY <1>4, <1>5, <1>6 DEF LockTypes, StreamTypes, FrameTypes
<1>8. Locked' /\ Holding'
  BY <1>4, <1>5 DEF Locked, Holding, LockTypes, StreamTypes
<1>9. Numbered'
  <2> SUFFICES ASSUME NEW d \in Ends, NEW i \in DOMAIN begun'[d] PROVE begun'[d][i].no = i
    BY DEF Numbered
  <2>1. CASE d = e
    BY <1>3, <1>4, <1>6, <2>1 DEF Numbered, FrameTypes
  <2>2. CASE d # e
    BY <1>4, <2>2 DEF Numbered, FrameTypes
  <2> QED
    BY <2>1, <2>2
<1> QED
  BY <1>1, <1>2, <1>3, <1>4, <1>7, <1>8, <1>9

\* A piece goes out.
LEMMA PieceStep ==
  ASSUME TypeOK, Holding, Numbered, NEW e \in Ends, NEW t \in Threads, SendPiece(e, t)
  PROVE  /\ left[e] # <<>> /\ Live /\ UNCHANGED <<ctxVars, begun, recvVars>>
         /\ pipe' = [pipe EXCEPT ![e] = Append(@, Head(left[e]))]
         /\ left' = [left EXCEPT ![e] = Tail(@)]
         /\ TypeOK' /\ Holding' /\ Numbered'
<1> USE TypeParts, TypesKept, EndFacts DEF recvVars, ctxVars
<1>1. lock[e] = t /\ t # "free" /\ left[e] # <<>> /\ Live
  BY DEF SendPiece, Holding, Live
<1>2. /\ pipe' = [pipe EXCEPT ![e] = Append(@, Head(left[e]))]
      /\ left' = [left EXCEPT ![e] = Tail(@)] /\ Len(pipe[e]) < SockBuf
      /\ UNCHANGED <<ctxVars, begun, recvVars>>
  BY DEF SendPiece
<1>3. /\ left[e] \in Seq(SomePiece) /\ pipe[e] \in Seq(SomePiece)
  BY DEF StreamTypes
<1>4. /\ Head(left[e]) \in SomePiece /\ Tail(left[e]) \in Seq(SomePiece)
      /\ Len(Tail(left[e])) = Len(left[e]) - 1 /\ Len(left[e]) \in Nat
  BY <1>1, <1>3, HeadTailProperties, LenProperties
<1>5. /\ Append(pipe[e], Head(left[e])) \in Seq(SomePiece)
      /\ Len(Append(pipe[e], Head(left[e]))) = Len(pipe[e]) + 1 /\ Len(pipe[e]) \in Nat
  BY <1>3, <1>4, AppendProperties, LenProperties
<1>6. StreamTypes' /\ Bounded'
  <2>1. StreamTypes'
    BY <1>2, <1>4, <1>5 DEF StreamTypes
  <2>2. Len(pipe[e]) + 1 =< SockBuf
    BY <1>2, <1>5, Sizes
  <2> QED
    BY <1>2, <1>5, <2>1, <2>2 DEF StreamTypes, Bounded
<1>7. CASE Len(left[e]) = 1
  <2>1. lock' = [lock EXCEPT ![e] = "free"] /\ want' = [want EXCEPT ![e][t] = Then(@)]
    BY <1>7 DEF SendPiece, Unlock
  <2>2. Tail(left[e]) = <<>>
    <3>1. Len(Tail(left[e])) = 0 /\ Tail(left[e]) \in Seq(SomePiece)
      BY <1>4, <1>7
    <3> QED
      BY <3>1, EmptySeq
  <2>3. LockTypes' /\ WantTypes'
    BY <1>2, <2>1 DEF LockTypes, WantTypes, Then
  <2>4. Locked' /\ Holding'
    BY <1>2, <2>1, <2>2 DEF Locked, Holding, LockTypes, StreamTypes
  <2> QED
    BY <1>1, <1>2, <1>6, <2>3, <2>4
<1>8. CASE Len(left[e]) # 1
  <2>1. UNCHANGED <<lock, want>>
    BY <1>8 DEF SendPiece
  <2>2. Len(left[e]) # 0
    BY <1>1, <1>3, EmptySeq
  <2>3. Tail(left[e]) # <<>>
    <3>1. Len(Tail(left[e])) # 0
      BY <1>4, <1>8, <2>2
    <3> QED
      BY <3>1, EmptySeq
  <2>4. Locked' /\ Holding'
    BY <1>1, <1>2, <2>1, <2>3 DEF Locked, Holding, StreamTypes
  <2> QED
    BY <1>1, <1>2, <1>6, <2>1, <2>4
<1> QED
  BY <1>7, <1>8

\* The other steps of senders, and IpcDisconnect.
SenderStep(e) ==
  \/ \E t \in Senders : SendBegin(e, t) \/ DisconnectBegin(e, t) \/ Disconnect(e, t)
  \/ \E t \in Threads : SendFails(e, t)

LEMMA SendTypes ==
  ASSUME TypeOK, Holding, Numbered, NEW e \in Ends, SenderStep(e)
  PROVE  TypeOK' /\ Holding' /\ Numbered'
<1> USE TypeParts, TypesKept, EndFacts DEF recvVars, ctxVars
<1>1. ASSUME NEW t \in Senders, SendBegin(e, t) PROVE TypeOK' /\ Holding' /\ Numbered'
  <2>1. WantTypes'
    BY <1>1 DEF SendBegin, WantTypes, Kinds
  <2> QED
    BY <1>1, <2>1 DEF SendBegin
<1>2. ASSUME NEW t \in Threads, SendFails(e, t) PROVE TypeOK' /\ Holding' /\ Numbered'
  <2>1. /\ lock' = [lock EXCEPT ![e] = "free"] /\ want' = [want EXCEPT ![e][t] = Then(@)]
        /\ left' = [left EXCEPT ![e] = <<>>] /\ UNCHANGED <<ctxVars, begun, pipe, recvVars>>
    BY <1>2 DEF SendFails, Unlock
  <2>2. <<>> \in Seq(SomePiece)
    OBVIOUS
  <2>3. LockTypes' /\ WantTypes' /\ StreamTypes'
    BY <2>1, <2>2 DEF LockTypes, WantTypes, StreamTypes, Then
  <2>4. Locked' /\ Holding'
    BY <2>1 DEF Locked, Holding, LockTypes, StreamTypes
  <2> QED
    BY <2>1, <2>3, <2>4
<1>3. ASSUME NEW t \in Senders, DisconnectBegin(e, t) PROVE TypeOK' /\ Holding' /\ Numbered'
  <2>1. WantTypes'
    <3>1. PICK k \in {"bye", "close"} : want' = [want EXCEPT ![e][t] = k]
      BY <1>3 DEF DisconnectBegin
    <3> QED
      BY <3>1 DEF WantTypes, Kinds
  <2>2. StateTypes'
    <3>1. UNCHANGED <<open, up>> /\ running' \in {running, [running EXCEPT ![e] = FALSE]}
      BY <1>3 DEF DisconnectBegin
    <3>2. running' \in [Ends -> BOOLEAN]
      <4>1. running \in [Ends -> BOOLEAN] /\ FALSE \in BOOLEAN
        BY DEF StateTypes
      <4>2. [running EXCEPT ![e] = FALSE] \in [Ends -> BOOLEAN]
        BY <4>1
      <4> QED
        BY <3>1, <4>1, <4>2
    <3> QED
      BY <3>1, <3>2, Zenon DEF StateTypes
  <2> QED
    BY <1>3, <2>1, <2>2 DEF DisconnectBegin
<1>4. ASSUME NEW t \in Senders, Disconnect(e, t) PROVE TypeOK' /\ Holding' /\ Numbered'
  <2>1. /\ open' = [open EXCEPT ![e] = FALSE] /\ up' = [up EXCEPT ![e] = FALSE]
        /\ want' = [want EXCEPT ![e][t] = "none"]
        /\ UNCHANGED <<running, lock, left, begun, pipe, recvVars>>
    BY <1>4 DEF Disconnect, CloseSocket
  <2>2. LockTypes' /\ StateTypes' /\ WantTypes'
    BY <2>1 DEF LockTypes, StateTypes, WantTypes
  <2> QED
    BY <2>1, <2>2
<1> QED
  BY <1>1, <1>2, <1>3, <1>4 DEF SenderStep

\* What the receive thread does with the piece it takes.
Took(e) ==
  /\ TakePiece(e) /\ UNCHANGED <<open, running, lock, left, begun>>
  /\ \/ /\ rpc[e] = "header"
        /\ rpc' = [rpc EXCEPT ![e] = "drop"] /\ UNCHANGED <<up, want, part, handled>>
     \/ /\ rpc'[e] \in {"header", "payload"} /\ part' = [part EXCEPT ![e] = Next1(e)]
        /\ rpc' = [rpc EXCEPT ![e] = rpc'[e]] /\ UNCHANGED <<up, want, handled>>
     \/ /\ rpc[e] = "payload" /\ ~ChecksumOK(Next1(e)) /\ Len(Next1(e)) = Announced(part[e])
        /\ rpc' = [rpc EXCEPT ![e] = "top"] /\ part' = [part EXCEPT ![e] = <<>>]
        /\ UNCHANGED <<up, want, handled>>
     \/ Handle(e, Next1(e))

LEMMA NextPiece ==
  ASSUME TypeOK, NEW e \in Ends, TakePiece(e)
  PROVE  /\ pipe[Peer(e)] \in Seq(SomePiece) /\ part[e] \in Seq(SomePiece)
         /\ pipe[Peer(e)] # <<>> /\ Head(pipe[Peer(e)]) \in SomePiece
         /\ Tail(pipe[Peer(e)]) \in Seq(SomePiece)
         /\ Len(Tail(pipe[Peer(e)])) = Len(pipe[Peer(e)]) - 1
         /\ Next1(e) \in Seq(SomePiece) /\ Next1(e) # <<>> /\ Next1(e)[1] \in SomePiece
         /\ Len(Next1(e)) = Len(part[e]) + 1 /\ Len(part[e]) \in Nat
         /\ rpc[e] \in {"header", "payload"} /\ open[e]
         /\ pipe' = [pipe EXCEPT ![Peer(e)] = Tail(@)]
<1>1. pipe[Peer(e)] \in Seq(SomePiece) /\ part[e] \in Seq(SomePiece) /\ pipe[Peer(e)] # <<>>
  BY TypeParts, EndFacts DEF StreamTypes, TakePiece
<1>2. /\ Head(pipe[Peer(e)]) \in SomePiece /\ Tail(pipe[Peer(e)]) \in Seq(SomePiece)
      /\ Len(Tail(pipe[Peer(e)])) = Len(pipe[Peer(e)]) - 1
  BY <1>1, HeadTailProperties
<1>3. /\ Next1(e) \in Seq(SomePiece) /\ Next1(e) # <<>>
      /\ Len(Next1(e)) = Len(part[e]) + 1 /\ Len(part[e]) \in Nat
  BY <1>1, <1>2, AppendProperties, LenProperties DEF Next1
<1>4. Next1(e)[1] \in SomePiece
  <2>1. 1 \in 1 .. Len(Next1(e))
    BY <1>3
  <2> QED
    BY <1>3, <2>1, ElementOfSeq
<1> QED
  BY <1>1, <1>2, <1>3, <1>4 DEF TakePiece, Reading

LEMMA TookStep ==
  ASSUME TypeOK, Holding, Numbered, NEW e \in Ends, Took(e)
  PROVE  TypeOK' /\ Holding' /\ Numbered'
<1> USE TypeParts, TypesKept, EndFacts
<1>1. /\ Tail(pipe[Peer(e)]) \in Seq(SomePiece) /\ Next1(e) \in Seq(SomePiece)
      /\ pipe' = [pipe EXCEPT ![Peer(e)] = Tail(@)] /\ Next1(e)[1] \in SomePiece
      /\ Len(Tail(pipe[Peer(e)])) = Len(pipe[Peer(e)]) - 1 /\ pipe[Peer(e)] \in Seq(SomePiece)
  BY NextPiece DEF Took
<1>2. UNCHANGED <<open, running, lock, left, begun>> /\ <<>> \in Seq(SomePiece)
  BY DEF Took
<1>3. FrameOf(Next1(e)) \in Frames \cup {NoFrame}
  BY <1>1, FrameFacts DEF FrameOf
<1>4. /\ part' \in {part, [part EXCEPT ![e] = <<>>], [part EXCEPT ![e] = Next1(e)]}
      /\ want' \in {want, [want EXCEPT ![e]["recv"] = "answer"]}
      /\ handled' \in {handled, [handled EXCEPT ![e] = Append(@, FrameOf(Next1(e)))]}
      /\ \E l \in {"top", "header", "payload", "drop"} : rpc' = [rpc EXCEPT ![e] = l]
      /\ up' \in {up, [up EXCEPT ![e] = FALSE]}
  BY DEF Took, Handle
<1>5. WantTypes' /\ StateTypes'
  <2>1. WantTypes'
    BY <1>4 DEF WantTypes, Kinds
  <2>2. StateTypes'
    <3>1. up' \in [Ends -> BOOLEAN]
      <4>1. up \in [Ends -> BOOLEAN]
        BY DEF StateTypes
      <4>2. [up EXCEPT ![e] = FALSE] \in [Ends -> BOOLEAN]
        BY <4>1
      <4> QED
        BY <1>4, <4>1, <4>2
    <3>2. \A d \in Ends : up'[d] => up[d]
      BY <1>4 DEF StateTypes
    <3> QED
      BY <1>2, <3>1, <3>2, Zenon DEF StateTypes
  <2> QED
    BY <2>1, <2>2
<1>6. FrameTypes'
  <2>1. \A n \in Seq(Frames \cup {NoFrame}) :
          Append(n, FrameOf(Next1(e))) \in Seq(Frames \cup {NoFrame})
    BY <1>3
  <2>2. /\ handled \in [Ends -> Seq(Frames \cup {NoFrame})]
        /\ begun \in [Ends -> Seq(Frames)]
    BY DEF FrameTypes
  <2>3. Append(handled[e], FrameOf(Next1(e))) \in Seq(Frames \cup {NoFrame})
    BY <2>1, <2>2
  <2>4. [handled EXCEPT ![e] = Append(@, FrameOf(Next1(e)))]
          \in [Ends -> Seq(Frames \cup {NoFrame})]
    BY <2>2, <2>3
  <2> QED
    BY <1>2, <1>4, <2>2, <2>4 DEF FrameTypes
<1>7. RecvTypes'
  BY <1>4 DEF RecvTypes
<1>8. StreamTypes'
  <2>1. pipe' \in [Ends -> Seq(SomePiece)]
    BY <1>1 DEF StreamTypes
  <2>2. \A ps \in Seq(SomePiece) : [part EXCEPT ![e] = ps] \in [Ends -> Seq(SomePiece)]
    BY DEF StreamTypes
  <2>3. part' \in [Ends -> Seq(SomePiece)]
    <3>1. CASE part' = part
      BY <3>1 DEF StreamTypes
    <3>2. CASE part' = [part EXCEPT ![e] = <<>>]
      BY <1>2, <2>2, <3>2
    <3>3. CASE part' = [part EXCEPT ![e] = Next1(e)]
      <4>1. [part EXCEPT ![e] = Next1(e)] \in [Ends -> Seq(SomePiece)]
        BY <1>1, <2>2
      <4> QED
        BY <3>3, <4>1
    <3> QED
      BY <1>4, <3>1, <3>2, <3>3
  <2> QED
    BY <1>2, <2>1, <2>3 DEF StreamTypes
<1>9. Bounded'
  <2>1. Len(pipe[Peer(e)]) =< SockBuf /\ Len(pipe[Peer(e)]) \in Nat
    BY <1>1 DEF Bounded
  <2>2. Len(Tail(pipe[Peer(e)])) =< SockBuf
    BY <1>1, <2>1, Sizes
  <2> QED
    BY <1>1, <2>2 DEF Bounded, StreamTypes
<1> QED
  BY <1>2, <1>5, <1>6, <1>7, <1>8, <1>9

\* The receive thread.
LEMMA TakeCases ==
  ASSUME TypeOK, NEW e \in Ends, RecvSome(e) \/ RecvHeader(e) \/ RecvPayload(e)
  PROVE  Took(e)
<1> USE DEF sendVars, ctxVars
<1>1. /\ rpc \in [Ends -> {"top", "header", "payload", "drop", "end"}]
      /\ rpc[e] \in {"header", "payload"}
  BY TypeParts DEF RecvTypes, RecvSome, RecvHeader, RecvPayload, TakePiece, Reading
<1>2. CASE RecvSome(e)
  <2>1. rpc' = [rpc EXCEPT ![e] = rpc'[e]] /\ rpc'[e] \in {"header", "payload"}
    BY <1>1, <1>2 DEF RecvSome
  <2> QED
    BY <1>2, <2>1 DEF RecvSome, Took
<1>3. CASE RecvHeader(e)
  <2>1. \/ ~HeaderValid(Next1(e)) /\ rpc' = [rpc EXCEPT ![e] = "drop"]
           /\ UNCHANGED <<up, want, part, handled>>
        \/ Handle(e, Next1(e))
        \/ /\ rpc' = [rpc EXCEPT ![e] = "payload"] /\ part' = [part EXCEPT ![e] = Next1(e)]
           /\ UNCHANGED <<up, want, handled>>
    BY <1>3 DEF RecvHeader
  <2>2. rpc' = [rpc EXCEPT ![e] = "payload"]
          => rpc'[e] \in {"header", "payload"} /\ rpc' = [rpc EXCEPT ![e] = rpc'[e]]
    BY <1>1
  <2> QED
    BY <1>3, <2>1, <2>2 DEF RecvHeader, Took
<1>4. CASE RecvPayload(e)
  BY <1>4 DEF RecvPayload, Took
<1> QED
  BY <1>2, <1>3, <1>4

LEMMA RecvStepTypes ==
  ASSUME TypeOK, Holding, Numbered, NEW e \in Ends,
         RecvTop(e) \/ HeaderTimeout(e) \/ RecvFails(e) \/ RecvDrop(e)
  PROVE  TypeOK' /\ Holding' /\ Numbered'
<1> USE TypeParts, TypesKept, EndFacts DEF sendVars, ctxVars
<1>1. CASE HeaderTimeout(e)
  <2>1. <<>> \in Seq(SomePiece)
    OBVIOUS
  <2>2. StreamTypes' /\ RecvTypes'
    BY <1>1, <2>1 DEF HeaderTimeout, StreamTypes, RecvTypes
  <2> QED
    BY <1>1, <2>2 DEF HeaderTimeout
<1>2. CASE RecvFails(e)
  <2>1. RecvTypes'
    BY <1>2 DEF RecvFails, RecvTypes
  <2> QED
    BY <1>2, <2>1 DEF RecvFails
<1>3. CASE RecvDrop(e)
  <2>1. RecvTypes' /\ LockTypes' /\ StateTypes'
    BY <1>3 DEF RecvDrop, CloseSocket, RecvTypes, LockTypes, StateTypes
  <2> QED
    BY <1>3, <2>1 DEF RecvDrop, CloseSocket
<1>4. CASE RecvTop(e)
  <2>1. RecvTypes'
    BY <1>4 DEF RecvTop, RecvTypes
  <2> QED
    BY <1>4, <2>1 DEF RecvTop
<1> QED
  BY <1>1, <1>2, <1>3, <1>4

\* Every step keeps the types, the lock and the numbers.
LEMMA TypeStep ==
  ASSUME TypeOK, Holding, Numbered, [Next]_vars
  PROVE  TypeOK' /\ Holding' /\ Numbered'
<1>1. CASE UNCHANGED vars
  BY <1>1, TypeParts, TypesKept DEF vars, ctxVars, sendVars, recvVars
<1>2. ASSUME NEW e \in Ends, RecvStep(e) \/ HeaderTimeout(e)
      PROVE  TypeOK' /\ Holding' /\ Numbered'
  BY <1>2, TakeCases, TookStep, RecvStepTypes DEF RecvStep
<1>3. ASSUME NEW e \in Ends, SenderStep(e)
      PROVE  TypeOK' /\ Holding' /\ Numbered'
  BY <1>3, SendTypes
<1>4. ASSUME NEW e \in Ends, NEW t \in Threads, SendLock(e, t) \/ SendPiece(e, t)
      PROVE  TypeOK' /\ Holding' /\ Numbered'
  BY <1>4, LockStep, PieceStep
<1> QED
  BY <1>1, <1>2, <1>3, <1>4 DEF Next, SenderStep

-----------------------------------------------------------------------------
(* The stream of an end                                                      *)

LEMMA ToReadTypes ==
  ASSUME TypeOK, NEW e \in Ends
  PROVE  /\ pipe[Peer(e)] \in Seq(SomePiece) /\ left[Peer(e)] \in Seq(SomePiece)
         /\ part[e] \in Seq(SomePiece) /\ ToRead(e) \in Seq(SomePiece)
         /\ Stream(e) \in Seq(SomePiece) /\ begun[Peer(e)] \in Seq(Frames)
<1>1. /\ pipe[Peer(e)] \in Seq(SomePiece) /\ left[Peer(e)] \in Seq(SomePiece)
      /\ part[e] \in Seq(SomePiece) /\ begun[Peer(e)] \in Seq(Frames)
  BY TypeParts, EndFacts DEF StreamTypes, FrameTypes
<1>2. ToRead(e) \in Seq(SomePiece)
  BY <1>1, ConcatProperties DEF ToRead
<1> QED
  BY <1>1, <1>2, ConcatProperties DEF Stream

\* What an end may still read, for any step: this says which of its parts moved.
LEMMA Unmoved ==
  ASSUME NEW e \in Ends, UNCHANGED open, part'[e] = part[e], ToRead(e)' = ToRead(e),
         rpc'[e] = rpc[e], handled'[e] = handled[e], begun'[Peer(e)] = begun[Peer(e)],
         InStream(e), Parted(e)
  PROVE  InStream(e)' /\ Parted(e)'
<1>1. Stream(e)' = Stream(e) /\ LastHandled(e)' = LastHandled(e) /\ (Live' <=> Live)
      /\ (InStep(e)' <=> InStep(e))
  BY DEF Stream, LastHandled, Live, InStep
<1>2. Parted(e)'
  BY DEF Parted, Announced
<1> QED
  BY <1>1, <1>2 DEF InStream

\* A frame that is begun comes after all others.
LEMMA LockStream ==
  ASSUME TypeOK, Holding, Numbered, NEW e \in Ends, InStream(e), Parted(e),
         NEW t \in Threads, SendLock(Peer(e), t)
  PROVE  InStream(e)' /\ Parted(e)'
<1>1. PICK p \in Ends : p = Peer(e)
  BY EndFacts
<1>2. PICK f : f = NextFrame(p, t)
  OBVIOUS
<1>3. PICK q : q = Pieces(f)
  OBVIOUS
<1>4. PICK n : n = LastHandled(e)
  OBVIOUS
<1>5. PICK b : b = begun[p]
  OBVIOUS
<1>6. /\ f \in Frames /\ left[p] = <<>> /\ begun' = [begun EXCEPT ![p] = Append(@, f)]
      /\ left' = [left EXCEPT ![p] = q]
  BY <1>1, <1>2, <1>3, LockStep
<1>7. UNCHANGED <<open, pipe, part, rpc, handled>> /\ f.no = Len(b) + 1
  BY <1>1, <1>2, <1>5 DEF SendLock, recvVars, ctxVars, NextFrame
<1>8. /\ pipe[p] \in Seq(SomePiece) /\ part[e] \in Seq(SomePiece)
      /\ ToRead(e) \in Seq(SomePiece) /\ Stream(e) \in Seq(SomePiece)
      /\ b \in Seq(Frames) /\ q \in Seq(SomePiece)
  BY <1>1, <1>3, <1>5, <1>6, ToReadTypes, FrameFacts
<1>9. begun'[p] = Append(b, f) /\ left'[p] = q
  BY <1>1, <1>5, <1>6, TypeParts DEF FrameTypes, StreamTypes
<1>10. LastHandled(e)' = n /\ (Live' <=> Live) /\ (InStep(e)' <=> InStep(e))
  BY <1>4, <1>7 DEF LastHandled, Live, InStep
<1>11. n \in 0 .. Len(b) /\ n \in 0 .. Len(Append(b, f))
  <2>1. n \in 0 .. Len(b)
    BY <1>1, <1>4, <1>5 DEF InStream
  <2>2. Len(Append(b, f)) = Len(b) + 1 /\ Len(b) \in Nat
    BY <1>6, <1>8, LenProperties, AppendProperties
  <2> QED
    BY <2>1, <2>2
<1>12. Parted(e)'
  BY <1>7 DEF Parted, Announced
<1>13. InStep(e) =>
         /\ ComesAfter(Stream(e), b, n, e) /\ (Live => Complete(Stream(e), b, n, e))
  BY <1>1, <1>4, <1>5 DEF InStream
<1>14. CASE ~Live
  <2>1. Stream(e)' = Stream(e)
    BY <1>7, <1>10, <1>14 DEF Stream, ToRead
  <2>2. ComesAfter(Stream(e), b, n, e) => ComesAfter(Stream(e), Append(b, f), n, e)
    BY <1>6, <1>8, RunGrows DEF ComesAfter
  <2>3. InStream(e)'
    BY <1>1, <1>7, <1>9, <1>10, <1>11, <1>13, <1>14, <2>1, <2>2 DEF InStream
  <2> QED
    BY <1>12, <2>3
<1>15. CASE Live
  <2>1. Stream(e)' = Stream(e) \o q
    <3>1. ToRead(e) = pipe[p]
      BY <1>1, <1>6, <1>8, <1>15, ConcatEmptySeq DEF ToRead
    <3>2. ToRead(e)' = pipe[p] \o q
      BY <1>1, <1>7, <1>9, <1>10, <1>15 DEF ToRead
    <3>3. PICK x \in Seq(SomePiece), y \in Seq(SomePiece) : x = part[e] /\ y = pipe[p]
      BY <1>8
    <3>4. (x \o y) \o q = x \o (y \o q)
      <4>1. x \in Seq(SomePiece) /\ y \in Seq(SomePiece) /\ q \in Seq(SomePiece)
        BY <1>8, <3>3
      <4> QED
        BY <4>1, Assoc
    <3> QED
      BY <1>7, <3>1, <3>2, <3>3, <3>4 DEF Stream
  <2>2. PICK s \in Seq(SomePiece) : s = Stream(e)
    BY <1>8
  <2>3. ComesAfter(s, b, n, e) /\ Complete(s, b, n, e) =>
          ComesAfter(s \o q, Append(b, f), n, e) /\ Complete(s \o q, Append(b, f), n, e)
    BY <1>3, <1>6, <1>7, <1>8, <1>11, <2>2, ComesExtended
  <2>4. InStream(e)'
    BY <1>1, <1>7, <1>9, <1>10, <1>11, <1>13, <1>15, <2>1, <2>2, <2>3 DEF InStream
  <2> QED
    BY <1>12, <2>4
<1> QED
  BY <1>14, <1>15

\* The other steps of a sender move pieces of the stream, or none.
LEMMA SendStream ==
  ASSUME TypeOK, Holding, Numbered, NEW e \in Ends, InStream(e), Parted(e), NEW d \in Ends,
         \/ \E t \in Senders : SendBegin(d, t) \/ DisconnectBegin(d, t)
         \/ \E t \in Threads : SendPiece(d, t) \/ SendFails(d, t)
         \/ d = e /\ \E t \in Threads : SendLock(d, t)
  PROVE  InStream(e)' /\ Parted(e)'
<1> USE DEF recvVars, ctxVars
<1>1. Peer(e) \in Ends /\ Peer(e) # e /\ (d = e \/ d = Peer(e))
  BY EndFacts
<1>2. /\ pipe[Peer(e)] \in Seq(SomePiece) /\ left[Peer(e)] \in Seq(SomePiece)
  BY ToReadTypes
<1>3. ASSUME NEW t \in Senders, SendBegin(d, t) \/ DisconnectBegin(d, t)
      PROVE  InStream(e)' /\ Parted(e)'
  <2>1. UNCHANGED <<open, left, begun, pipe, part, rpc, handled>>
    BY <1>3 DEF SendBegin, DisconnectBegin
  <2>2. ToRead(e)' = ToRead(e)
    BY <2>1 DEF ToRead, Live
  <2> QED
    BY <2>1, <2>2, Unmoved
<1>4. ASSUME NEW t \in Threads, SendPiece(d, t) PROVE InStream(e)' /\ Parted(e)'
  <2>1. /\ left[d] # <<>> /\ Live /\ UNCHANGED <<open, begun, part, rpc, handled>>
        /\ pipe' = [pipe EXCEPT ![d] = Append(@, Head(left[d]))]
        /\ left' = [left EXCEPT ![d] = Tail(@)]
    BY <1>4, PieceStep
  <2>2. Live'
    BY <2>1 DEF Live
  <2>3. ToRead(e)' = ToRead(e)
    <3>1. CASE d = e
      BY <1>1, <2>1, <2>2, <3>1, TypeParts DEF ToRead, StreamTypes
    <3>2. CASE d = Peer(e)
      <4>1. pipe'[Peer(e)] = Append(pipe[Peer(e)], Head(left[Peer(e)]))
            /\ left'[Peer(e)] = Tail(left[Peer(e)])
        BY <1>1, <2>1, <3>2, TypeParts DEF StreamTypes
      <4>2. PICK x \in Seq(SomePiece), y \in Seq(SomePiece) :
              x = pipe[Peer(e)] /\ y = left[Peer(e)]
        BY <1>2
      <4>3. Append(x, Head(y)) \o Tail(y) = x \o y
        <5>1. y # <<>>
          BY <2>1, <3>2, <4>2
        <5>2. x \in Seq(SomePiece) /\ y \in Seq(SomePiece)
          BY <4>2
        <5> QED
          BY <5>1, <5>2, Shift
      <4> QED
        BY <2>1, <2>2, <4>1, <4>2, <4>3 DEF ToRead
    <3> QED
      BY <1>1, <3>1, <3>2
  <2> QED
    BY <2>1, <2>3, Unmoved
<1>5. ASSUME NEW t \in Threads, SendFails(d, t) PROVE InStream(e)' /\ Parted(e)'
  <2>1. UNCHANGED <<open, begun, pipe, part, rpc, handled>> /\ ~(open[d] /\ open[Peer(d)])
    BY <1>5 DEF SendFails
  <2>2. ~Live /\ ~Live'
    BY <2>1, EndFacts DEF Live
  <2>3. ToRead(e)' = ToRead(e)
    BY <2>1, <2>2 DEF ToRead
  <2> QED
    BY <2>1, <2>3, Unmoved
<1>6. ASSUME d = e, NEW t \in Threads, SendLock(d, t) PROVE InStream(e)' /\ Parted(e)'
  <2>1. /\ UNCHANGED <<open, pipe, part, rpc, handled>>
        /\ begun'[Peer(e)] = begun[Peer(e)] /\ left'[Peer(e)] = left[Peer(e)]
    BY <1>1, <1>6, TypeParts DEF SendLock, FrameTypes, StreamTypes
  <2>2. ToRead(e)' = ToRead(e)
    BY <2>1 DEF ToRead, Live
  <2> QED
    BY <2>1, <2>2, Unmoved
<1> QED
  BY <1>3, <1>4, <1>5, <1>6

\* When an end closes its socket, what is not yet on its way is never sent.
LEMMA CloseStream ==
  ASSUME TypeOK, NEW e \in Ends, InStream(e), Parted(e), NEW d \in Ends,
         open' = [open EXCEPT ![d] = FALSE], UNCHANGED <<left, begun, pipe, part, handled>>,
         rpc'[e] = rpc[e] \/ (rpc'[e] = "end" /\ d = e)
  PROVE  InStream(e)' /\ Parted(e)'
<1>1. ~Live' /\ (InStep(e)' => InStep(e))
  BY TypeParts DEF Live, LockTypes, InStep
<1>2. LastHandled(e)' = LastHandled(e)
  BY DEF LastHandled
<1>3. PICK x \in Seq(SomePiece), y \in Seq(SomePiece), z \in Seq(SomePiece) :
        x = part[e] /\ y = pipe[Peer(e)] /\ z = left[Peer(e)]
  BY ToReadTypes
<1>4. Stream(e)' = x \o y
  BY <1>1, <1>3 DEF Stream, ToRead
<1>5. Stream(e) = x \o y \/ Stream(e) = (x \o y) \o z
  <2>1. (x \o y) \o z = x \o (y \o z)
    BY Assoc
  <2> QED
    BY <1>3, <2>1 DEF Stream, ToRead
<1>6. PICK u \in Seq(SomePiece) : u = x \o y
  BY Joined
<1>7. \A b, n : ComesAfter(u \o z, b, n, e) => ComesAfter(u, b, n, e)
  BY ComesCut
<1>8. ComesAfter(Stream(e), begun[Peer(e)], LastHandled(e), e)
        => ComesAfter(u, begun[Peer(e)], LastHandled(e), e)
  BY <1>5, <1>6, <1>7
<1>9. InStream(e)'
  BY <1>1, <1>2, <1>4, <1>6, <1>8 DEF InStream
<1>10. Parted(e)'
  BY DEF Parted, Announced
<1> QED
  BY <1>9, <1>10

\* The client forgets the beginning of a header.
LEMMA TimeoutStream ==
  ASSUME TypeOK, NEW e \in Ends, InStream(e), Parted(e), HeaderTimeout(e)
  PROVE  InStream(e)' /\ Parted(e)'
<1>1. /\ e # "server" /\ rpc[e] = "header" /\ part'[e] = <<>> /\ rpc'[e] = "top"
      /\ UNCHANGED <<open, left, begun, pipe, handled>>
  BY TypeParts DEF HeaderTimeout, ctxVars, sendVars, StreamTypes, RecvTypes
<1>2. /\ LastHandled(e)' = LastHandled(e) /\ (Live' <=> Live) /\ ToRead(e)' = ToRead(e)
      /\ InStep(e)
  BY <1>1 DEF LastHandled, Live, ToRead, InStep
<1>3. PICK x \in Seq(SomePiece), y \in Seq(SomePiece) : x = part[e] /\ y = ToRead(e)
  BY ToReadTypes
<1>4. Stream(e) = x \o y /\ Stream(e)' = y
  BY <1>1, <1>2, <1>3, ConcatEmptySeq DEF Stream
<1>5. \A b, n : ComesAfter(x \o y, b, n, e) =>
                /\ ComesAfter(y, b, n, e)
                /\ Complete(x \o y, b, n, e) => Complete(y, b, n, e)
  BY <1>1, ComesForgotten
<1>6. InStream(e)'
  BY <1>1, <1>2, <1>4, <1>5 DEF InStream
<1>7. Parted(e)'
  BY <1>1 DEF Parted
<1> QED
  BY <1>6, <1>7

-----------------------------------------------------------------------------
(* The receive thread takes a piece                                          *)

LEMMA HeadJoined ==
  ASSUME NEW s \in Seq(SomePiece), NEW t \in Seq(SomePiece), s # <<>>
  PROVE  s \o t # <<>> /\ Head(s \o t) = Head(s) /\ Tail(s \o t) = Tail(s) \o t
<1>1. PICK e : e = <<>>
  OBVIOUS
<1>2. e \in Seq(SomePiece)
  BY <1>1
<1>3. Append(e, Head(s)) \o Tail(s) = s /\ Tail(s) \in Seq(SomePiece)
      /\ Append(e, Head(s)) \in Seq(SomePiece) /\ Head(s) = s[1]
  BY <1>1, <1>2, Shift, ConcatEmptySeq
<1> QED
  BY HeadTailProperties

\* The stream does not change, only how much of it is read.
LEMMA TakeKeeps ==
  ASSUME TypeOK, NEW e \in Ends, TakePiece(e), UNCHANGED <<open, left>>
  PROVE  /\ Next1(e) \o ToRead(e)' = Stream(e) /\ ToRead(e)' \in Seq(SomePiece)
         /\ (Live' <=> Live)
         /\ \A i \in DOMAIN part[e] : Next1(e)[i] = part[e][i]
<1>1. /\ pipe[Peer(e)] # <<>> /\ pipe'[Peer(e)] = Tail(pipe[Peer(e)])
      /\ Tail(pipe[Peer(e)]) \in Seq(SomePiece)
  <2>1. /\ pipe[Peer(e)] # <<>> /\ Tail(pipe[Peer(e)]) \in Seq(SomePiece)
        /\ pipe' = [pipe EXCEPT ![Peer(e)] = Tail(@)]
    BY NextPiece
  <2>2. pipe \in [Ends -> Seq(SomePiece)] /\ Peer(e) \in Ends
    BY TypeParts, EndFacts DEF StreamTypes
  <2> QED
    BY <2>1, <2>2
<1>2. PICK x \in Seq(SomePiece), y \in Seq(SomePiece), z \in Seq(SomePiece),
           w \in Seq(SomePiece) :
        x = part[e] /\ y = pipe[Peer(e)] /\ z = left[Peer(e)] /\ w = ToRead(e)
  BY ToReadTypes
<1>3. Live' <=> Live
  BY DEF Live
<1>4. w # <<>> /\ Head(w) = Head(y) /\ ToRead(e)' = Tail(w)
  <2>1. y \o z # <<>> /\ Head(y \o z) = Head(y) /\ Tail(y \o z) = Tail(y) \o z
    BY <1>1, <1>2, HeadJoined
  <2>2. CASE Live
    BY <1>1, <1>2, <1>3, <2>1, <2>2 DEF ToRead
  <2>3. CASE ~Live
    BY <1>1, <1>2, <1>3, <2>3 DEF ToRead
  <2> QED
    BY <2>2, <2>3
<1>5. /\ Append(x, Head(w)) \o Tail(w) = x \o w /\ Tail(w) \in Seq(SomePiece)
      /\ \A i \in DOMAIN x : Append(x, Head(w))[i] = x[i]
  <2>1. w # <<>>
    BY <1>4
  <2> QED
    BY <2>1, Shift
<1>6. Next1(e) = Append(x, Head(w))
  BY <1>2, <1>4 DEF Next1
<1> QED
  BY <1>2, <1>3, <1>4, <1>5, <1>6 DEF Stream

\* The next piece is the last of a frame.
Completes(e) ==
  \/ /\ rpc[e] = "header" /\ Len(Next1(e)) = HeaderLen
     /\ HeaderValid(Next1(e)) /\ Announced(Next1(e)) = HeaderLen
  \/ rpc[e] = "payload" /\ Len(Next1(e)) = Announced(part[e])

\* The frame is the peer's, complete and unchanged, and the next for the server.
LEMMA TakeWhole ==
  ASSUME TypeOK, NEW e \in Ends, InStream(e), Parted(e), TakePiece(e),
         UNCHANGED <<open, left>>, Completes(e)
  PROVE  /\ ChecksumOK(Next1(e))
         /\ \E m \in DOMAIN begun[Peer(e)] :
              /\ FrameOf(Next1(e)) = begun[Peer(e)][m] /\ begun[Peer(e)][m].no = m
              /\ m > LastHandled(e) /\ (e = "server" => m = LastHandled(e) + 1)
              /\ ComesAfter(ToRead(e)', begun[Peer(e)], m, e)
              /\ Live => Complete(ToRead(e)', begun[Peer(e)], m, e)
<1>1. PICK s \in Seq(SomePiece) : s = Next1(e)
  BY NextPiece
<1>2. PICK t \in Seq(SomePiece) : t = ToRead(e)'
  BY TakeKeeps
<1>3. PICK b \in Seq(Frames) : b = begun[Peer(e)]
  BY ToReadTypes
<1>4. PICK n \in Nat : n = LastHandled(e)
  <2>1. Len(begun[Peer(e)]) \in Nat /\ LastHandled(e) \in 0 .. Len(begun[Peer(e)])
    BY ToReadTypes, LenProperties DEF InStream
  <2> QED
    BY <2>1
<1>5. rpc[e] \in {"header", "payload"}
  BY NextPiece
<1>6. Stream(e) = s \o t
  BY <1>1, <1>2, TakeKeeps
<1>7. ComesAfter(s \o t, b, n, e) /\ (Live => Complete(s \o t, b, n, e))
  BY <1>3, <1>4, <1>5, <1>6 DEF InStream, InStep
<1>8. /\ s # <<>> /\ s[1] \in SomePiece /\ Len(s) = Len(part[e]) + 1 /\ Len(part[e]) \in Nat
      /\ part[e] \in Seq(SomePiece)
      /\ \A i \in 1 .. Len(part[e]) : s[i] = part[e][i]
  BY <1>1, NextPiece, TakeKeeps
<1>9. HeaderLen \in Nat /\ HeaderLen >= 1
  BY Sizes
<1>10. s[1].no = 1 /\ Len(s) >= HeaderLen /\ Len(s) = Size(s[HeaderLen].frame.kind)
  <2>1. CASE rpc[e] = "header"
    BY <1>1, <1>9, <2>1 DEF Completes, HeaderValid, Announced
  <2>2. CASE rpc[e] = "payload"
    <3>1. Len(part[e]) >= HeaderLen /\ part[e][1].no = 1 /\ Len(s) = Announced(part[e])
      BY <1>1, <2>2 DEF Completes, Parted
    <3>2. 1 \in 1 .. Len(part[e]) /\ HeaderLen \in 1 .. Len(part[e])
      BY <1>8, <1>9, <3>1
    <3> QED
      BY <1>8, <1>9, <3>1, <3>2 DEF Announced
  <2> QED
    BY <1>5, <2>1, <2>2
<1>11. Run(s \o t, b)
  BY <1>7 DEF ComesAfter
<1>12. \A i \in 1 .. Len(s) :
         i =< Size(s[1].frame.kind) => s[i] = [frame |-> s[1].frame, no |-> i]
  BY <1>8, <1>10, <1>11, WholeFrame
<1>13. s[HeaderLen] = [frame |-> s[1].frame, no |-> HeaderLen]
  <2>1. HeaderLen \in 1 .. Len(s) /\ HeaderLen =< Size(s[1].frame.kind)
    BY <1>8, <1>9, <1>10, Sizes
  <2> QED
    BY <1>12, <2>1
<1>14. Len(s) = Size(s[1].frame.kind)
  BY <1>10, <1>13
<1>15. /\ s = Pieces(s[1].frame) /\ s[1].frame.no \in DOMAIN b
       /\ s[1].frame = b[s[1].frame.no] /\ s[1].frame.no > n
       /\ e = "server" => s[1].frame.no = n + 1
       /\ ComesAfter(t, b, s[1].frame.no, e)
       /\ Complete(s \o t, b, n, e) => Complete(t, b, s[1].frame.no, e)
  BY <1>7, <1>8, <1>10, <1>14, ComesWhole
<1>16. FrameOf(s) = s[1].frame
  BY <1>15 DEF FrameOf
<1>17. ChecksumOK(s)
  <2>1. ASSUME NEW i \in HeaderLen + 1 .. Len(s)
        PROVE  s[i] = [frame |-> s[HeaderLen].frame, no |-> i]
    <3>1. i \in 1 .. Len(s) /\ i =< Size(s[1].frame.kind)
      BY <1>8, <1>9, <1>14
    <3> QED
      BY <1>12, <1>13, <3>1
  <2> QED
    BY <2>1 DEF ChecksumOK
<1>18. PICK m \in DOMAIN b : m = s[1].frame.no
  BY <1>15
<1> QED
  BY <1>1, <1>2, <1>3, <1>4, <1>7, <1>15, <1>16, <1>17, <1>18

\* An end handles frame m of its peer.
HandlesFrame(e, m) ==
  /\ m \in DOMAIN begun[Peer(e)] /\ m > LastHandled(e)
  /\ e = "server" => m = LastHandled(e) + 1
  /\ handled' = [handled EXCEPT ![e] = Append(@, begun[Peer(e)][m])]
  /\ LastHandled(e)' = m

LEMMA HandleStream ==
  ASSUME TypeOK, NEW e \in Ends, InStream(e), Parted(e), TakePiece(e),
         UNCHANGED <<open, left, begun>>, Completes(e), Handle(e, Next1(e))
  PROVE  InStream(e)' /\ Parted(e)' /\ \E m : HandlesFrame(e, m)
<1>1. PICK m \in DOMAIN begun[Peer(e)] :
        /\ FrameOf(Next1(e)) = begun[Peer(e)][m] /\ begun[Peer(e)][m].no = m
        /\ m > LastHandled(e) /\ (e = "server" => m = LastHandled(e) + 1)
        /\ ComesAfter(ToRead(e)', begun[Peer(e)], m, e)
        /\ Live => Complete(ToRead(e)', begun[Peer(e)], m, e)
  BY TakeWhole
<1>2. PICK f : f = begun[Peer(e)][m]
  OBVIOUS
<1>3. /\ handled' = [handled EXCEPT ![e] = Append(@, f)]
      /\ part' = [part EXCEPT ![e] = <<>>] /\ rpc' = [rpc EXCEPT ![e] = "top"]
  BY <1>1, <1>2 DEF Handle
<1>4. handled[e] \in Seq(Frames \cup {NoFrame}) /\ f \in Frames \cup {NoFrame}
  <2>1. begun[Peer(e)] \in Seq(Frames) /\ m \in DOMAIN begun[Peer(e)]
    BY <1>1, ToReadTypes
  <2> QED
    BY <1>2, <2>1, TypeParts DEF FrameTypes
<1>5. /\ part'[e] = <<>> /\ rpc'[e] = "top" /\ handled'[e] = Append(handled[e], f)
  BY <1>3, TypeParts DEF StreamTypes, RecvTypes, FrameTypes
<1>6. LastHandled(e)' = m
  <2>1. PICK h \in Seq(Frames \cup {NoFrame}) : h = handled[e]
    BY <1>4
  <2>2. Append(h, f) # <<>> /\ Append(h, f)[Len(Append(h, f))] = f
    BY <1>4, AppendProperties, LenProperties
  <2> QED
    BY <1>1, <1>2, <1>5, <2>1, <2>2 DEF LastHandled
<1>7. Stream(e)' = ToRead(e)'
  <2>1. PICK t \in Seq(SomePiece) : t = ToRead(e)'
    BY TakeKeeps
  <2>2. <<>> \o t = t
    OBVIOUS
  <2> QED
    BY <1>5, <2>1, <2>2 DEF Stream
<1>8. m \in 0 .. Len(begun[Peer(e)])
  <2>1. begun[Peer(e)] \in Seq(Frames)
    BY ToReadTypes
  <2>2. m \in 1 .. Len(begun[Peer(e)]) /\ Len(begun[Peer(e)]) \in Nat
    BY <1>1, <2>1, LenProperties
  <2> QED
    BY <2>2
<1>9. Live' <=> Live
  BY DEF Live
<1>10. InStream(e)'
  BY <1>1, <1>6, <1>7, <1>8, <1>9 DEF InStream
<1>11. Parted(e)'
  BY <1>5 DEF Parted
<1>12. HandlesFrame(e, m)
  BY <1>1, <1>2, <1>3, <1>6 DEF HandlesFrame
<1> QED
  BY <1>10, <1>11, <1>12

\* The piece is not the last of a frame.
LEMMA KeepStream ==
  ASSUME TypeOK, NEW e \in Ends, InStream(e), Parted(e), TakePiece(e),
         UNCHANGED <<open, left, begun, handled>>,
         part'[e] = Next1(e), rpc'[e] \in {"header", "payload"}, Parted(e)'
  PROVE  InStream(e)'
<1>1. InStep(e)
  BY NextPiece DEF InStep
<1>2. Stream(e)' = Stream(e) /\ (Live' <=> Live)
  BY TakeKeeps DEF Stream
<1>3. LastHandled(e)' = LastHandled(e)
  BY DEF LastHandled
<1> QED
  BY <1>1, <1>2, <1>3 DEF InStream

LEMMA TakeStream ==
  ASSUME TypeOK, NEW e \in Ends, InStream(e), Parted(e),
         RecvSome(e) \/ RecvHeader(e) \/ RecvPayload(e)
  PROVE  InStream(e)' /\ Parted(e)' /\ (handled' = handled \/ \E m : HandlesFrame(e, m))
<1>1. /\ TakePiece(e) /\ UNCHANGED <<open, lock, left, begun>>
  BY DEF RecvSome, RecvHeader, RecvPayload, ctxVars, sendVars
<1>2. /\ Next1(e) \in Seq(SomePiece) /\ Len(Next1(e)) = Len(part[e]) + 1
      /\ Len(part[e]) \in Nat /\ part[e] \in Seq(SomePiece)
      /\ \A i \in 1 .. Len(part[e]) : Next1(e)[i] = part[e][i]
      /\ rpc[e] \in {"header", "payload"}
  BY <1>1, NextPiece, TakeKeeps
<1>3. HeaderLen \in Nat /\ HeaderLen >= 1
  BY Sizes
<1>4. /\ part \in [Ends -> Seq(SomePiece)]
      /\ rpc \in [Ends -> {"top", "header", "payload", "drop", "end"}]
  BY TypeParts DEF StreamTypes, RecvTypes
<1>5. CASE RecvSome(e)
  <2>1. /\ part'[e] = Next1(e) /\ UNCHANGED <<rpc, handled>>
        /\ Len(Next1(e)) < (IF rpc[e] = "header" THEN HeaderLen ELSE Announced(part[e]))
    BY <1>4, <1>5 DEF RecvSome
  <2>2. Parted(e)'
    <3>1. CASE rpc[e] = "header"
      BY <2>1, <3>1 DEF Parted
    <3>2. CASE rpc[e] = "payload"
      <4>1. /\ Len(part[e]) >= HeaderLen /\ part[e][1].no = 1
            /\ Len(Next1(e)) < Announced(part[e])
        BY <2>1, <3>2 DEF Parted
      <4>2. Next1(e)[1] = part[e][1] /\ Next1(e)[HeaderLen] = part[e][HeaderLen]
            /\ Len(Next1(e)) >= HeaderLen
        BY <1>2, <1>3, <4>1
      <4>3. Announced(Next1(e)) = Announced(part[e])
        BY <4>2 DEF Announced
      <4> QED
        BY <2>1, <3>2, <4>1, <4>2, <4>3 DEF Parted, Announced
    <3> QED
      BY <1>2, <3>1, <3>2
  <2> QED
    BY <1>1, <1>2, <2>1, <2>2, KeepStream
<1>6. CASE RecvHeader(e)
  <2>1. rpc[e] = "header" /\ Len(Next1(e)) = HeaderLen
    BY <1>6 DEF RecvHeader
  <2>2. \/ rpc' = [rpc EXCEPT ![e] = "drop"] /\ UNCHANGED <<part, handled>>
        \/ HeaderValid(Next1(e)) /\ Announced(Next1(e)) = HeaderLen /\ Handle(e, Next1(e))
        \/ /\ HeaderValid(Next1(e)) /\ Announced(Next1(e)) # HeaderLen
           /\ rpc' = [rpc EXCEPT ![e] = "payload"] /\ part' = [part EXCEPT ![e] = Next1(e)]
           /\ UNCHANGED handled
    BY <1>6 DEF RecvHeader
  <2>3. CASE rpc' = [rpc EXCEPT ![e] = "drop"] /\ UNCHANGED <<part, handled>>
    <3>1. rpc'[e] = "drop" /\ LastHandled(e)' = LastHandled(e)
      BY <1>4, <2>3 DEF LastHandled
    <3> QED
      BY <1>1, <2>3, <3>1 DEF InStream, InStep, Parted
  <2>4. CASE HeaderValid(Next1(e)) /\ Announced(Next1(e)) = HeaderLen /\ Handle(e, Next1(e))
    BY <1>1, <2>1, <2>4, HandleStream DEF Completes
  <2>5. CASE /\ HeaderValid(Next1(e)) /\ Announced(Next1(e)) # HeaderLen
             /\ rpc' = [rpc EXCEPT ![e] = "payload"] /\ part' = [part EXCEPT ![e] = Next1(e)]
             /\ UNCHANGED handled
    <3>1. rpc'[e] = "payload" /\ part'[e] = Next1(e)
      BY <1>4, <2>5
    <3>2. Next1(e)[1].no = 1 /\ Len(Next1(e)) < Announced(Next1(e))
      <4>1. Announced(Next1(e)) >= HeaderLen /\ Announced(Next1(e)) \in Nat
        BY Sizes DEF Announced
      <4> QED
        BY <1>3, <2>1, <2>5, <4>1 DEF HeaderValid
    <3>3. Parted(e)'
      BY <1>3, <2>1, <3>1, <3>2 DEF Parted, Announced
    <3> QED
      BY <1>1, <2>5, <3>1, <3>3, KeepStream
  <2> QED
    BY <2>2, <2>3, <2>4, <2>5
<1>7. CASE RecvPayload(e)
  <2>1. Completes(e)
    BY <1>7 DEF RecvPayload, Completes
  <2>2. Handle(e, Next1(e))
    BY <1>1, <1>7, <2>1, TakeWhole DEF RecvPayload
  <2> QED
    BY <1>1, <2>1, <2>2, HandleStream
<1> QED
  BY <1>5, <1>6, <1>7

\* The peer of an end that takes a piece.
LEMMA PeerTakes ==
  ASSUME TypeOK, NEW e \in Ends, InStream(e), Parted(e), Took(Peer(e))
  PROVE  InStream(e)' /\ Parted(e)'
<1>1. PICK d \in Ends : d = Peer(e) /\ d # e /\ Peer(d) = e
  BY EndFacts
<1>2. /\ UNCHANGED <<open, left, begun>> /\ pipe' = [pipe EXCEPT ![e] = Tail(@)]
      /\ part'[e] = part[e] /\ rpc'[e] = rpc[e] /\ handled'[e] = handled[e]
  <2>1. Took(d)
    BY <1>1
  <2>2. /\ part \in [Ends -> Seq(SomePiece)]
        /\ rpc \in [Ends -> {"top", "header", "payload", "drop", "end"}]
        /\ handled \in [Ends -> Seq(Frames \cup {NoFrame})]
    BY TypeParts DEF StreamTypes, RecvTypes, FrameTypes
  <2>3. UNCHANGED <<open, left, begun>> /\ pipe' = [pipe EXCEPT ![e] = Tail(@)]
    BY <1>1, <2>1 DEF Took, TakePiece
  <2>4. /\ part' \in {part, [part EXCEPT ![d] = <<>>], [part EXCEPT ![d] = Next1(d)]}
        /\ handled' \in {handled, [handled EXCEPT ![d] = Append(@, FrameOf(Next1(d)))]}
        /\ \E l \in {"top", "header", "payload", "drop"} : rpc' = [rpc EXCEPT ![d] = l]
    <3>1. rpc' = [rpc EXCEPT ![d] = rpc'[d]] /\ rpc'[d] \in {"header", "payload"}
            => \E l \in {"top", "header", "payload", "drop"} : rpc' = [rpc EXCEPT ![d] = l]
      OBVIOUS
    <3> QED
      BY <2>1, <3>1 DEF Took, Handle
  <2>5. part'[e] = part[e]
    BY <1>1, <2>2, <2>4
  <2>6. handled'[e] = handled[e]
    BY <1>1, <2>2, <2>4
  <2>7. rpc'[e] = rpc[e]
    BY <1>1, <2>2, <2>4
  <2> QED
    BY <2>3, <2>5, <2>6, <2>7
<1>3. pipe'[Peer(e)] = pipe[Peer(e)] /\ left'[Peer(e)] = left[Peer(e)]
  BY <1>1, <1>2, TypeParts DEF StreamTypes
<1>4. ToRead(e)' = ToRead(e)
  BY <1>2, <1>3 DEF ToRead, Live
<1> QED
  BY <1>2, <1>4, Unmoved

-----------------------------------------------------------------------------
(* The invariant                                                             *)

\* The receive thread gives up.
LEMMA FailStream ==
  ASSUME TypeOK, NEW e \in Ends, InStream(e), Parted(e), NEW d \in Ends, RecvFails(d)
  PROVE  InStream(e)' /\ Parted(e)'
<1>1. /\ UNCHANGED <<open, left, begun, pipe, part, handled>>
      /\ rpc' = [rpc EXCEPT ![d] = "drop"]
  BY DEF RecvFails, ctxVars, sendVars
<1>2. ToRead(e)' = ToRead(e) /\ LastHandled(e)' = LastHandled(e)
  BY <1>1 DEF ToRead, Live, LastHandled
<1>3. CASE d = e
  BY <1>1, <1>2, <1>3, TypeParts DEF RecvTypes, InStream, InStep, Parted
<1>4. CASE d # e
  <2>1. rpc'[e] = rpc[e]
    BY <1>1, <1>4, TypeParts DEF RecvTypes
  <2> QED
    BY <1>1, <1>2, <2>1, Unmoved
<1> QED
  BY <1>3, <1>4

\* It looks at running and the state.
LEMMA TopStream ==
  ASSUME TypeOK, NEW e \in Ends, InStream(e), Parted(e), NEW d \in Ends, RecvTop(d)
  PROVE  InStream(e)' /\ Parted(e)'
<1>1. /\ UNCHANGED <<open, left, begun, pipe, part, handled>> /\ rpc[d] = "top"
      /\ \E l \in {"header", "end"} : rpc' = [rpc EXCEPT ![d] = l]
  BY DEF RecvTop, ctxVars, sendVars
<1>2. CASE d = e
  <2>1. ToRead(e)' = ToRead(e) /\ LastHandled(e)' = LastHandled(e) /\ (Live' <=> Live)
    BY <1>1 DEF ToRead, Live, LastHandled
  <2>2. Stream(e)' = Stream(e) /\ InStep(e)
    BY <1>1, <1>2, <2>1 DEF Stream, InStep
  <2>3. Parted(e)'
    <3>1. rpc'[e] \in {"header", "end"} /\ part'[e] = <<>>
      BY <1>1, <1>2, TypeParts DEF RecvTypes, Parted
    <3>2. Len(<<>>) = 0 /\ HeaderLen \in Nat /\ HeaderLen >= 1
      BY Sizes
    <3> QED
      BY <3>1, <3>2 DEF Parted
  <2> QED
    BY <1>1, <2>1, <2>2, <2>3 DEF InStream
<1>3. CASE d # e
  <2>1. ToRead(e)' = ToRead(e)
    BY <1>1 DEF ToRead, Live
  <2>2. rpc'[e] = rpc[e]
    BY <1>1, <1>3, TypeParts DEF RecvTypes
  <2> QED
    BY <1>1, <2>1, <2>2, Unmoved
<1> QED
  BY <1>2, <1>3

\* Every step that is not the end's own taking of a piece.
OtherStep(d) ==
  \/ SenderStep(d)
  \/ \E t \in Threads : SendLock(d, t) \/ SendPiece(d, t)
  \/ RecvTop(d) \/ RecvFails(d) \/ RecvDrop(d) \/ HeaderTimeout(d)

LEMMA NextSteps ==
  ASSUME [Next]_vars
  PROVE  \/ UNCHANGED vars
         \/ \E d \in Ends : RecvSome(d) \/ RecvHeader(d) \/ RecvPayload(d)
         \/ \E d \in Ends : OtherStep(d)
BY DEF Next, OtherStep, SenderStep, RecvStep

\* ... handles nothing.
LEMMA OtherSteps ==
  ASSUME TypeOK, Holding, Numbered, NEW e \in Ends, InStream(e), Parted(e), NEW d \in Ends,
         OtherStep(d)
  PROVE  InStream(e)' /\ Parted(e)' /\ handled' = handled
<1> USE DEF recvVars, sendVars, ctxVars
<1>1. d = e \/ d = Peer(e)
  BY EndFacts
<1>2. CASE \E t \in Senders : SendBegin(d, t) \/ DisconnectBegin(d, t)
  BY <1>2, SendStream DEF SendBegin, DisconnectBegin
<1>3. CASE \E t \in Threads : SendPiece(d, t) \/ SendFails(d, t)
  BY <1>3, SendStream DEF SendPiece, SendFails
<1>4. CASE \E t \in Threads : SendLock(d, t)
  <2>1. handled' = handled
    BY <1>4 DEF SendLock
  <2>2. CASE d = e
    BY <1>4, <2>1, <2>2, SendStream
  <2>3. CASE d = Peer(e)
    BY <1>4, <2>1, <2>3, LockStream
  <2> QED
    BY <1>1, <2>2, <2>3
<1>5. CASE RecvFails(d)
  BY <1>5, FailStream DEF RecvFails
<1>6. CASE RecvDrop(d)
  <2>1. rpc'[e] = rpc[e] \/ (rpc'[e] = "end" /\ d = e)
    BY <1>6, TypeParts DEF RecvDrop, RecvTypes
  <2>2. /\ open' = [open EXCEPT ![d] = FALSE]
        /\ UNCHANGED <<left, begun, pipe, part, handled>>
    BY <1>6 DEF RecvDrop, CloseSocket
  <2> QED
    BY <2>1, <2>2, CloseStream
<1>7. CASE \E t \in Senders : Disconnect(d, t)
  <2>1. /\ open' = [open EXCEPT ![d] = FALSE]
        /\ UNCHANGED <<left, begun, pipe, part, rpc, handled>>
    BY <1>7 DEF Disconnect, CloseSocket
  <2> QED
    BY <2>1, CloseStream
<1>8. CASE HeaderTimeout(d)
  <2>1. CASE d = e
    BY <1>8, <2>1, TimeoutStream DEF HeaderTimeout
  <2>2. CASE d # e
    <3>1. /\ UNCHANGED <<open, left, begun, pipe, handled>>
          /\ part'[e] = part[e] /\ rpc'[e] = rpc[e]
      BY <1>8, <2>2, TypeParts DEF HeaderTimeout, StreamTypes, RecvTypes
    <3>2. ToRead(e)' = ToRead(e)
      BY <3>1 DEF ToRead, Live
    <3> QED
      BY <3>1, <3>2, Unmoved
  <2> QED
    BY <2>1, <2>2
<1>9. CASE RecvTop(d)
  BY <1>9, TopStream DEF RecvTop
<1> QED
  BY <1>2, <1>3, <1>4, <1>5, <1>6, <1>7, <1>8, <1>9 DEF OtherStep, SenderStep

LEMMA StreamStep ==
  ASSUME TypeOK, StreamInv, [Next]_vars
  PROVE  TypeOK' /\ StreamInv'
<1>1. TypeOK' /\ Holding' /\ Numbered'
  BY TypeStep DEF StreamInv
<1>2. ASSUME NEW e \in Ends PROVE InStream(e)' /\ Parted(e)'
  <2>1. Holding /\ Numbered /\ InStream(e) /\ Parted(e)
    BY DEF StreamInv
  <2>2. CASE UNCHANGED vars
    <3>1. UNCHANGED <<open, left, begun, pipe, part, rpc, handled>>
      BY <2>2 DEF vars, ctxVars, sendVars, recvVars
    <3>2. ToRead(e)' = ToRead(e)
      BY <3>1 DEF ToRead, Live
    <3> QED
      BY <2>1, <3>1, <3>2, Unmoved
  <2>3. ASSUME NEW d \in Ends, RecvSome(d) \/ RecvHeader(d) \/ RecvPayload(d)
        PROVE  InStream(e)' /\ Parted(e)'
    <3>1. CASE d = e
      BY <2>1, <2>3, <3>1, TakeStream
    <3>2. CASE d = Peer(e)
      BY <2>1, <2>3, <3>2, TakeCases, PeerTakes
    <3> QED
      BY <3>1, <3>2, EndFacts
  <2>4. ASSUME NEW d \in Ends, OtherStep(d) PROVE InStream(e)' /\ Parted(e)'
    BY <2>1, <2>4, OtherSteps
  <2> QED
    BY <2>2, <2>3, <2>4, NextSteps
<1> QED
  BY <1>1, <1>2 DEF StreamInv

LEMMA StreamInit ==
  ASSUME Init
  PROVE  TypeOK /\ StreamInv
<1> USE EndFacts DEF Init
<1>1. TypeOK
  <2>1. \A S : <<>> \in Seq(S)
    OBVIOUS
  <2>2. Len(<<>>) =< SockBuf
    BY Sizes
  <2> QED
    BY <2>1, <2>2 DEF TypeOK, Kinds
<1>2. ASSUME NEW e \in Ends PROVE InStream(e) /\ Parted(e)
  <2>1. /\ part[e] = <<>> /\ pipe[Peer(e)] = <<>> /\ left[Peer(e)] = <<>>
        /\ begun[Peer(e)] = <<>> /\ handled[e] = <<>> /\ rpc[e] = "top"
    OBVIOUS
  <2>2. Stream(e) = <<>>
    BY <2>1 DEF Stream, ToRead
  <2>3. LastHandled(e) = 0 /\ Len(<<>>) = 0 /\ DOMAIN <<>> = {}
    BY <2>1 DEF LastHandled
  <2>4. \A n, d : ComesAfter(<<>>, <<>>, n, d)
    BY <2>3 DEF ComesAfter, Run
  <2>5. \A d : Complete(<<>>, <<>>, 0, d)
    BY <2>3 DEF Complete, Full
  <2>6. Parted(e)
    BY <2>1, <2>3, Sizes DEF Parted
  <2> QED
    BY <2>1, <2>2, <2>3, <2>4, <2>5, <2>6 DEF InStream
<1>3. Holding /\ Numbered
  <2>1. DOMAIN <<>> = {}
    OBVIOUS
  <2> QED
    BY <2>1 DEF Holding, Numbered
<1> QED
  BY <1>1, <1>2, <1>3 DEF StreamInv

\* What is in a stream are the frames of the peer, cut into pieces, in the order they
\* were begun: in what the receive thread has of the next frame, in the buffer of the
\* socket and in what SendAll has still to write, together.
THEOREM StreamInOrder == Spec => [](TypeOK /\ StreamInv)
BY StreamInit, StreamStep, PTL DEF Spec

\* The states are those of the sending and receiving threads of the two ends, whatever
\* the lengths of header and payload, the socket buffer and the number of senders.
THEOREM StreamTypeCorrect == Spec => []TypeOK
BY StreamInOrder, PTL

-----------------------------------------------------------------------------
(* The frames handled are the frames sent                                    *)

\* What remains of a sequence after its first n elements.
After(b, n) == SubSeq(b, n + 1, Len(b))

LEMMA Remainder ==
  ASSUME NEW S, NEW b \in Seq(S), NEW n \in 0 .. Len(b)
  PROVE  /\ After(b, n) \in Seq(S) /\ Len(After(b, n)) = Len(b) - n
         /\ \A i \in 1 .. Len(b) - n : After(b, n)[i] = b[n + i]
<1>1. n \in Nat /\ Len(b) \in Nat /\ n =< Len(b)
  BY LenProperties
<1>2. n + 1 \in Int /\ Len(b) \in Int /\ \A k \in n + 1 .. Len(b) : k \in 1 .. Len(b)
  BY <1>1
<1>3. \A k \in n + 1 .. Len(b) : b[k] \in S
  BY <1>2, ElementOfSeq
<1>4. /\ SubSeq(b, n + 1, Len(b)) \in Seq(S)
      /\ Len(SubSeq(b, n + 1, Len(b))) =
            IF n + 1 =< Len(b) THEN Len(b) - (n + 1) + 1 ELSE 0
      /\ \A i \in 1 .. Len(b) - (n + 1) + 1 : SubSeq(b, n + 1, Len(b))[i] = b[(n + 1) + i - 1]
  BY <1>2, <1>3, SubSeqProperties
<1> QED
  BY <1>1, <1>4 DEF After

LEMMA RemainderGrows ==
  ASSUME NEW S, NEW b \in Seq(S), NEW n \in 0 .. Len(b), NEW f \in S
  PROVE  After(Append(b, f), n) = Append(After(b, n), f)
<1>1. PICK c \in Seq(S) : c = Append(b, f)
  BY AppendProperties
<1>2. /\ Len(c) = Len(b) + 1 /\ Len(b) \in Nat /\ n \in Nat /\ n =< Len(b)
      /\ \A i \in 1 .. Len(b) : c[i] = b[i]
      /\ c[Len(b) + 1] = f
  BY <1>1, AppendProperties, LenProperties
<1>3. n \in 0 .. Len(c)
  BY <1>2
<1>4. /\ After(c, n) \in Seq(S) /\ Len(After(c, n)) = Len(c) - n
      /\ \A i \in 1 .. Len(c) - n : After(c, n)[i] = c[n + i]
  BY <1>3, Remainder
<1>5. PICK a \in Seq(S) : a = After(b, n)
  BY Remainder
<1>6. Len(a) = Len(b) - n /\ \A i \in 1 .. Len(b) - n : a[i] = b[n + i]
  BY <1>5, Remainder
<1>7. PICK d \in Seq(S) : d = Append(a, f)
  BY <1>5, AppendProperties
<1>8. /\ Len(d) = Len(a) + 1 /\ \A i \in 1 .. Len(a) : d[i] = a[i]
      /\ d[Len(a) + 1] = f
  BY <1>5, <1>7, AppendProperties
<1>9. ASSUME NEW i \in 1 .. Len(c) - n PROVE After(c, n)[i] = d[i]
  <2>1. CASE i \in 1 .. Len(b) - n
    <3>1. n + i \in 1 .. Len(b)
      BY <1>2, <2>1
    <3> QED
      BY <1>2, <1>4, <1>6, <1>8, <2>1, <3>1
  <2>2. CASE i \notin 1 .. Len(b) - n
    <3>1. i = Len(a) + 1 /\ n + i = Len(b) + 1
      BY <1>2, <1>6, <2>2
    <3> QED
      BY <1>2, <1>4, <1>8, <3>1
  <2> QED
    BY <2>1, <2>2
<1>10. Len(After(c, n)) = Len(d)
  BY <1>2, <1>4, <1>6, <1>8
<1>11. After(c, n) = d
  BY <1>4, <1>7, <1>9, <1>10, SeqEqual
<1> QED
  BY <1>1, <1>5, <1>7, <1>11

LEMMA RemainderRemoved ==
  ASSUME NEW S, NEW b \in Seq(S), NEW n \in 0 .. Len(b), NEW m \in DOMAIN b, m > n
  PROVE  /\ m - n \in 1 .. Len(After(b, n)) /\ After(b, n)[m - n] = b[m]
         /\ After(b, m) = After(After(b, n), m - n)
<1>1. /\ Len(b) \in Nat /\ n \in Nat /\ n =< Len(b) /\ m \in Nat /\ m =< Len(b)
      /\ m \in 0 .. Len(b)
  BY LenProperties
<1>2. PICK a \in Seq(S) : a = After(b, n)
  BY Remainder
<1>3. Len(a) = Len(b) - n /\ \A i \in 1 .. Len(b) - n : a[i] = b[n + i]
  BY <1>2, Remainder
<1>4. PICK k \in Nat : k = m - n
  BY <1>1
<1>5. k \in 1 .. Len(a) /\ k \in 0 .. Len(a) /\ n + k = m
  BY <1>1, <1>3, <1>4
<1>6. a[k] = b[m]
  BY <1>3, <1>5
<1>7. /\ After(b, m) \in Seq(S) /\ Len(After(b, m)) = Len(b) - m
      /\ \A i \in 1 .. Len(b) - m : After(b, m)[i] = b[m + i]
  BY <1>1, Remainder
<1>8. /\ After(a, k) \in Seq(S) /\ Len(After(a, k)) = Len(a) - k
      /\ \A i \in 1 .. Len(a) - k : After(a, k)[i] = a[k + i]
  BY <1>5, Remainder
<1>9. Len(a) - k = Len(b) - m
  BY <1>1, <1>3, <1>4
<1>10. ASSUME NEW i \in 1 .. Len(b) - m PROVE After(b, m)[i] = After(a, k)[i]
  <2>1. k + i \in 1 .. Len(b) - n /\ n + (k + i) = m + i
    <3>1. i \in Nat /\ i >= 1 /\ i =< Len(b) - m /\ k \in Nat /\ k = m - n
      BY <1>1, <1>4
    <3>2. PICK c \in Nat : c = Len(b)
      BY <1>1
    <3>3. k + i >= 1 /\ k + i =< c - n /\ n + (k + i) = m + i
      BY <1>1, <3>1, <3>2
    <3> QED
      BY <3>1, <3>2, <3>3
  <2>2. a[k + i] = b[n + (k + i)]
    BY <1>3, <2>1
  <2> QED
    BY <1>7, <1>8, <1>9, <2>1, <2>2
<1>11. After(b, m) = After(a, k)
  BY <1>7, <1>8, <1>9, <1>10, SeqEqual
<1> QED
  BY <1>2, <1>4, <1>5, <1>6, <1>11

\* The steps that can be seen: a frame is begun, or the peer's handled.
LEMMA Visible ==
  ASSUME TypeOK, StreamInv, [Next]_vars
  PROVE  \/ UNCHANGED <<begun, handled>>
         \/ \E e \in Ends, t \in Threads : SendLock(e, t) /\ UNCHANGED handled
         \/ \E e \in Ends : \E m : HandlesFrame(e, m) /\ UNCHANGED begun
<1>1. CASE UNCHANGED vars
  BY <1>1 DEF vars, sendVars, recvVars
<1>2. ASSUME NEW e \in Ends, RecvSome(e) \/ RecvHeader(e) \/ RecvPayload(e)
      PROVE  UNCHANGED begun /\ (handled' = handled \/ \E m : HandlesFrame(e, m))
  <2>1. InStream(e) /\ Parted(e)
    BY DEF StreamInv
  <2>2. UNCHANGED begun
    BY <1>2 DEF RecvSome, RecvHeader, RecvPayload, sendVars
  <2> QED
    BY <1>2, <2>1, <2>2, TakeStream
<1>3. ASSUME NEW e \in Ends, NEW t \in Threads, SendLock(e, t) PROVE UNCHANGED handled
  BY <1>3 DEF SendLock, recvVars
<1>4. ASSUME NEW e \in Ends, OtherStep(e), ~\E t \in Threads : SendLock(e, t)
      PROVE  UNCHANGED <<begun, handled>>
  <2> USE DEF sendVars, recvVars
  <2>1. CASE SenderStep(e)
    BY <2>1 DEF SenderStep, SendBegin, DisconnectBegin, Disconnect, SendFails
  <2>2. CASE \E t \in Threads : SendPiece(e, t)
    BY <2>2 DEF SendPiece
  <2>3. CASE RecvTop(e) \/ RecvFails(e) \/ RecvDrop(e) \/ HeaderTimeout(e)
    BY <2>3 DEF RecvTop, RecvFails, RecvDrop, HeaderTimeout
  <2> QED
    BY <1>4, <2>1, <2>2, <2>3 DEF OtherStep
<1> QED
  BY <1>1, <1>2, <1>3, <1>4, NextSteps

\* The frames sent by an end that are still to be handled.
Wire == [e \in Ends |-> SubSeq(begun[e], LastHandled(Peer(e)) + 1, Len(begun[e]))]

LEMMA Others == \A e \in Ends : WholeFrames!Other(e) = Peer(e)
<1> SUFFICES ASSUME NEW e \in Ends PROVE (CHOOSE d \in Ends : d # e) = Peer(e)
  BY DEF WholeFrames!Other
<1>1. \A d \in Ends : d # e <=> d = Peer(e)
  BY EndFacts
<1>2. Peer(e) \in Ends /\ Peer(e) # e
  BY EndFacts
<1> QED
  BY <1>1, <1>2

\* Taking the lock is sending; handling removes a frame from the wire, for the server
\* the first; nothing else can be seen.
LEMMA QueueSends ==
  ASSUME TypeOK, StreamInv, NEW e \in Ends, NEW t \in Threads, SendLock(e, t)
  PROVE  WholeFrames!Send(e)
<1>1. PICK f \in Frames : f = NextFrame(e, t)
  BY LockStep DEF StreamInv
<1>2. begun' = [begun EXCEPT ![e] = Append(@, f)] /\ handled' = handled
  BY <1>1, LockStep DEF StreamInv, SendLock, recvVars
<1>3. begun \in [Ends -> Seq(Frames)]
  BY TypeParts DEF FrameTypes
<1>4. PICK b \in Seq(Frames) : b = begun[e]
  BY <1>3
<1>5. PICK n \in 0 .. Len(b) : n = LastHandled(Peer(e))
  BY <1>4, EndFacts DEF StreamInv, InStream
<1>6. \A d : LastHandled(d)' = LastHandled(d)
  BY <1>2 DEF LastHandled
<1>7. Wire'[e] = After(Append(b, f), n) /\ Wire[e] = After(b, n)
  <2>1. begun'[e] = Append(b, f)
    BY <1>2, <1>3, <1>4
  <2> QED
    BY <1>4, <1>5, <1>6, <2>1 DEF Wire, After
<1>8. Wire'[e] = Append(Wire[e], f)
  BY <1>7, RemainderGrows
<1>9. \A d \in Ends : d # e => Wire'[d] = Wire[d]
  BY <1>2, <1>3, <1>6 DEF Wire
<1>10. Wire' = [Wire EXCEPT ![e] = Append(@, f)]
  BY <1>8, <1>9 DEF Wire
<1>11. Wire'[e] # <<>> /\ Wire'[e][Len(Wire'[e])] = f
  <2>1. PICK w \in Seq(Frames) : w = Wire[e]
    BY <1>7, Remainder
  <2>2. Append(w, f) # <<>> /\ Append(w, f)[Len(Append(w, f))] = f
    BY AppendProperties, LenProperties
  <2> QED
    BY <1>8, <2>1, <2>2
<1> QED
  BY <1>2, <1>10, <1>11 DEF WholeFrames!Send, Wire

LEMMA QueueHandles ==
  ASSUME TypeOK, StreamInv, NEW e \in Ends, NEW m, HandlesFrame(e, m), UNCHANGED begun
  PROVE  WholeFrames!Handle(e)
<1>1. PICK p \in Ends : p = Peer(e) /\ p # e /\ Peer(p) = e
  BY EndFacts
<1>2. /\ m \in DOMAIN begun[p] /\ m > LastHandled(e)
      /\ e = "server" => m = LastHandled(e) + 1
      /\ handled' = [handled EXCEPT ![e] = Append(@, begun[p][m])]
      /\ LastHandled(e)' = m
  BY <1>1 DEF HandlesFrame
<1>3. PICK b \in Seq(Frames) : b = begun[p]
  BY <1>1, TypeParts DEF FrameTypes
<1>4. PICK n \in 0 .. Len(b) : n = LastHandled(e)
  BY <1>1, <1>3 DEF StreamInv, InStream
<1>5. /\ m - n \in 1 .. Len(After(b, n)) /\ After(b, n)[m - n] = b[m]
      /\ After(b, m) = After(After(b, n), m - n)
  BY <1>2, <1>3, <1>4, RemainderRemoved
<1>6. Wire[p] = After(b, n) /\ Wire'[p] = After(b, m)
  BY <1>1, <1>2, <1>3, <1>4 DEF Wire, After
<1>7. PICK k \in 1 .. Len(Wire[p]) : k = m - n
  BY <1>5, <1>6
<1>8. /\ Wire[p][k] = b[m] /\ Wire'[p] = SubSeq(Wire[p], k + 1, Len(Wire[p]))
  BY <1>5, <1>6, <1>7 DEF After
<1>9. LastHandled(p)' = LastHandled(p)
  BY <1>1, <1>2, TypeParts DEF LastHandled, FrameTypes
<1>10. Wire' = [Wire EXCEPT ![p] = SubSeq(@, k + 1, Len(@))]
  <2>1. \A d \in Ends : d # p => Wire'[d] = Wire[d]
    BY <1>1, <1>9, EndFacts DEF Wire
  <2> QED
    BY <1>8, <2>1 DEF Wire
<1>11. k > 1 => e \in {"client"}
  <2>1. e = "server" => k = 1
    <3>1. n \in Int
      BY LenProperties
    <3> QED
      BY <1>2, <1>4, <1>7, <3>1
  <2> QED
    BY <2>1, EndFacts
<1>12. handled' = [handled EXCEPT ![e] = Append(@, Wire[p][k])]
  BY <1>2, <1>3, <1>8
<1>13. WholeFrames!Other(e) = p
  BY <1>1, Others
<1> QED
  BY <1>10, <1>11, <1>12, <1>13 DEF WholeFrames!Handle, Wire

LEMMA QueueStep ==
  ASSUME TypeOK, StreamInv, [Next]_vars
  PROVE  [WholeFrames!Next]_<<Wire, handled>>
<1>1. UNCHANGED <<begun, handled>> => UNCHANGED <<Wire, handled>>
  BY DEF Wire, LastHandled
<1> QED
  BY <1>1, Visible, QueueSends, QueueHandles DEF WholeFrames!Next

\* Each end handles the frames its peer began, whole and in their order, and the server
\* all of them: SendAll and RecvAll under ctx->lock are as good as a queue of frames.
THEOREM StreamHandledAsSent == Spec => HandledAsSent
<1>1. Init => WholeFrames!Init
  <2> SUFFICES ASSUME Init PROVE WholeFrames!Init
    OBVIOUS
  <2>1. ASSUME NEW e \in Ends PROVE Wire[e] = <<>>
    <3>1. begun[e] = <<>> /\ LastHandled(Peer(e)) = 0
      BY EndFacts DEF Init, LastHandled
    <3>2. SubSeq(<<>>, 0 + 1, Len(<<>>)) = <<>>
      <4>1. Len(<<>>) = 0 /\ 0 + 1 = 1
        OBVIOUS
      <4> QED
        BY <4>1, SubSeqEmpty
    <3> QED
      BY <3>1, <3>2 DEF Wire
  <2>2. Wire = [e \in Ends |-> <<>>]
    BY <2>1 DEF Wire
  <2> QED
    BY <2>2 DEF WholeFrames!Init, Init, Wire
<1>2. TypeOK /\ StreamInv /\ [Next]_vars => [WholeFrames!Next]_<<Wire, handled>>
  BY QueueStep
<1> QED
  BY <1>1, <1>2, StreamInOrder, PTL DEF Spec, HandledAsSent, WholeFrames!Spec, Wire
-----------------------------------------------------------------------------
(* What is handled, in a state                                               *)

\* The frames an end has handled are frames of its peer, in the order they were begun
\* in; those of the server are the first ones, without a gap.
InOrder(e) ==
  \A i \in DOMAIN handled[e] :
     /\ handled[e][i].no \in DOMAIN begun[Peer(e)]
     /\ handled[e][i] = begun[Peer(e)][handled[e][i].no]
     /\ \A j \in DOMAIN handled[e] : j < i => handled[e][j].no < handled[e][i].no
     /\ e = "server" => handled[e][i].no = i
HandledInOrder == \A e \in Ends : InOrder(e)

\* The receive thread of the server gives no open connection up: it ends when the
\* server is told to, between two frames.
ServerReads ==
  Live => /\ rpc["server"] \in {"top", "header", "payload", "end"}
          /\ rpc["server"] = "end" => ~running["server"]

\* LastHandled as the last of them.
LEMMA LastOne ==
  ASSUME TypeOK, StreamInv, NEW e \in Ends, InOrder(e)
  PROVE  /\ \A i \in DOMAIN handled[e] : /\ handled[e][i].no =< LastHandled(e)
                                         /\ handled[e][i].no \in Nat
         /\ e = "server" => LastHandled(e) = Len(handled[e])
         /\ LastHandled(e) \in Nat
<1>1. PICK h \in Seq(Frames \cup {NoFrame}) : h = handled[e]
  BY TypeParts DEF FrameTypes
<1>2. PICK l \in Nat : l = Len(h) /\ DOMAIN h = 1 .. l
  BY LenProperties
<1>3. begun[Peer(e)] \in Seq(Frames)
  BY ToReadTypes
<1>4. \A i \in 1 .. l : /\ h[i].no \in Nat
                        /\ \A j \in 1 .. l : j < i => h[j].no < h[i].no
                        /\ e = "server" => h[i].no = i
  <2>1. DOMAIN begun[Peer(e)] \subseteq Nat
    BY <1>3, LenProperties
  <2> QED
    BY <1>1, <1>2, <2>1 DEF InOrder
<1>5. CASE h = <<>>
  <2>1. l = 0
    BY <1>2, <1>5
  <2> QED
    BY <1>1, <1>2, <1>5, <2>1 DEF LastHandled
<1>6. CASE h # <<>>
  <2>1. l \in 1 .. l
    BY <1>1, <1>2, <1>6
  <2>2. LastHandled(e) = h[l].no
    BY <1>1, <1>2, <1>6 DEF LastHandled
  <2>3. \A i \in 1 .. l : h[i].no =< h[l].no
    BY <1>4, <2>1
  <2> QED
    BY <1>1, <1>2, <1>4, <2>1, <2>2, <2>3
<1> QED
  BY <1>5, <1>6

LEMMA OrderKept ==
  ASSUME TypeOK, StreamInv, HandledInOrder, [Next]_vars
  PROVE  HandledInOrder'
<1>1. CASE UNCHANGED <<begun, handled>>
  BY <1>1 DEF HandledInOrder, InOrder
<1>2. ASSUME NEW d \in Ends, NEW t \in Threads, SendLock(d, t), UNCHANGED handled
      PROVE  HandledInOrder'
  <2>1. PICK f \in Frames : begun' = [begun EXCEPT ![d] = Append(@, f)]
    BY <1>2, LockStep DEF StreamInv
  <2>2. \A e \in Ends : \A i \in DOMAIN begun[e] :
           i \in DOMAIN begun'[e] /\ begun'[e][i] = begun[e][i]
    <3>1. begun \in [Ends -> Seq(Frames)]
      BY TypeParts DEF FrameTypes
    <3>2. \A b \in Seq(Frames) : \A i \in DOMAIN b :
             i \in DOMAIN Append(b, f) /\ Append(b, f)[i] = b[i]
      OBVIOUS
    <3> QED
      BY <2>1, <3>1, <3>2
  <2> QED
    BY <1>2, <2>2, EndFacts DEF HandledInOrder, InOrder
<1>3. ASSUME NEW d \in Ends, NEW m, HandlesFrame(d, m), UNCHANGED begun
      PROVE  HandledInOrder'
  <2>1. PICK f : f = begun[Peer(d)][m]
    OBVIOUS
  <2>2. /\ m \in DOMAIN begun[Peer(d)] /\ m > LastHandled(d) /\ m \in Nat
        /\ d = "server" => m = LastHandled(d) + 1
        /\ handled' = [handled EXCEPT ![d] = Append(@, f)]
    <3>1. begun[Peer(d)] \in Seq(Frames)
      BY ToReadTypes
    <3> QED
      BY <1>3, <2>1, <3>1, LenProperties DEF HandlesFrame
  <2>3. f.no = m /\ f \in Frames \cup {NoFrame}
    <3>1. begun[Peer(d)] \in Seq(Frames)
      BY ToReadTypes
    <3> QED
      BY <2>1, <2>2, <3>1, EndFacts DEF StreamInv, Numbered
  <2>4. handled \in [Ends -> Seq(Frames \cup {NoFrame})]
    BY TypeParts DEF FrameTypes
  <2>5. PICK h \in Seq(Frames \cup {NoFrame}) : h = handled[d] /\ handled'[d] = Append(h, f)
    BY <2>2, <2>4
  <2>6. PICK l \in Nat : l = Len(h) /\ DOMAIN h = 1 .. l
    BY LenProperties
  <2>7. /\ DOMAIN Append(h, f) = 1 .. l + 1 /\ Append(h, f)[l + 1] = f
        /\ \A i \in 1 .. l : Append(h, f)[i] = h[i]
    BY <2>3, <2>6, AppendProperties, LenProperties
  <2>8. InOrder(d)
    BY DEF HandledInOrder
  <2>9. /\ \A i \in 1 .. l : h[i].no < m
        /\ d = "server" => m = l + 1
    <3>1. /\ \A i \in 1 .. l : h[i].no =< LastHandled(d) /\ h[i].no \in Nat
          /\ d = "server" => LastHandled(d) = l
          /\ LastHandled(d) \in Nat
      BY <2>5, <2>6, <2>8, LastOne
    <3> QED
      BY <2>2, <3>1
  <2>10. InOrder(d)'
    <3>1. \A i \in 1 .. l :
             /\ h[i].no \in DOMAIN begun[Peer(d)] /\ h[i] = begun[Peer(d)][h[i].no]
             /\ \A j \in 1 .. l : j < i => h[j].no < h[i].no
             /\ d = "server" => h[i].no = i
      BY <2>5, <2>6, <2>8 DEF InOrder
    <3>2. ASSUME NEW i \in 1 .. l + 1
          PROVE  LET g == Append(h, f) IN
                 /\ g[i].no \in DOMAIN begun[Peer(d)] /\ g[i] = begun[Peer(d)][g[i].no]
                 /\ \A j \in 1 .. l + 1 : j < i => g[j].no < g[i].no
                 /\ d = "server" => g[i].no = i
      <4>1. CASE i \in 1 .. l
        <5>1. \A j \in 1 .. l + 1 : j < i => j \in 1 .. l
          BY <4>1
        <5> QED
          BY <2>7, <3>1, <4>1, <5>1
      <4>2. CASE i = l + 1
        <5>1. \A j \in 1 .. l + 1 : j < i => j \in 1 .. l
          BY <4>2
        <5> QED
          BY <2>1, <2>2, <2>3, <2>7, <2>9, <4>2, <5>1
      <4> QED
        BY <2>6, <4>1, <4>2
    <3>3. UNCHANGED begun
      BY <1>3
    <3> QED
      BY <2>5, <2>7, <3>2, <3>3 DEF InOrder
  <2>11. ASSUME NEW e \in Ends, e # d PROVE InOrder(e)'
    <3>1. handled'[e] = handled[e]
      BY <2>2, <2>4, <2>11
    <3> QED
      BY <1>3, <3>1 DEF HandledInOrder, InOrder
  <2> QED
    BY <2>10, <2>11 DEF HandledInOrder
<1> QED
  BY <1>1, <1>2, <1>3, Visible

\* The first piece the server reads after a whole frame is the first of a frame.
LEMMA HeaderInPlace ==
  ASSUME TypeOK, NEW e \in Ends, e = "server", InStream(e), Took(e)
  PROVE  Next1(e)[1].no = 1
<1> TakePiece(e) /\ UNCHANGED <<open, left>>
  BY DEF Took
<1>1. PICK s \in Seq(SomePiece) : s = Next1(e) /\ s # <<>>
  BY NextPiece
<1>2. PICK t \in Seq(SomePiece) : Stream(e) = s \o t
  BY <1>1, TakeKeeps
<1>3. (s \o t)[1] = s[1] /\ s \o t # <<>>
  BY <1>1, Joined
<1>4. rpc[e] \in {"header", "payload"}
  BY NextPiece
<1> QED
  BY <1>1, <1>2, <1>3, <1>4 DEF InStream, InStep, ComesAfter

\* IpcDestroy is never taken back.
LEMMA StaysEnded ==
  ASSUME TypeOK, [Next]_vars, NEW e \in Ends, ~running[e]
  PROVE  ~running'[e]
<1> USE DEF ctxVars
<1>1. CASE UNCHANGED vars
  BY <1>1 DEF vars
<1>2. ASSUME NEW d \in Ends, RecvSome(d) \/ RecvHeader(d) \/ RecvPayload(d)
      PROVE  UNCHANGED running
  BY <1>2 DEF RecvSome, RecvHeader, RecvPayload
<1>3. ASSUME NEW d \in Ends, OtherStep(d)
      PROVE  running' \in {running, [running EXCEPT ![d] = FALSE]}
  <2>1. CASE SenderStep(d)
    BY <2>1 DEF SenderStep, SendBegin, DisconnectBegin, Disconnect, SendFails
  <2>2. CASE \E t \in Threads : SendLock(d, t) \/ SendPiece(d, t)
    BY <2>2 DEF SendLock, SendPiece
  <2>3. CASE RecvTop(d) \/ RecvFails(d) \/ RecvDrop(d) \/ HeaderTimeout(d)
    BY <2>3 DEF RecvTop, RecvFails, RecvDrop, HeaderTimeout
  <2> QED
    BY <1>3, <2>1, <2>2, <2>3 DEF OtherStep
<1>4. running \in [Ends -> BOOLEAN]
  BY TypeParts DEF StateTypes
<1> QED
  BY <1>1, <1>2, <1>3, <1>4, NextSteps

LEMMA ReadsOn ==
  ASSUME TypeOK, StreamInv, ServerReads, [Next]_vars
  PROVE  ServerReads'
<1> DEFINE Reads == rpc["server"] \in {"top", "header", "payload", "end"}
           Stops == rpc["server"] = "end" => ~running["server"]
<1> SUFFICES ASSUME Live' PROVE Reads' /\ Stops'
  BY DEF ServerReads
<1>1. open \in [Ends -> BOOLEAN] /\ rpc \in [Ends -> {"top", "header", "payload", "drop", "end"}]
  BY TypeParts DEF LockTypes, RecvTypes
<1>2. \A d \in Ends : open' # [open EXCEPT ![d] = FALSE]
  BY <1>1 DEF Live
<1>3. ASSUME UNCHANGED open PROVE Live /\ Reads /\ Stops
  BY <1>3 DEF Live, ServerReads
<1>4. ASSUME UNCHANGED <<open, rpc>> PROVE Reads' /\ Stops'
  <2>1. Reads /\ Stops /\ rpc'["server"] = rpc["server"] /\ "server" \in Ends
    BY <1>3, <1>4, EndFacts
  <2> QED
    BY <2>1, StaysEnded
<1>5. CASE UNCHANGED vars
  BY <1>4, <1>5 DEF vars, ctxVars, recvVars
<1>6. ASSUME NEW d \in Ends, SenderStep(d) \/ \E t \in Threads : SendLock(d, t) \/ SendPiece(d, t)
      PROVE  Reads' /\ Stops'
  <2>1. ~\E t \in Senders : Disconnect(d, t)
    BY <1>2 DEF Disconnect, CloseSocket
  <2>2. UNCHANGED <<open, rpc>>
    BY <1>6, <2>1 DEF SenderStep, SendBegin, DisconnectBegin, SendLock, SendPiece, SendFails,
                      ctxVars, recvVars
  <2> QED
    BY <1>4, <2>2
<1>7. ASSUME NEW d \in Ends, RecvTop(d) \/ HeaderTimeout(d) PROVE Reads' /\ Stops'
  <2>1. /\ UNCHANGED <<open, running>>
        /\ \/ \E l \in {"top", "header"} : rpc' = [rpc EXCEPT ![d] = l]
           \/ ~running[d] /\ rpc' = [rpc EXCEPT ![d] = "end"]
    BY <1>7 DEF RecvTop, HeaderTimeout, ctxVars
  <2>2. Reads /\ Stops
    BY <1>3, <2>1
  <2>3. CASE d # "server"
    <3>1. \E l \in {"top", "header", "end"} : rpc' = [rpc EXCEPT ![d] = l]
      BY <2>1, Zenon
    <3>2. rpc'["server"] = rpc["server"]
      BY <1>1, <2>3, <3>1
    <3> QED
      BY <2>1, <2>2, <3>2
  <2>4. CASE d = "server"
    <3>1. /\ rpc'["server"] \in {"top", "header", "end"} /\ running' = running
          /\ rpc'["server"] = "end" => ~running["server"]
      BY <1>1, <2>1, <2>4
    <3> QED
      BY <3>1
  <2> QED
    BY <2>3, <2>4
<1>8. ASSUME NEW d \in Ends PROVE ~RecvDrop(d)
  BY <1>2 DEF RecvDrop, CloseSocket
<1>9. ASSUME NEW d \in Ends, RecvFails(d) PROVE Reads' /\ Stops'
  <2>1. rpc' = [rpc EXCEPT ![d] = "drop"] /\ UNCHANGED <<open, running>>
    BY <1>9 DEF RecvFails, ctxVars
  <2>2. d # "server"
    <3>1. \A e \in Ends : open[e]
      BY <1>3, <2>1 DEF Live
    <3> QED
      BY <1>9, <3>1, EndFacts DEF RecvFails
  <2>3. Reads /\ Stops
    BY <1>3, <2>1
  <2> QED
    BY <1>1, <2>1, <2>2, <2>3
<1>10. ASSUME NEW d \in Ends, RecvSome(d) \/ RecvHeader(d) \/ RecvPayload(d)
       PROVE  Reads' /\ Stops'
  <2>1. Took(d)
    BY <1>10, TakeCases
  <2>2. UNCHANGED <<open, running>>
        /\ \E l \in {"top", "header", "payload", "drop"} : rpc' = [rpc EXCEPT ![d] = l]
    <3>1. rpc' = [rpc EXCEPT ![d] = rpc'[d]] /\ rpc'[d] \in {"header", "payload"}
            => \E l \in {"top", "header", "payload", "drop"} : rpc' = [rpc EXCEPT ![d] = l]
      OBVIOUS
    <3> QED
      BY <2>1, <3>1 DEF Took, Handle
  <2>3. Reads /\ Stops
    BY <1>3, <2>2
  <2>4. CASE d # "server"
    BY <1>1, <2>2, <2>3, <2>4
  <2>5. CASE d = "server" /\ RecvHeader(d)
    <3>1. HeaderValid(Next1(d))
      BY <2>1, <2>5, HeaderInPlace DEF StreamInv, HeaderValid
    <3>2. \E l \in {"top", "payload"} : rpc' = [rpc EXCEPT ![d] = l]
      BY <2>5, <3>1 DEF RecvHeader, Handle
    <3> QED
      BY <1>1, <2>5, <3>2
  <2>6. CASE d = "server" /\ RecvSome(d)
    <3>1. UNCHANGED <<open, rpc>>
      BY <2>2, <2>6 DEF RecvSome
    <3> QED
      BY <1>4, <3>1
  <2>7. CASE d = "server" /\ RecvPayload(d)
    <3>1. rpc' = [rpc EXCEPT ![d] = "top"]
      BY <2>7 DEF RecvPayload, Handle
    <3> QED
      BY <1>1, <2>7, <3>1
  <2> QED
    BY <1>10, <2>4, <2>5, <2>6, <2>7
<1> HIDE DEF Reads, Stops
<1> QED
  BY <1>5, <1>6, <1>7, <1>8, <1>9, <1>10, NextSteps DEF OtherStep

\* At any time the frames handled are frames of the peer, unchanged, each once and in
\* the order of their writing; the server has handled the first of them without a gap.
THEOREM StreamHandledInOrder == Spec => []HandledInOrder
<1>1. Init => HandledInOrder
  BY DEF Init, HandledInOrder, InOrder
<1> QED
  BY <1>1, OrderKept, StreamInOrder, PTL DEF Spec

\* While both sockets are open the server refuses no header and skips no frame, and only
\* IpcDestroy ends its reading: once all that was written is read, it has handled every
\* frame the client began.
THEOREM StreamNothingMissed == Spec => []NothingMissed
<1>1. Init => ServerReads
  BY EndFacts DEF Init, ServerReads
<1>2. TypeOK /\ StreamInv /\ HandledInOrder /\ ServerReads => NothingMissed
  <2> SUFFICES ASSUME TypeOK, StreamInv, HandledInOrder, ServerReads, Live,
                      left["client"] = <<>>, pipe["client"] = <<>>, part["server"] = <<>>
               PROVE  handled["server"] = begun["client"]
    BY DEF NothingMissed, ServerReads
  <2>1. "server" \in Ends /\ Peer("server") = "client"
    BY EndFacts DEF Peer
  <2>2. PICK h \in Seq(Frames \cup {NoFrame}) : h = handled["server"]
    BY <2>1, TypeParts DEF FrameTypes
  <2>3. PICK b \in Seq(Frames) : b = begun["client"]
    BY <2>1, EndFacts, TypeParts DEF FrameTypes
  <2>4. Stream("server") = <<>>
    <3>1. <<>> \o <<>> = <<>>
      OBVIOUS
    <3> QED
      BY <2>1, <3>1 DEF Stream, ToRead
  <2>5. LastHandled("server") = Len(b)
    BY <2>1, <2>3, <2>4 DEF StreamInv, InStream, InStep, Complete, ServerReads, Live
  <2>6. Len(h) = Len(b)
    BY <2>1, <2>2, <2>5, LastOne DEF HandledInOrder
  <2>7. \A i \in 1 .. Len(h) : h[i] = b[i]
    <3>1. DOMAIN h = 1 .. Len(h)
      BY LenProperties
    <3> QED
      BY <2>1, <2>2, <2>3, <3>1 DEF HandledInOrder, InOrder
  <2>8. b \in Seq(Frames \cup {NoFrame})
    BY <2>3
  <2> QED
    BY <2>2, <2>3, <2>6, <2>7, <2>8, SeqEqual
<1> QED
  BY <1>1, <1>2, ReadsOn, StreamHandledInOrder, StreamInOrder, PTL DEF Spec
-----------------------------------------------------------------------------
(* Who waits for whom                                                        *)

\* A thread of end e can take its next step: get the lock, write a piece or find the
\* connection gone, read a piece, or go round the receive thread's loop.
CanGoOn(e) ==
  \/ lock[e] = "free" /\ ((\E t \in Threads : want[e][t] # "none") \/ rpc[e] = "drop")
  \/ lock[e] # "free" /\ (~(open[e] /\ open[Peer(e)]) \/ Len(pipe[e]) < SockBuf)
  \/ Reading(e) /\ pipe[Peer(e)] # <<>>
  \/ rpc[e] = "top" /\ want[e]["recv"] = "none" /\ (~running[e] \/ up[e])

\* A call that sends or disconnects waits for a thread that can go on, or Hang is the case.
OnlyHangs ==
  \A e \in Ends : \A t \in Threads :
     want[e][t] # "none" => (\E d \in Ends : CanGoOn(d)) \/ Hang

\* A receive thread ends after it has closed the socket, or after IpcDestroy.
Ended == \A e \in Ends : rpc[e] = "end" => ~open[e] \/ ~running[e]

LEMMA EndedStep == TypeOK /\ Ended /\ [Next]_vars => Ended'
<1> SUFFICES ASSUME TypeOK, Ended, [Next]_vars, NEW e \in Ends, rpc'[e] = "end", running'[e]
             PROVE  ~open'[e]
  BY DEF Ended
<1>1. open \in [Ends -> BOOLEAN] /\ rpc \in [Ends -> {"top", "header", "payload", "drop", "end"}]
  BY TypeParts DEF LockTypes, RecvTypes
<1>2. running[e]
  BY StaysEnded
<1>3. ASSUME UNCHANGED open, rpc[e] = "end" PROVE ~open'[e]
  BY <1>2, <1>3 DEF Ended
<1>4. CASE UNCHANGED vars
  BY <1>3, <1>4 DEF vars, ctxVars, recvVars
<1>5. ASSUME NEW d \in Ends, RecvSome(d) \/ RecvHeader(d) \/ RecvPayload(d) PROVE ~open'[e]
  <2>1. Took(d)
    BY <1>5, TakeCases
  <2>2. UNCHANGED open
        /\ \E l \in {"top", "header", "payload", "drop"} : rpc' = [rpc EXCEPT ![d] = l]
    <3>1. rpc' = [rpc EXCEPT ![d] = rpc'[d]] /\ rpc'[d] \in {"header", "payload"}
            => \E l \in {"top", "header", "payload", "drop"} : rpc' = [rpc EXCEPT ![d] = l]
      OBVIOUS
    <3> QED
      BY <2>1, <3>1 DEF Took, Handle
  <2> QED
    BY <1>1, <1>3, <2>2
<1>6. ASSUME NEW d \in Ends, SenderStep(d) \/ \E t \in Threads : SendLock(d, t) \/ SendPiece(d, t)
      PROVE  ~open'[e]
  <2>1. UNCHANGED rpc /\ (UNCHANGED open \/ open' = [open EXCEPT ![d] = FALSE])
    BY <1>6 DEF SenderStep, SendBegin, DisconnectBegin, Disconnect, CloseSocket, SendLock,
                SendPiece, SendFails, ctxVars, recvVars
  <2>2. ~open[e]
    BY <1>2, <2>1 DEF Ended
  <2> QED
    BY <1>1, <2>1, <2>2
<1>7. ASSUME NEW d \in Ends, RecvTop(d) \/ HeaderTimeout(d) \/ RecvFails(d) PROVE ~open'[e]
  <2>1. /\ UNCHANGED <<open, running>>
        /\ \/ \E l \in {"top", "header", "drop"} : rpc' = [rpc EXCEPT ![d] = l]
           \/ ~running[d] /\ rpc' = [rpc EXCEPT ![d] = "end"]
    BY <1>7 DEF RecvTop, HeaderTimeout, RecvFails, ctxVars
  <2>2. rpc[e] = "end"
    BY <1>1, <1>2, <2>1
  <2> QED
    BY <1>3, <2>1, <2>2
<1>8. ASSUME NEW d \in Ends, RecvDrop(d) PROVE ~open'[e]
  <2>1. /\ open' = [open EXCEPT ![d] = FALSE] /\ rpc' = [rpc EXCEPT ![d] = "end"]
    BY <1>8 DEF RecvDrop, CloseSocket
  <2>2. d = e \/ rpc[e] = "end"
    BY <1>1, <2>1
  <2>3. d = e \/ ~open[e]
    BY <1>2, <2>2 DEF Ended
  <2> QED
    BY <1>1, <2>1, <2>3
<1> QED
  BY <1>4, <1>5, <1>6, <1>7, <1>8, NextSteps DEF OtherStep

\* Where nothing can go on, whoever holds a lock faces a full buffer, whose reader has
\* stopped or waits for the lock of its own end.
LEMMA HolderWaits ==
  ASSUME TypeOK, Ended, NEW e \in Ends, lock[e] # "free", \A d \in Ends : ~CanGoOn(d)
  PROVE  /\ Len(pipe[e]) = SockBuf
         /\ \/ Deaf(Peer(e))
            \/ /\ lock[Peer(e)] # "free"
               /\ want[Peer(e)]["recv"] # "none" \/ rpc[Peer(e)] = "drop"
<1>1. PICK d \in Ends : d = Peer(e) /\ Peer(d) = e
  BY EndFacts
<1>2. open[e] /\ open[d] /\ ~(Len(pipe[e]) < SockBuf)
  BY <1>1 DEF CanGoOn
<1>3. PICK p \in Seq(SomePiece) : p = pipe[e]
  BY TypeParts DEF StreamTypes
<1>4. Len(p) = SockBuf /\ p # <<>>
  <2>1. Len(p) \in Nat /\ Len(p) =< SockBuf /\ SockBuf \in Nat \ {0}
    BY <1>3, TypeParts, SizeAssumption, LenProperties DEF Bounded
  <2>2. Len(p) = SockBuf /\ Len(p) # 0
    BY <1>2, <1>3, <2>1
  <2>3. Len(<<>>) = 0
    OBVIOUS
  <2> QED
    BY <2>2, <2>3
<1>5. ~Reading(d)
  BY <1>1, <1>3, <1>4 DEF CanGoOn
<1>6. Deaf(d) \/ want[d]["recv"] # "none" \/ rpc[d] = "drop"
  <2>1. rpc[d] \in {"top", "drop", "end"}
    BY <1>2, <1>5, TypeParts DEF RecvTypes, Reading
  <2>2. CASE rpc[d] = "top"
    BY <1>2, <2>2 DEF CanGoOn, Deaf
  <2>3. CASE rpc[d] = "end"
    BY <1>2, <2>3 DEF Ended, Deaf
  <2> QED
    BY <2>1, <2>2, <2>3
<1>7. want[d]["recv"] # "none" \/ rpc[d] = "drop" => lock[d] # "free"
  BY EndFacts DEF CanGoOn
<1> QED
  BY <1>1, <1>3, <1>4, <1>6, <1>7

\* The safety half of SendEnds, for any sizes and any number of senders: threads that
\* send, answer or close wait for each other in no other situations than those of Hang,
\* when both ends write and nobody reads, or the reader has stopped with its socket open.
THEOREM StreamOnlyHangs == Spec => []OnlyHangs
<1>1. Init => Ended
  BY DEF Init, Ended
<1>2. TypeOK /\ Ended => OnlyHangs
  <2> SUFFICES ASSUME TypeOK, Ended, NEW e \in Ends, NEW t \in Threads, want[e][t] # "none",
                      \A d \in Ends : ~CanGoOn(d)
               PROVE  Hang
    BY DEF OnlyHangs
  <2>1. lock[e] # "free"
    BY DEF CanGoOn
  <2>2. /\ Len(pipe[e]) = SockBuf
        /\ \/ Deaf(Peer(e))
           \/ /\ lock[Peer(e)] # "free"
              /\ want[Peer(e)]["recv"] # "none" \/ rpc[Peer(e)] = "drop"
    BY <2>1, HolderWaits
  <2>3. CASE Deaf(Peer(e))
    BY <2>1, <2>2, <2>3 DEF Hang
  <2>4. CASE ~Deaf(Peer(e))
    <3>1. /\ lock[Peer(e)] # "free"
          /\ want[Peer(e)]["recv"] # "none" \/ rpc[Peer(e)] = "drop"
      BY <2>2, <2>4
    <3>2. /\ Len(pipe[Peer(e)]) = SockBuf
          /\ Deaf(e) \/ want[e]["recv"] # "none" \/ rpc[e] = "drop"
      BY <3>1, HolderWaits, EndFacts
    <3>3. CASE Deaf(e)
      BY <3>1, <3>2, <3>3, EndFacts DEF Hang
    <3>4. CASE want[e]["recv"] # "none" \/ rpc[e] = "drop"
      BY <2>1, <2>2, <3>1, <3>2, <3>4, EndFacts DEF Gridlock, Hang
    <3> QED
      BY <3>2, <3>3, <3>4
  <2> QED
    BY <2>3, <2>4
<1> QED
  BY <1>1, <1>2, EndedStep, StreamTypeCorrect, PTL DEF Spec
-----------------------------------------------------------------------------
(* The header of a frame                                                     *)

\* The four bytes of a 32-bit number are bytes, and are put together to it again.
LEMMA FourBytes ==
    ASSUME NEW x \in UInt32
    PROVE  /\ Byte3(x) \in Byte /\ Byte2(x) \in Byte /\ Byte1(x) \in Byte /\ Byte0(x) \in Byte
           /\ Word(Byte3(x), Byte2(x), Byte1(x), Byte0(x)) = x
BY SMT DEF UInt32, Byte, Byte3, Byte2, Byte1, Byte0, Word

\* The same of the two bytes of a 16-bit number.
LEMMA TwoBytes ==
    ASSUME NEW x \in UInt16
    PROVE  /\ Byte1(x) \in Byte /\ Byte0(x) \in Byte
           /\ Half(Byte1(x), Byte0(x)) = x
BY SMT DEF UInt16, Byte, Byte1, Byte0, Half

\* Four bytes are a 32-bit number, and its bytes are these four.
LEMMA WordBytes ==
    ASSUME NEW a \in Byte, NEW b \in Byte, NEW c \in Byte, NEW d \in Byte
    PROVE  /\ Word(a, b, c, d) \in UInt32
           /\ Byte3(Word(a, b, c, d)) = a /\ Byte2(Word(a, b, c, d)) = b
           /\ Byte1(Word(a, b, c, d)) = c /\ Byte0(Word(a, b, c, d)) = d
BY SMT DEF UInt32, Byte, Byte3, Byte2, Byte1, Byte0, Word

\* Two bytes are a 16-bit number, and its bytes are these two.
LEMMA HalfBytes ==
    ASSUME NEW a \in Byte, NEW b \in Byte
    PROVE  /\ Half(a, b) \in UInt16
           /\ Byte1(Half(a, b)) = a /\ Byte0(Half(a, b)) = b
BY SMT DEF UInt16, Byte, Byte1, Byte0, Half

\* What the sender writes is 24 bytes, and the receiver reads every field of it
\* back, whatever their values.
THEOREM RoundTrip ==
    ASSUME NEW h \in IpcMessageHeader
    PROVE  /\ SerializeHeader(h) \in Buffers
           /\ Deserialized(SerializeHeader(h)) = h
<1>1. /\ h.magic \in UInt32 /\ h.version \in Byte /\ h.type \in Byte
      /\ h.flags \in UInt16 /\ h.seq \in UInt32 /\ h.ack \in UInt32
      /\ h.payloadLen \in UInt32 /\ h.checksum \in UInt32
  BY DEF IpcMessageHeader
<1>2. SerializeHeader(h) \in Buffers
  BY <1>1, FourBytes, TwoBytes DEF SerializeHeader, Buffers, HeaderSize
<1>3. Deserialized(SerializeHeader(h)) =
        [magic |-> h.magic, version |-> h.version, type |-> h.type, flags |-> h.flags,
         seq |-> h.seq, ack |-> h.ack, payloadLen |-> h.payloadLen,
         checksum |-> h.checksum]
  BY <1>1, FourBytes, TwoBytes DEF SerializeHeader, Deserialized
<1>4. QED
  BY <1>2, <1>3 DEF IpcMessageHeader

\* The other way round: the receiver loses no byte of what it read, so that two
\* different headers on the wire are never taken for the same.
THEOREM NoByteLost ==
    ASSUME NEW buf \in Buffers
    PROVE  /\ Deserialized(buf) \in IpcMessageHeader
           /\ SerializeHeader(Deserialized(buf)) = buf
<1> DEFINE h == Deserialized(buf)
<1>1. \A k \in 1 .. 24 : buf[k] \in Byte
  BY DEF Buffers, HeaderSize
<1>2. /\ h.magic = Word(buf[1], buf[2], buf[3], buf[4])
      /\ h.version = buf[5] /\ h.type = buf[6] /\ h.flags = Half(buf[7], buf[8])
      /\ h.seq = Word(buf[9], buf[10], buf[11], buf[12])
      /\ h.ack = Word(buf[13], buf[14], buf[15], buf[16])
      /\ h.payloadLen = Word(buf[17], buf[18], buf[19], buf[20])
      /\ h.checksum = Word(buf[21], buf[22], buf[23], buf[24])
  BY DEF Deserialized
<1> HIDE DEF h
\* A field of four bytes that begins at element k gives these bytes back.
<1> DEFINE Field(x, k) ==
             /\ x \in UInt32
             /\ Byte3(x) = buf[k] /\ Byte2(x) = buf[k + 1]
             /\ Byte1(x) = buf[k + 2] /\ Byte0(x) = buf[k + 3]
<1>3. \A k \in 1 .. 21 : Field(Word(buf[k], buf[k + 1], buf[k + 2], buf[k + 3]), k)
  <2>1. TAKE k \in 1 .. 21
  <2>2. buf[k] \in Byte /\ buf[k + 1] \in Byte /\ buf[k + 2] \in Byte /\ buf[k + 3] \in Byte
    BY <1>1
  <2>3. QED
    BY <2>2, WordBytes
<1> HIDE DEF Field
<1>4. /\ Field(h.magic, 1) /\ Field(h.seq, 9) /\ Field(h.ack, 13)
      /\ Field(h.payloadLen, 17) /\ Field(h.checksum, 21)
  <2>1. Field(h.magic, 1)
    BY <1>2, <1>3
  <2>2. Field(h.seq, 9)
    BY <1>2, <1>3
  <2>3. Field(h.ack, 13)
    BY <1>2, <1>3
  <2>4. Field(h.payloadLen, 17)
    BY <1>2, <1>3
  <2>5. Field(h.checksum, 21)
    BY <1>2, <1>3
  <2>6. QED
    BY <2>1, <2>2, <2>3, <2>4, <2>5
<1>5. h \in IpcMessageHeader
  <2>1. h.version \in Byte /\ h.type \in Byte
    BY <1>1, <1>2
  <2>2. h.flags \in UInt16
    BY <1>1, <1>2, HalfBytes
  <2>3. QED
    BY <1>4, <2>1, <2>2 DEF h, Field, Deserialized, IpcMessageHeader
<1>6. SerializeHeader(h) \in Buffers
  BY <1>5, RoundTrip
<1>7. SerializeHeader(h) = buf
  <2>1. Byte1(h.flags) = buf[7] /\ Byte0(h.flags) = buf[8]
    BY <1>1, <1>2, HalfBytes
  <2>2. SerializeHeader(h) =
          << buf[1], buf[2], buf[3], buf[4], buf[5], buf[6], buf[7], buf[8],
             buf[9], buf[10], buf[11], buf[12], buf[13], buf[14], buf[15], buf[16],
             buf[17], buf[18], buf[19], buf[20], buf[21], buf[22], buf[23], buf[24] >>
    BY <1>2, <1>4, <2>1 DEF SerializeHeader, Field
  <2>3. \A k \in 1 .. 24 : SerializeHeader(h)[k] = buf[k]
    BY <2>2
  <2>4. QED
    BY <1>6, <2>3 DEF Buffers, HeaderSize
<1>8. QED
  BY <1>5, <1>7 DEF h

\* Every header SendMessageInternal builds is accepted by the peer, and the size
\* the peer will read for the payload is the size the sender will write.
THEOREM OwnHeadersAccepted ==
    ASSUME NEW type \in Byte, NEW flags \in UInt16, NEW seq \in UInt32, NEW ack \in UInt32,
           NEW payloadLen \in UInt32, NEW checksum \in UInt32,
           NotTooLarge(payloadLen)
    PROVE  LET buf == SerializeHeader(Built(type, flags, seq, ack, payloadLen, checksum))
           IN  DeserializeHeader(buf) /\ Deserialized(buf).payloadLen = payloadLen
<1> DEFINE h == Built(type, flags, seq, ack, payloadLen, checksum)
<1>1. h \in IpcMessageHeader
  <2>1. IPC_MAGIC \in UInt32 /\ IPC_VERSION \in Byte
    BY SMT DEF IPC_MAGIC, IPC_VERSION, UInt32, Byte
  <2>2. QED
    BY <2>1 DEF Built, IpcMessageHeader
<1>2. Deserialized(SerializeHeader(h)) = h
  BY <1>1, RoundTrip
<1>3. h.magic = IPC_MAGIC /\ h.version = IPC_VERSION /\ h.payloadLen = payloadLen
  BY DEF Built
<1>4. QED
  BY <1>2, <1>3 DEF DeserializeHeader, NotTooLarge

\* One wrong bit, or any other change, in the bytes of the magic number or the
\* version has the frame refused: the receive thread drops the connection.
THEOREM DamagedMagicRefused ==
    ASSUME NEW h \in IpcMessageHeader, h.magic = IPC_MAGIC, h.version = IPC_VERSION,
           NEW buf \in Buffers,
           \E k \in 1 .. 5 : buf[k] # SerializeHeader(h)[k]
    PROVE  ~DeserializeHeader(buf)
<1>1. SUFFICES ASSUME DeserializeHeader(buf)
               PROVE  FALSE
  OBVIOUS
<1>2. /\ Word(buf[1], buf[2], buf[3], buf[4]) = h.magic
      /\ buf[5] = h.version
  BY <1>1 DEF DeserializeHeader, Deserialized
<1>3. /\ buf[1] = Byte3(h.magic) /\ buf[2] = Byte2(h.magic)
      /\ buf[3] = Byte1(h.magic) /\ buf[4] = Byte0(h.magic)
  <2>1. buf[1] \in Byte /\ buf[2] \in Byte /\ buf[3] \in Byte /\ buf[4] \in Byte
    BY DEF Buffers, HeaderSize
  <2>2. QED
    BY <1>2, <2>1, WordBytes
<1>4. \A k \in 1 .. 5 : buf[k] = SerializeHeader(h)[k]
  BY <1>2, <1>3 DEF SerializeHeader
<1>5. QED
  BY <1>4
=================================================================================
