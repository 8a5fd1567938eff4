------------------------- MODULE ViewerLoaderProofs -------------------------
(***************************************************************************)
(* When all is quiet the viewer shows what the last move asks for, for     *)
(* every number of moves and sizes, every set of bare areas and every      *)
(* number of batches.                                                      *)
(*                                                                         *)
(* The invariant follows an area on its way: it is in a message, in a tick *)
(* or in the search under way, unless what was found is in the buffer or   *)
(* in the hand of the window; and while it is there but not in the         *)
(* picture, a redraw that will draw it is asked for.                       *)
(***************************************************************************)
EXTENDS ViewerLoader, SequenceTheorems, TLAPS

Searches == [area : Nat \X Nat, level : (Nat \X Nat) \X Nat, left : Nat, over : BOOLEAN]

Types ==
    /\ view \in 0 .. MaxMoves /\ astray \in 0 .. view
    /\ sizes \in Nat /\ movedAt \in 0 .. sizes
    /\ stage \in {"idle", "take", "draw"}
    /\ rerender \in BOOLEAN /\ hasUpdates \in BOOLEAN /\ waiting \in BOOLEAN
    /\ messages \in Seq({"move", "astray", "resize"})
    /\ ticks \in Nat /\ passed \in Nat
    /\ pc \in {"tick", "load", "store", "flag", "message"}
    /\ bbox \in Nat \X Nat /\ size \in Nat /\ level = LevelOf(bbox, size)
    /\ search \in Searches

(* No area lies ahead of the window's. *)
InView(area) == area[1] <= view /\ area[2] <= area[1]

(* What the loader will have come to before each message, and in the end:  *)
(* the area and the size of the window.  It has come to the last area only *)
(* with a size of the time after the last move.                            *)
Course(a, s) ==
    /\ a \in [1 .. Len(messages) + 1 -> Nat \X Nat] /\ s \in [1 .. Len(messages) + 1 -> Nat]
    /\ a[1] = bbox /\ s[1] = size
    /\ a[Len(messages) + 1] = Heard /\ s[Len(messages) + 1] = sizes
    /\ \A i \in 1 .. Len(messages) :
         IF messages[i] = "resize" THEN a[i + 1] = a[i] /\ s[i + 1] = s[i] + 1
                                   ELSE a[i + 1] = Moved(a[i], messages[i]) /\ s[i + 1] = s[i]
    /\ \A i \in 1 .. Len(messages) + 1 :
         /\ InView(a[i]) /\ s[i] <= sizes
         /\ IF a[i][1] = view THEN a[i] = Heard /\ movedAt <= s[i]
                              ELSE \E j \in i .. Len(messages) : messages[j] # "resize"

CourseInv == \E a, s : Course(a, s)

(* A search is asked for, and has not begun. *)
Asked ==
    \/ \E i \in DOMAIN messages : messages[i] # "resize"
    \/ ticks > 0 \/ waiting \/ passed > 0

(* The search under way, or over, is of the area the loader is led to. *)
SearchInv ==
    /\ pc \in {"store", "flag"} => ~ search.over
    /\ ~ Asked => search.area = Heard /\ \E s \in movedAt .. sizes : search.level = LevelOf(Heard, s)

(* What it found was put in the buffer. *)
Stored == Heard \notin Bare /\ ~ Asked /\ (search.over \/ pc = "flag")

(* It is still there, or in the window's hand until it is put back. *)
BufferInv ==
    Stored => IF stage = "draw" /\ buffer = Nothing THEN OfLastMove(hand)
                                                    ELSE OfLastMove(buffer)

(* It is drawn, or going to be. *)
DrawInv ==
    Stored => \/ pc = "flag" \/ hasUpdates \/ rerender
              \/ stage = "draw" /\ OfLastMove(hand)
              \/ stage # "draw" /\ OfLastMove(drawn.objects)

(* So is the area that is seen, whatever is in it. *)
SeenInv ==
    /\ drawn.view = view \/ rerender \/ stage = "draw"
    /\ stage = "take" => rerender

Inv == Types /\ CourseInv /\ SearchInv /\ BufferInv /\ DrawInv /\ SeenInv

-----------------------------------------------------------------------------
(* Facts about messages, and about what is not nothing. *)

(* Messages come last and are taken first. *)
LEMMA QueueFacts ==
    ASSUME Types
    PROVE  /\ Len(messages) \in Nat /\ DOMAIN messages = 1 .. Len(messages)
           /\ \A i \in 1 .. Len(messages) : messages[i] \in {"move", "astray", "resize"}
           /\ \A m \in {"move", "astray", "resize"} :
                /\ Append(messages, m) \in Seq({"move", "astray", "resize"})
                /\ Len(Append(messages, m)) = Len(messages) + 1
                /\ \A i \in 1 .. Len(messages) : Append(messages, m)[i] = messages[i]
                /\ Append(messages, m)[Len(messages) + 1] = m
           /\ messages # <<>> =>
                /\ Tail(messages) \in Seq({"move", "astray", "resize"}) /\ Len(messages) > 0
                /\ Len(Tail(messages)) = Len(messages) - 1
                /\ \A i \in 1 .. Len(messages) - 1 : Tail(messages)[i] = messages[i + 1]
                /\ Head(messages) = messages[1]
  <1>1. messages \in Seq({"move", "astray", "resize"})
    BY DEF Types
  <1> QED BY <1>1

LEMMA SomethingFound ==
    ASSUME Types, NEW o, OfLastMove(o)
    PROVE  o # Nothing
  <1>1. PICK s \in movedAt .. sizes : o = <<Heard, <<Heard, s>>>>
    BY DEF OfLastMove, LevelOf
  <1>2. Heard \in Areas /\ s \in Nat
    BY ViewerConstants DEF Types, Heard, Areas
  <1> QED BY <1>1, <1>2, ViewerConstants

(* Without a move in the messages the loader has come to the last area. *)
LEMMA AllHeard ==
    ASSUME Types, CourseInv
    PROVE  /\ bbox \in Areas
           /\ (\A i \in DOMAIN messages : messages[i] = "resize") =>
                bbox = Heard /\ size \in movedAt .. sizes
  <1>1. PICK a, s : Course(a, s)
    BY DEF CourseInv
  <1>2. Len(messages) \in Nat /\ DOMAIN messages = 1 .. Len(messages)
    BY QueueFacts
  <1>3. /\ a[1] = bbox /\ s[1] = size /\ InView(a[1]) /\ s[1] <= sizes
        /\ IF a[1][1] = view THEN a[1] = Heard /\ movedAt <= s[1]
                             ELSE \E j \in 1 .. Len(messages) : messages[j] # "resize"
    BY <1>1, <1>2 DEF Course
  <1>4. bbox \in Areas
    BY <1>3, ViewerConstants DEF Types, Areas, InView
  <1>5. CASE a[1][1] = view
    BY <1>3, <1>4, <1>5 DEF Types
  <1>6. CASE a[1][1] # view
    BY <1>2, <1>3, <1>4, <1>6
  <1> QED BY <1>5, <1>6

(* Nothing comes to or goes from the messages. *)
LEMMA CourseStays ==
    ASSUME CourseInv, UNCHANGED <<messages, view, astray, sizes, movedAt, bbox, size>>
    PROVE  CourseInv'
  <1>1. PICK a, s : Course(a, s)
    BY DEF CourseInv
  <1>2. /\ messages' = messages /\ view' = view /\ astray' = astray /\ sizes' = sizes
        /\ movedAt' = movedAt /\ bbox' = bbox /\ size' = size
    OBVIOUS
  <1>3. Course(a, s)'
    BY <1>1, <1>2 DEF Course, Heard, InView
  <1> QED BY <1>3 DEF CourseInv

(* A message is sent by the window, of a new area or a new size. *)
LEMMA CourseGrows ==
    ASSUME Types, CourseInv, NEW m \in {"move", "astray", "resize"},
           messages' = Append(messages, m), UNCHANGED <<bbox, size>>,
           IF m = "resize" THEN Heard' = Heard /\ sizes' = sizes + 1 /\ movedAt' = movedAt
                           ELSE Heard' = Moved(Heard, m) /\ sizes' = sizes /\ movedAt' = sizes
    PROVE  CourseInv'
  <1>1. PICK a, s : Course(a, s)
    BY DEF CourseInv
  <1>2. PICK n \in Nat : n = Len(messages)
    BY QueueFacts
  <1>3. /\ Len(messages') = n + 1
        /\ \A i \in 1 .. n : messages'[i] = messages[i]
        /\ messages'[n + 1] = m
    BY <1>2, QueueFacts
  <1>4. /\ view \in Nat /\ astray \in 0 .. view /\ sizes \in Nat /\ movedAt \in 0 .. sizes
        /\ Heard = <<view, astray>> /\ Heard' = <<view', astray'>>
    BY ViewerConstants DEF Types, Heard
  <1>15. /\ sizes' \in Nat /\ movedAt' \in 0 .. sizes'
         /\ view' \in Nat /\ astray' \in 0 .. view' /\ Heard' \in Nat \X Nat
    BY <1>4 DEF Moved
  <1>5. /\ a \in [1 .. n + 1 -> Nat \X Nat] /\ s \in [1 .. n + 1 -> Nat]
        /\ a[1] = bbox /\ s[1] = size /\ a[n + 1] = Heard /\ s[n + 1] = sizes
        /\ \A i \in 1 .. n :
             IF messages[i] = "resize" THEN a[i + 1] = a[i] /\ s[i + 1] = s[i] + 1
                                       ELSE a[i + 1] = Moved(a[i], messages[i]) /\ s[i + 1] = s[i]
        /\ \A i \in 1 .. n + 1 :
             /\ InView(a[i]) /\ s[i] <= sizes
             /\ IF a[i][1] = view THEN a[i] = Heard /\ movedAt <= s[i]
                                  ELSE \E j \in i .. n : messages[j] # "resize"
    BY <1>1, <1>2 DEF Course
  <1>6. PICK b \in [1 .. n + 2 -> Nat \X Nat], z \in [1 .. n + 2 -> Nat] :
           /\ b[n + 2] = Heard' /\ z[n + 2] = sizes'
           /\ \A i \in 1 .. n + 1 : b[i] = a[i] /\ z[i] = s[i]
    <2> DEFINE f == [i \in 1 .. n + 2 |-> IF i = n + 2 THEN Heard' ELSE a[i]]
               g == [i \in 1 .. n + 2 |-> IF i = n + 2 THEN sizes' ELSE s[i]]
    <2>1. f \in [1 .. n + 2 -> Nat \X Nat] /\ g \in [1 .. n + 2 -> Nat]
      BY <1>15, <1>5
    <2>2. /\ f[n + 2] = Heard' /\ g[n + 2] = sizes'
          /\ \A i \in 1 .. n + 1 : f[i] = a[i] /\ g[i] = s[i]
      OBVIOUS
    <2> HIDE DEF f, g
    <2> QED BY <2>1, <2>2
  <1>7. ASSUME NEW i \in 1 .. n + 1
        PROVE  IF messages'[i] = "resize" THEN b[i + 1] = b[i] /\ z[i + 1] = z[i] + 1
                                          ELSE b[i + 1] = Moved(b[i], messages'[i]) /\ z[i + 1] = z[i]
    <2>1. CASE i = n + 1
      <3>1. b[i] = Heard /\ z[i] = sizes /\ b[i + 1] = Heard' /\ z[i + 1] = sizes' /\ messages'[i] = m
        BY <1>3, <1>5, <1>6, <2>1
      <3> QED BY <3>1
    <2>2. CASE i # n + 1
      <3>1. /\ i \in 1 .. n /\ messages'[i] = messages[i] /\ b[i] = a[i] /\ z[i] = s[i]
            /\ b[i + 1] = a[i + 1] /\ z[i + 1] = s[i + 1]
        <4>1. i \in 1 .. n /\ i + 1 \in 1 .. n + 1
          BY <2>2
        <4> QED BY <1>3, <1>6, <4>1
      <3> QED BY <1>5, <3>1
    <2> QED BY <2>1, <2>2
  <1>8. ASSUME NEW i \in 1 .. n + 2
        PROVE  /\ InView(b[i])' /\ z[i] <= sizes'
               /\ IF b[i][1] = view' THEN b[i] = Heard' /\ movedAt' <= z[i]
                                     ELSE \E j \in i .. n + 1 : messages'[j] # "resize"
    <2>1. CASE i = n + 2
      BY <1>4, <1>15, <1>6, <2>1 DEF InView
    <2>2. CASE i # n + 2
      <3>1. /\ i \in 1 .. n + 1 /\ b[i] = a[i] /\ z[i] = s[i] /\ a[i] \in Nat \X Nat /\ s[i] \in Nat
            /\ InView(a[i]) /\ s[i] <= sizes
            /\ IF a[i][1] = view THEN a[i] = Heard /\ movedAt <= s[i]
                                 ELSE \E j \in i .. n : messages[j] # "resize"
        <4>1. i \in 1 .. n + 1
          BY <2>2
        <4> QED BY <1>5, <1>6, <4>1
      <3>4. /\ b[i][1] \in Nat /\ b[i][2] \in Nat /\ b[i][1] <= view /\ b[i][2] <= b[i][1]
            /\ z[i] \in Nat /\ z[i] <= sizes
        BY <3>1 DEF InView
      <3>2. CASE m # "resize"
        <4>1. view' = view + 1 /\ sizes' = sizes
          BY <1>4, <3>2 DEF Moved
        <4>2. b[i][1] # view' /\ messages'[n + 1] # "resize" /\ n + 1 \in i .. n + 1
          <5>1. view \in Nat
            BY <1>4
          <5>2. b[i][1] # view'
            BY <3>4, <4>1, <5>1
          <5>3. messages'[n + 1] # "resize"
            BY <1>3, <3>2
          <5>4. n + 1 \in i .. n + 1
            BY <3>1
          <5> QED BY <5>2, <5>3, <5>4
        <4>3. InView(b[i])' /\ z[i] <= sizes'
          <5>1. view \in Nat /\ sizes \in Nat
            BY <1>4
          <5>2. b[i][1] <= view'
            <6> DEFINE p == b[i][1]
            <6>1. p \in Nat /\ p <= view
              BY <3>4
            <6> HIDE DEF p
            <6>2. p <= view + 1
              BY <5>1, <6>1
            <6>3. p <= view'
              BY <4>1, <6>2
            <6> QED BY <6>3 DEF p
          <5>3. z[i] <= sizes'
            BY <3>4, <4>1
          <5> QED BY <3>4, <5>2, <5>3 DEF InView
        <4> QED BY <4>2, <4>3
      <3>3. CASE m = "resize"
        <4>1. \A j \in i .. n : j \in i .. n + 1 /\ messages'[j] = messages[j]
          BY <1>3, <3>1
        <4>2. view' = view /\ Heard' = Heard /\ sizes' = sizes + 1 /\ movedAt' = movedAt
          BY <1>4, <3>3
        <4>3. InView(b[i])' /\ z[i] <= sizes'
          <5>1. view \in Nat /\ sizes \in Nat
            BY <1>4
          <5>2. b[i][1] <= view' /\ z[i] <= sizes'
            BY <3>4, <4>2, <5>1
          <5> QED BY <3>4, <5>2 DEF InView
        <4>4. CASE a[i][1] = view
          BY <3>1, <4>2, <4>3, <4>4
        <4>5. CASE a[i][1] # view
          BY <3>1, <4>1, <4>2, <4>3, <4>5
        <4> QED BY <4>4, <4>5
      <3> QED BY <3>2, <3>3
    <2> QED BY <2>1, <2>2
  <1>9. b[1] = bbox /\ z[1] = size
    BY <1>5, <1>6
  <1>10. Course(b, z)'
    <2>1. Len(messages') = n + 1 /\ Len(messages') + 1 = n + 2
      BY <1>3
    <2>2. /\ b \in [1 .. Len(messages') + 1 -> Nat \X Nat] /\ z \in [1 .. Len(messages') + 1 -> Nat]
          /\ b[Len(messages') + 1] = Heard' /\ z[Len(messages') + 1] = sizes'
      BY <1>6, <2>1
    <2>3. \A i \in 1 .. Len(messages') :
            IF messages'[i] = "resize" THEN b[i + 1] = b[i] /\ z[i + 1] = z[i] + 1
                                       ELSE b[i + 1] = Moved(b[i], messages'[i]) /\ z[i + 1] = z[i]
      BY <1>7, <2>1
    <2>4. \A i \in 1 .. Len(messages') + 1 :
            /\ InView(b[i])' /\ z[i] <= sizes'
            /\ IF b[i][1] = view' THEN b[i] = Heard' /\ movedAt' <= z[i]
                                  ELSE \E j \in i .. Len(messages') : messages'[j] # "resize"
      BY <1>8, <2>1
    <2>5. b[1] = bbox' /\ z[1] = size'
      BY <1>9
    <2> QED BY <2>2, <2>3, <2>4, <2>5 DEF Course
  <1> QED BY <1>10 DEF CourseInv

(* The loader takes the first message. *)
LEMMA CourseGoesOn ==
    ASSUME Types, CourseInv, messages # <<>>, messages' = Tail(messages),
           UNCHANGED <<view, astray, sizes, movedAt>>,
           IF Head(messages) = "resize" THEN bbox' = bbox /\ size' = size + 1
                                        ELSE bbox' = Moved(bbox, Head(messages)) /\ size' = size
    PROVE  CourseInv'
  <1>1. PICK a, s : Course(a, s)
    BY DEF CourseInv
  <1>2. PICK n \in Nat : n = Len(messages)
    BY QueueFacts
  <1>3. /\ n > 0 /\ Len(messages') = n - 1 /\ Head(messages) = messages[1]
        /\ \A i \in 1 .. n - 1 : messages'[i] = messages[i + 1]
    BY <1>2, QueueFacts
  <1>4. /\ a \in [1 .. n + 1 -> Nat \X Nat] /\ s \in [1 .. n + 1 -> Nat]
        /\ a[1] = bbox /\ s[1] = size /\ a[n + 1] = Heard /\ s[n + 1] = sizes
        /\ \A i \in 1 .. n :
             IF messages[i] = "resize" THEN a[i + 1] = a[i] /\ s[i + 1] = s[i] + 1
                                       ELSE a[i + 1] = Moved(a[i], messages[i]) /\ s[i + 1] = s[i]
        /\ \A i \in 1 .. n + 1 :
             /\ InView(a[i]) /\ s[i] <= sizes
             /\ IF a[i][1] = view THEN a[i] = Heard /\ movedAt <= s[i]
                                  ELSE \E j \in i .. n : messages[j] # "resize"
    BY <1>1, <1>2 DEF Course
  <1>5. PICK b \in [1 .. n -> Nat \X Nat], z \in [1 .. n -> Nat] :
           \A i \in 1 .. n : b[i] = a[i + 1] /\ z[i] = s[i + 1]
    <2>1. ASSUME NEW i \in 1 .. n PROVE a[i + 1] \in Nat \X Nat /\ s[i + 1] \in Nat
      <3>1. i + 1 \in 1 .. n + 1
        OBVIOUS
      <3> QED BY <1>4, <3>1
    <2>2. /\ [i \in 1 .. n |-> a[i + 1]] \in [1 .. n -> Nat \X Nat]
          /\ [i \in 1 .. n |-> s[i + 1]] \in [1 .. n -> Nat]
      BY <2>1
    <2> QED BY <2>2
  <1>6. b[1] = bbox' /\ z[1] = size'
    <2>1. 1 \in 1 .. n /\ b[1] = a[2] /\ z[1] = s[2]
      BY <1>3, <1>5
    <2>2. IF messages[1] = "resize" THEN a[2] = a[1] /\ s[2] = s[1] + 1
                                    ELSE a[2] = Moved(a[1], messages[1]) /\ s[2] = s[1]
      <3>1. 1 \in 1 .. n /\ 1 + 1 = 2
        BY <1>3
      <3> QED BY <1>4, <3>1
    <2>3. a[1] = bbox /\ s[1] = size /\ Head(messages) = messages[1]
      BY <1>3, <1>4
    <2> QED BY <2>1, <2>2, <2>3
  <1>7. b[n] = Heard /\ z[n] = sizes
    BY <1>3, <1>4, <1>5
  <1>8. ASSUME NEW i \in 1 .. n - 1
        PROVE  IF messages'[i] = "resize" THEN b[i + 1] = b[i] /\ z[i + 1] = z[i] + 1
                                          ELSE b[i + 1] = Moved(b[i], messages'[i]) /\ z[i + 1] = z[i]
    <2>1. /\ i + 1 \in 1 .. n /\ messages'[i] = messages[i + 1]
          /\ b[i] = a[i + 1] /\ z[i] = s[i + 1]
          /\ b[i + 1] = a[(i + 1) + 1] /\ z[i + 1] = s[(i + 1) + 1]
      <3>1. i \in 1 .. n /\ i + 1 \in 1 .. n
        OBVIOUS
      <3> QED BY <1>3, <1>5, <3>1
    <2> QED BY <1>4, <2>1
  <1>9. ASSUME NEW i \in 1 .. n
        PROVE  /\ InView(b[i]) /\ z[i] <= sizes
               /\ IF b[i][1] = view THEN b[i] = Heard /\ movedAt <= z[i]
                                    ELSE \E j \in i .. n - 1 : messages'[j] # "resize"
    <2>1. i + 1 \in 1 .. n + 1 /\ b[i] = a[i + 1] /\ z[i] = s[i + 1]
      BY <1>5
    <2>2. /\ InView(a[i + 1]) /\ s[i + 1] <= sizes
          /\ IF a[i + 1][1] = view THEN a[i + 1] = Heard /\ movedAt <= s[i + 1]
                                   ELSE \E j \in i + 1 .. n : messages[j] # "resize"
      BY <1>4, <2>1
    <2>3. ASSUME NEW j \in i + 1 .. n, messages[j] # "resize"
          PROVE  j - 1 \in i .. n - 1 /\ messages'[j - 1] # "resize"
      <3>1. j - 1 \in i .. n - 1 /\ j - 1 \in 1 .. n - 1 /\ (j - 1) + 1 = j
        OBVIOUS
      <3> QED BY <1>3, <2>3, <3>1
    <2> QED BY <2>1, <2>2, <2>3
  <1>10. Course(b, z)'
    <2>1. Len(messages') + 1 = n
      BY <1>3
    <2>2. Len(messages') = n - 1
      BY <1>3
    <2>3. view' = view /\ Heard' = Heard /\ sizes' = sizes /\ movedAt' = movedAt
      BY DEF Heard
    <2>4. /\ b \in [1 .. Len(messages') + 1 -> Nat \X Nat] /\ z \in [1 .. Len(messages') + 1 -> Nat]
          /\ b[Len(messages') + 1] = Heard' /\ z[Len(messages') + 1] = sizes'
      BY <1>7, <2>1, <2>3
    <2>5. \A i \in 1 .. Len(messages') :
            IF messages'[i] = "resize" THEN b[i + 1] = b[i] /\ z[i + 1] = z[i] + 1
                                       ELSE b[i + 1] = Moved(b[i], messages'[i]) /\ z[i + 1] = z[i]
      BY <1>8, <2>2
    <2>6. \A i \in 1 .. Len(messages') + 1 :
            /\ InView(b[i])' /\ z[i] <= sizes'
            /\ IF b[i][1] = view' THEN b[i] = Heard' /\ movedAt' <= z[i]
                                  ELSE \E j \in i .. Len(messages') : messages'[j] # "resize"
      <3>1. \A i \in 1 .. n :
              /\ InView(b[i])' /\ z[i] <= sizes'
              /\ IF b[i][1] = view' THEN b[i] = Heard' /\ movedAt' <= z[i]
                                    ELSE \E j \in i .. n - 1 : messages'[j] # "resize"
        BY <1>9, <2>3 DEF InView
      <3> QED BY <2>1, <2>2, <3>1
    <2> QED BY <1>6, <2>4, <2>5, <2>6 DEF Course
  <1> QED BY <1>10 DEF CourseInv

(* Objects of the last move stay so until the next one. *)
LEMMA StillOfLastMove ==
    ASSUME Types, Heard' = Heard, movedAt' = movedAt, sizes' \in {sizes, sizes + 1}
    PROVE  \A o : OfLastMove(o) => OfLastMove(o)'
  <1>1. sizes \in Nat /\ movedAt \in Nat
    BY DEF Types
  <1>2. movedAt .. sizes \subseteq movedAt .. sizes'
    BY <1>1
  <1> QED BY <1>2 DEF OfLastMove, LevelOf

(* The new area is in a message. *)
LEMMA MoveKeeps ==
    ASSUME Inv, NEW m \in {"move", "astray"}, MoveBy(m),
           astray' = IF m = "astray" THEN astray + 1 ELSE astray
    PROVE  Inv'
  <1> USE DEF Inv, MoveBy, IsUpdated, windowVars, debounceVars, loaderVars
  <1>1. Types'
    <2>1. messages' \in Seq({"move", "astray", "resize"})
      BY QueueFacts
    <2>2. view' \in 0 .. MaxMoves /\ astray' \in 0 .. view' /\ movedAt' \in 0 .. sizes'
      BY ViewerConstants DEF Types
    <2> QED BY <2>1, <2>2 DEF Types
  <1>2. CourseInv'
    <2>1. m \in {"move", "astray", "resize"} /\ m # "resize"
      OBVIOUS
    <2>2. Heard' = Moved(Heard, m) /\ sizes' = sizes /\ movedAt' = sizes
      BY DEF Heard, Moved
    <2> QED BY <2>1, <2>2, CourseGrows
  <1>3. SearchInv'
    <2>1. Asked'
      <3>1. messages'[Len(messages) + 1] # "resize" /\ Len(messages) + 1 \in DOMAIN messages'
        BY QueueFacts
      <3> QED BY <3>1 DEF Asked
    <2>2. UNCHANGED <<pc, search>>
      OBVIOUS
    <2> QED BY <2>1, <2>2 DEF SearchInv
  <1>4. BufferInv'
    BY StillOfLastMove DEF Types, BufferInv, Stored, Asked
  <1>5. DrawInv'
    BY StillOfLastMove DEF Types, DrawInv, Stored, Asked
  <1>6. SeenInv'
    BY DEF Types, SeenInv
  <1> QED BY <1>1, <1>2, <1>3, <1>4, <1>5, <1>6

(* A new size changes nothing about the objects of the last move. *)
LEMMA ResizeKeeps ==
    ASSUME Inv, Resize
    PROVE  Inv'
  <1> USE DEF Inv, Resize, IsUpdated, windowVars, debounceVars, loaderVars
  <1>1. Types'
    <2>1. messages' \in Seq({"move", "astray", "resize"})
      BY QueueFacts
    <2>2. sizes' \in Nat /\ movedAt' \in 0 .. sizes'
      BY DEF Types
    <2> QED BY <2>1, <2>2 DEF Types
  <1>2. CourseInv'
    <2>1. Heard' = Heard
      BY DEF Heard
    <2> QED BY <2>1, CourseGrows
  <1>3. SearchInv'
    <2>1. Asked => Asked'
      BY QueueFacts DEF Asked
    <2>2. movedAt .. sizes \subseteq movedAt' .. sizes'
      BY DEF Types
    <2>3. UNCHANGED <<view, pc, search>> /\ Heard' = Heard
      BY DEF Heard
    <2>4. ~ Asked => \E s \in movedAt' .. sizes' : search'.level = LevelOf(Heard', s)
      BY <2>2, <2>3 DEF SearchInv
    <2> QED BY <2>1, <2>3, <2>4 DEF SearchInv
  <1>4. BufferInv'
    <2>1. Stored' => Stored
      BY QueueFacts DEF Stored, Asked, Heard
    <2>2. \A o : OfLastMove(o) => OfLastMove(o)'
      BY StillOfLastMove DEF Heard, Types
    <2>3. UNCHANGED <<stage, hand, buffer>>
      OBVIOUS
    <2>4. (OfLastMove(hand) => OfLastMove(hand)') /\ (OfLastMove(buffer) => OfLastMove(buffer)')
      BY <2>2, <2>3 DEF OfLastMove, Heard, LevelOf
    <2> QED BY <2>1, <2>3, <2>4 DEF BufferInv
  <1>5. DrawInv'
    <2>1. Stored' => Stored
      BY QueueFacts DEF Stored, Asked, Heard
    <2>2. \A o : OfLastMove(o) => OfLastMove(o)'
      BY StillOfLastMove DEF Heard, Types
    <2>3. UNCHANGED <<stage, hand, drawn, pc>> /\ (rerender' <=> rerender \/ hasUpdates)
      OBVIOUS
    <2>4. (OfLastMove(hand) => OfLastMove(hand)') /\ (OfLastMove(drawn.objects) => OfLastMove(drawn.objects)')
      BY <2>2, <2>3 DEF OfLastMove, Heard, LevelOf
    <2> QED BY <2>1, <2>3, <2>4 DEF DrawInv
  <1>6. SeenInv'
    BY DEF Types, SeenInv
  <1> QED BY <1>1, <1>2, <1>3, <1>4, <1>5, <1>6

LEMMA RedrawKeeps ==
    ASSUME Inv, Redraw
    PROVE  Inv'
  <1> USE DEF Inv, Redraw, IsUpdated, windowVars, debounceVars, loaderVars
  <1>1. Types'
    BY ViewerConstants DEF Types, Areas, LevelOf, Search
  <1>2. CourseInv'
    BY CourseStays DEF Types
  <1>3. SearchInv'
    BY DEF Types, SearchInv, Asked, Heard
  <1>4. BufferInv'
    BY StillOfLastMove DEF Heard, Types, BufferInv, Stored, Asked
  <1>5. DrawInv'
    BY StillOfLastMove DEF Heard, Types, DrawInv, Stored, Asked
  <1>6. SeenInv'
    BY DEF Types, SeenInv
  <1> QED BY <1>1, <1>2, <1>3, <1>4, <1>5, <1>6

(* What is taken is what was found. *)
LEMMA TakeKeeps ==
    ASSUME Inv, Take
    PROVE  Inv'
  <1> USE DEF Inv, Take, IsUpdated, windowVars, debounceVars, loaderVars
  <1>1. Types'
    BY ViewerConstants DEF Types, Areas, LevelOf, Search
  <1>2. CourseInv'
    BY CourseStays DEF Types
  <1>3. SearchInv'
    BY DEF Types, SearchInv, Asked, Heard
  <1>4. BufferInv'
    BY StillOfLastMove DEF Heard, Types, BufferInv, Stored, Asked
  <1>5. DrawInv'
    <2>1. Stored' => Stored
      BY DEF Stored, Asked, Heard
    <2>2. Stored => OfLastMove(buffer)
      BY DEF BufferInv
    <2> QED BY <2>1, <2>2 DEF DrawInv, OfLastMove, Heard
  <1>6. SeenInv'
    BY DEF Types, SeenInv
  <1> QED BY <1>1, <1>2, <1>3, <1>4, <1>5, <1>6

LEMMA PutBackKeeps ==
    ASSUME Inv, PutBack
    PROVE  Inv'
  <1> USE DEF Inv, PutBack, IsUpdated, windowVars, debounceVars, loaderVars
  <1>1. Types'
    BY ViewerConstants DEF Types, Areas, LevelOf, Search
  <1>2. CourseInv'
    BY CourseStays DEF Types
  <1>3. SearchInv'
    BY DEF Types, SearchInv, Asked, Heard
  <1>4. BufferInv'
    BY StillOfLastMove DEF Heard, Types, BufferInv, Stored, Asked
  <1>5. DrawInv'
    BY StillOfLastMove DEF Heard, Types, DrawInv, Stored, Asked
  <1>6. SeenInv'
    BY DEF Types, SeenInv
  <1> QED BY <1>1, <1>2, <1>3, <1>4, <1>5, <1>6

LEMMA PassOnKeeps ==
    ASSUME Inv, PassOn
    PROVE  Inv'
  <1> USE DEF Inv, PassOn, IsUpdated, windowVars, debounceVars, loaderVars
  <1>1. Types'
    <2>1. waiting' \in BOOLEAN
      OBVIOUS
    <2>2. passed' \in Nat
      BY DEF Types
    <2> QED BY <2>1, <2>2 DEF Types
  <1>2. CourseInv'
    BY CourseStays DEF Types
  <1>3. SearchInv'
    BY DEF Types, SearchInv, Asked, Heard
  <1>4. BufferInv'
    BY StillOfLastMove DEF Heard, Types, BufferInv, Stored, Asked
  <1>5. DrawInv'
    BY StillOfLastMove DEF Heard, Types, DrawInv, Stored, Asked
  <1>6. SeenInv'
    BY DEF Types, SeenInv
  <1> QED BY <1>1, <1>2, <1>3, <1>4, <1>5, <1>6

LEMMA ReceiveKeeps ==
    ASSUME Inv, Receive
    PROVE  Inv'
  <1> USE DEF Inv, Receive, IsUpdated, windowVars, debounceVars, loaderVars
  <1>1. Types'
    BY ViewerConstants DEF Types, Areas, LevelOf, Search
  <1>2. CourseInv'
    BY CourseStays DEF Types
  <1>3. SearchInv'
    BY DEF Types, SearchInv, Asked, Heard
  <1>4. BufferInv'
    BY StillOfLastMove DEF Heard, Types, BufferInv, Stored, Asked
  <1>5. DrawInv'
    BY StillOfLastMove DEF Heard, Types, DrawInv, Stored, Asked
  <1>6. SeenInv'
    BY DEF Types, SeenInv
  <1> QED BY <1>1, <1>2, <1>3, <1>4, <1>5, <1>6

(* A search of the area the loader has come to begins. *)
LEMMA TickKeeps ==
    ASSUME Inv, Tick
    PROVE  Inv'
  <1> USE DEF Inv, Tick, IsUpdated, windowVars, debounceVars, loaderVars
  <1>1. Types'
    <2>1. Search(bbox, level) \in Searches
      BY AllHeard, ViewerConstants DEF Types, Areas, LevelOf, Search, Searches
    <2> QED BY <2>1 DEF Types
  <1>2. CourseInv'
    BY CourseStays DEF Types
  <1>3. SearchInv'
    <2>1. CASE passed > 0
      <3>1. search' = Search(bbox, level) /\ level = LevelOf(bbox, size)
        BY <2>1 DEF Types
      <3>2. ~ Asked' => bbox = Heard /\ size \in movedAt .. sizes
        BY AllHeard DEF Asked
      <3> QED BY <3>1, <3>2 DEF SearchInv, Search, Heard
    <2>2. CASE ~ (passed > 0)
      BY <2>2 DEF SearchInv, Asked, Heard
    <2> QED BY <2>1, <2>2
  <1>4. BufferInv'
    <2>1. Stored' => Stored
      <3>1. CASE passed > 0
        BY <3>1 DEF Stored, Search, Heard
      <3>2. CASE ~ (passed > 0)
        BY <3>2 DEF Stored, Asked, Heard
      <3> QED BY <3>1, <3>2
    <2> QED BY <2>1 DEF BufferInv, OfLastMove, Heard
  <1>5. DrawInv'
    <2>1. Stored' => Stored /\ pc # "flag"
      <3>1. CASE passed > 0
        BY <3>1 DEF Stored, Search, Heard
      <3>2. CASE ~ (passed > 0)
        BY <3>2 DEF Stored, Asked, Heard
      <3> QED BY <3>1, <3>2
    <2> QED BY <2>1 DEF DrawInv, OfLastMove, Heard
  <1>6. SeenInv'
    BY DEF Types, SeenInv
  <1> QED BY <1>1, <1>2, <1>3, <1>4, <1>5, <1>6

LEMMA LoadKeeps ==
    ASSUME Inv, Load
    PROVE  Inv'
  <1> USE DEF Inv, Load, IsUpdated, windowVars, debounceVars, loaderVars
  <1>1. Types'
    <2>1. search' \in Searches
      <3>1. /\ search \in Searches
            /\ search' = IF search.left > 0 /\ ~ search.over
                         THEN [search EXCEPT !.left = search.left - 1] ELSE search
        BY DEF Types
      <3>2. CASE search.left > 0 /\ ~ search.over
        <4>1. search' = [search EXCEPT !.left = search.left - 1] /\ search.left - 1 \in Nat
          BY <3>1, <3>2 DEF Searches
        <4> HIDE DEF Inv, Load
        <4> QED BY <3>1, <4>1 DEF Searches
      <3>3. CASE ~ (search.left > 0 /\ ~ search.over)
        BY <3>1, <3>3
      <3> QED BY <3>2, <3>3
    <2> QED BY <2>1 DEF Types
  <1>2. CourseInv'
    BY CourseStays DEF Types
  <1>3. SearchInv'
    BY DEF Types, Searches, SearchInv, Asked, Heard
  <1>7. Stored' => Stored
    <2>1. search'.over = search.over
      BY DEF Types, Searches
    <2> QED BY <2>1 DEF Stored, Asked, Heard
  <1>4. BufferInv'
    BY <1>7 DEF BufferInv, OfLastMove, Heard
  <1>5. DrawInv'
    BY <1>7 DEF DrawInv, OfLastMove, Heard
  <1>6. SeenInv'
    BY DEF Types, SeenInv
  <1> QED BY <1>1, <1>2, <1>3, <1>4, <1>5, <1>6

(* What the search has found is in the buffer. *)
LEMMA StoreKeeps ==
    ASSUME Inv, Store
    PROVE  Inv'
  <1> USE DEF Inv, Store, IsUpdated, windowVars, debounceVars, loaderVars
  <1>1. Types'
    BY ViewerConstants DEF Types, Areas, LevelOf, Search
  <1>2. CourseInv'
    BY CourseStays DEF Types
  <1>3. SearchInv'
    BY DEF Types, SearchInv, Asked, Heard
  <1>4. BufferInv'
    <2>1. SUFFICES ASSUME Stored' PROVE OfLastMove(buffer)' /\ buffer' # Nothing
      BY DEF BufferInv
    <2>2. ~ Asked /\ Heard \notin Bare
      BY <2>1 DEF Stored, Asked, Heard
    <2>3. PICK s \in movedAt .. sizes : search.area = Heard /\ search.level = LevelOf(Heard, s)
      BY <2>2 DEF SearchInv
    <2>4. buffer' = <<Heard, LevelOf(Heard, s)>>
      BY <2>2, <2>3 DEF Found
    <2>5. OfLastMove(buffer')
      BY <2>4 DEF OfLastMove
    <2>6. buffer' # Nothing
      BY <2>5, SomethingFound
    <2>7. OfLastMove(buffer)' <=> OfLastMove(buffer')
      BY DEF OfLastMove, Heard, LevelOf
    <2> QED BY <2>5, <2>6, <2>7
  <1>5. DrawInv'
    BY StillOfLastMove DEF Heard, Types, DrawInv, Stored, Asked
  <1>6. SeenInv'
    BY DEF Types, SeenInv
  <1> QED BY <1>1, <1>2, <1>3, <1>4, <1>5, <1>6

(* And the window is told. *)
LEMMA FlagKeeps ==
    ASSUME Inv, Flag
    PROVE  Inv'
  <1> USE DEF Inv, Flag, IsUpdated, windowVars, debounceVars, loaderVars
  <1>1. Types'
    BY DEF Types, Searches
  <1>2. CourseInv'
    BY CourseStays DEF Types
  <1>3. SearchInv'
    BY DEF Types, SearchInv, Asked, Heard
  <1>4. BufferInv'
    BY StillOfLastMove DEF Heard, Types, BufferInv, Stored, Asked
  <1>5. DrawInv'
    BY StillOfLastMove DEF Heard, Types, DrawInv, Stored, Asked
  <1>6. SeenInv'
    BY DEF Types, SeenInv
  <1> QED BY <1>1, <1>2, <1>3, <1>4, <1>5, <1>6

(* The loader forgets no move: it becomes a tick. *)
LEMMA StillAsked ==
    ASSUME Types, Message
    PROVE  Asked => Asked'
  <1> USE DEF Message, debounceVars
  <1>1. CASE messages = <<>>
    BY <1>1 DEF Asked
  <1>2. CASE messages # <<>> /\ Head(messages) # "resize"
    BY <1>2 DEF Asked, Types
  <1>3. CASE messages # <<>> /\ Head(messages) = "resize"
    <2>1. ASSUME NEW i \in DOMAIN messages, messages[i] # "resize"
          PROVE  i - 1 \in DOMAIN messages' /\ messages'[i - 1] # "resize"
      <3>1. /\ messages' = Tail(messages) /\ Head(messages) = messages[1]
            /\ Len(messages) \in Nat /\ i \in 1 .. Len(messages)
            /\ Len(Tail(messages)) = Len(messages) - 1
            /\ \A j \in 1 .. Len(messages) - 1 : Tail(messages)[j] = messages[j + 1]
            /\ DOMAIN Tail(messages) = 1 .. Len(Tail(messages))
        BY <1>3, QueueFacts
      <3>2. i # 1
        BY <1>3, <2>1, <3>1
      <3>3. i - 1 \in 1 .. Len(messages) - 1 /\ (i - 1) + 1 = i
        BY <3>1, <3>2
      <3> QED BY <2>1, <3>1, <3>3
    <2> QED BY <1>3, <2>1 DEF Asked
  <1> QED BY <1>1, <1>2, <1>3

LEMMA MessageKeeps ==
    ASSUME Inv, Message
    PROVE  Inv'
  <1> USE DEF Inv, Message, IsUpdated, windowVars, debounceVars, loaderVars
  <1>1. Types'
    <2>1. CASE messages = <<>>
      BY <2>1 DEF Types
    <2>2. CASE messages # <<>>
      <3>1. messages' \in Seq({"move", "astray", "resize"})
        BY <2>2, QueueFacts
      <3>2. bbox' \in Nat \X Nat /\ size' \in Nat /\ ticks' \in Nat /\ level' = LevelOf(bbox', size')
        <4>1. bbox \in Nat \X Nat /\ size \in Nat /\ ticks \in Nat
          BY DEF Types
        <4>2. \/ bbox' = Moved(bbox, Head(messages)) /\ ticks' = ticks + 1 /\ size' = size
              \/ size' = size + 1 /\ bbox' = bbox /\ ticks' = ticks
          BY <2>2
        <4>3. Moved(bbox, Head(messages)) \in Nat \X Nat
          BY <4>1 DEF Moved
        <4>4. level' = LevelOf(bbox', size')
          BY <2>2
        <4> QED BY <4>1, <4>2, <4>3, <4>4
      <3> QED BY <3>1, <3>2 DEF Types
    <2> QED BY <2>1, <2>2
  <1>2. CourseInv'
    BY CourseStays, CourseGoesOn DEF Types
  <1>3. SearchInv'
    BY StillAsked DEF SearchInv, Heard
  <1>4. BufferInv'
    <2>1. Stored' => Stored
      BY StillAsked DEF Stored, Heard
    <2> QED BY <2>1 DEF BufferInv, OfLastMove, Heard
  <1>5. DrawInv'
    <2>1. Stored' => Stored
      BY StillAsked DEF Stored, Heard
    <2> QED BY <2>1 DEF DrawInv, OfLastMove, Heard
  <1>6. SeenInv'
    BY DEF Types, SeenInv
  <1> QED BY <1>1, <1>2, <1>3, <1>4, <1>5, <1>6

LEMMA InitKeeps == Init => Inv
  <1> SUFFICES ASSUME Init PROVE Inv
    OBVIOUS
  <1> USE DEF Init
  <1>1. Types
    <2>1. /\ Search(bbox, level) \in Searches
          /\ view \in 0 .. MaxMoves /\ astray \in 0 .. view
      <3>1. <<0, 0>> \in Areas
        BY ViewerConstants DEF Areas
      <3> QED BY <3>1, ViewerConstants DEF Search, Searches, LevelOf
    <2>2. messages \in Seq({"move", "astray", "resize"})
      OBVIOUS
    <2>3. sizes \in Nat /\ movedAt \in 0 .. sizes
      OBVIOUS
    <2>4. rerender \in BOOLEAN /\ hasUpdates \in BOOLEAN /\ waiting \in BOOLEAN
      OBVIOUS
    <2>5. /\ stage \in {"idle", "take", "draw"} /\ ticks \in Nat /\ passed \in Nat
          /\ pc \in {"tick", "load", "store", "flag", "message"}
          /\ bbox \in Nat \X Nat /\ size \in Nat /\ level = LevelOf(bbox, size)
      OBVIOUS
    <2>6. search \in Searches
      BY <2>1
    <2> HIDE DEF Init
    <2> QED BY <2>1, <2>2, <2>3, <2>4, <2>5, <2>6 DEF Types
  <1>2. CourseInv
    <2> DEFINE a == [i \in 1 .. 2 |-> <<0, 0>>]
               s == [i \in 1 .. 2 |-> IF i = 1 THEN 0 ELSE 1]
    <2>1. Len(messages) = 1 /\ messages[1] = "resize"
      OBVIOUS
    <2>2. /\ a \in [1 .. 2 -> Nat \X Nat] /\ a[1] = <<0, 0>> /\ a[2] = <<0, 0>>
          /\ s \in [1 .. 2 -> Nat] /\ s[1] = 0 /\ s[2] = 1
      OBVIOUS
    <2>3. view = 0 /\ Heard = <<0, 0>> /\ sizes = 1 /\ movedAt = 0 /\ bbox = <<0, 0>> /\ size = 0
      BY DEF Heard
    <2> HIDE DEF a, s, Init
    <2>4. Course(a, s)
      BY <2>1, <2>2, <2>3 DEF Course, InView
    <2> QED BY <2>4 DEF CourseInv
  <1>3. SearchInv
    BY DEF SearchInv, Search, Heard, Asked
  <1>4. BufferInv /\ DrawInv
    BY DEF BufferInv, DrawInv, Stored, Search, Heard
  <1>5. SeenInv
    BY DEF SeenInv
  <1> QED BY <1>1, <1>2, <1>3, <1>4, <1>5 DEF Inv

LEMMA NextKeeps == Inv /\ [Next]_vars => Inv'
  <1> SUFFICES ASSUME Inv, [Next]_vars PROVE Inv'
    OBVIOUS
  <1>1. CASE Next
    <2>1. ASSUME Move PROVE Inv'
      BY <2>1, MoveKeeps DEF Move
    <2>2. ASSUME Pinch PROVE Inv'
      BY <2>2, MoveKeeps DEF Pinch
    <2> QED
      BY <1>1, <2>1, <2>2, ResizeKeeps, RedrawKeeps, TakeKeeps, PutBackKeeps, PassOnKeeps,
         ReceiveKeeps, TickKeeps, LoadKeeps, StoreKeeps, FlagKeeps, MessageKeeps
         DEF Next, Window, Debouncer, Loader
  <1>2. CASE UNCHANGED vars
    <2> USE <1>2 DEF vars, windowVars, debounceVars, loaderVars, Inv
    <2>1. Types' /\ CourseInv'
      BY CourseStays DEF Types
    <2>2. (\A o : OfLastMove(o)' <=> OfLastMove(o)) /\ (Asked' <=> Asked)
      BY DEF OfLastMove, Heard, LevelOf, Asked
    <2>3. SearchInv' /\ SeenInv'
      BY <2>2 DEF SearchInv, SeenInv, Heard
    <2>4. BufferInv' /\ DrawInv'
      BY <2>2 DEF BufferInv, DrawInv, Stored, OfLastMove, Heard
    <2> QED BY <2>1, <2>3, <2>4
  <1> QED BY <1>1, <1>2

(* However moves, messages, ticks, searches and redraws of the three       *)
(* threads come between one another, when nothing is on its way any more   *)
(* the picture is that of the area that is seen, with the objects of the   *)
(* area that all moves together lead the loader to, which is the same one  *)
(* unless a pinch has led it astray: no move is lost in the debouncer, and *)
(* what an older search found is never put back over what a newer one has. *)
THEOREM QuietShowsLastArea == Spec => []QuietIsRight
  <1>1. Inv => QuietIsRight
    <2> SUFFICES ASSUME Inv, Quiet
                 PROVE  drawn.view = view /\ (Heard \notin Bare => OfLastMove(drawn.objects))
      BY DEF QuietIsRight
    <2>1. ~ Asked
      BY DEF Quiet, Asked, Inv, Types
    <2>2. drawn.view = view
      BY DEF Quiet, Inv, SeenInv
    <2>3. ASSUME Heard \notin Bare PROVE OfLastMove(drawn.objects)
      <3>1. Stored
        BY <2>1, <2>3 DEF Quiet, Stored, Heard
      <3>2. pc # "flag"
        BY DEF Quiet, Inv, SearchInv
      <3> QED BY <3>1, <3>2 DEF Quiet, Inv, DrawInv
    <2> QED BY <2>2, <2>3
  <1>2. Spec => []Inv
    BY InitKeeps, NextKeeps, PTL DEF Spec
  <1> QED BY <1>1, <1>2, PTL
=============================================================================
