--------------------------- MODULE RefinementProofs ---------------------------
(***************************************************************************)
(* The detailed specifications implement the abstract ones.                *)
(*                                                                         *)
(* The two stacks of a tab's history are a cursor on a trail, for every    *)
(* set of places and any number of visits (TabHistory implements           *)
(* NavigationTrail).                                                       *)
(*                                                                         *)
(* The library file only grows, for every number of windows, edits,        *)
(* attempts and failures (LibrarySave implements LibraryFile), and a       *)
(* window that closes leaves its edits in it. A save replaces the file by  *)
(* the copy it holds. That nothing is taken away follows from two facts.   *)
(* Under the lock, the file is the library that the worker expects, from   *)
(* the comparison to the rename (LockInv). And copies are handed on in the *)
(* order in which they were made: what is expected is in the copy being    *)
(* saved, which is in the copy in the channel, in the one that waits for   *)
(* it, and in the library (OrderInv).  Since the file only grows, the last *)
(* copy of a closing window is on its way or has arrived (FlushInv).       *)
(***************************************************************************)
EXTENDS TabHistory, LibrarySave, TLAPS

------------------------------------------------------------------------------
\* The history of a tab: sequences.

\* Two sequences of one length with the same elements are the same.
LEMMA SameElements ==
  ASSUME NEW T, NEW s \in Seq(T), NEW u \in Seq(T),
         Len(s) = Len(u), \A i \in 1..Len(s) : s[i] = u[i]
  PROVE  s = u
  OBVIOUS

\* The elements of two sequences put together.
LEMMA JoinedElements ==
  ASSUME NEW T, NEW s \in Seq(T), NEW u \in Seq(T)
  PROVE  /\ s \o u \in Seq(T) /\ Len(s \o u) = Len(s) + Len(u)
         /\ \A i \in 1..Len(s) : (s \o u)[i] = s[i]
         /\ \A i \in 1..Len(u) : (s \o u)[Len(s) + i] = u[i]
<1>1. s \o u \in Seq(T) /\ Len(s \o u) = Len(s) + Len(u)
  OBVIOUS
<1>2. \A i \in 1..Len(s) : (s \o u)[i] = s[i]
  OBVIOUS
<1>3. \A i \in 1..Len(u) : (s \o u)[Len(s) + i] = u[i]
  OBVIOUS
<1> QED
  BY <1>1, <1>2, <1>3

\* The elements of a stack without its top, and of one with a new top.
LEMMA StackElements ==
  ASSUME NEW T, NEW s \in Seq(T), NEW e \in T
  PROVE  /\ Append(s, e) \in Seq(T) /\ Len(Append(s, e)) = Len(s) + 1
         /\ \A i \in 1..Len(s) : Append(s, e)[i] = s[i]
         /\ Append(s, e)[Len(s) + 1] = e
         /\ s # <<>> => /\ Top(s) \in T /\ Pop(s) \in Seq(T)
                        /\ Len(s) > 0 /\ Len(Pop(s)) = Len(s) - 1
                        /\ \A i \in 1..Len(s) - 1 : Pop(s)[i] = s[i]
<1>1. s # <<>> => Len(s) > 0
  OBVIOUS
<1>2. ASSUME Len(s) > 0
      PROVE  Pop(s) \in Seq(T) /\ Len(Pop(s)) = Len(s) - 1
             /\ \A i \in 1..Len(s) - 1 : Pop(s)[i] = s[i]
  <2>1. Len(s) - 1 \in Nat /\ \A i \in 1..Len(s) - 1 : s[i] \in T
    BY <1>2
  <2>2. Pop(s) = [i \in 1..Len(s) - 1 |-> s[i]]
    BY <1>2 DEF Pop
  <2>3. [i \in 1..Len(s) - 1 |-> s[i]] \in [1..Len(s) - 1 -> T]
    BY <2>1
  <2> QED
    BY <2>1, <2>2, <2>3
<1>3. ASSUME Len(s) > 0
      PROVE  Top(s) \in T
  BY <1>3 DEF Top
<1> QED
  BY <1>1, <1>2, <1>3

------------------------------------------------------------------------------
Ahead(h) == [i \in 1..Len(h.forward) |-> h.forward[Len(h.forward) - i + 1]]

\* The trail place by place: those behind, the current one, those ahead.
LEMMA TrailElements ==
  ASSUME NEW h \in History(Location)
  PROVE  /\ Trail(h) \in Seq(Location)
         /\ Len(Trail(h)) = Len(h.back) + 1 + Len(h.forward)
         /\ \A i \in 1..Len(h.back) : Trail(h)[i] = h.back[i]
         /\ Trail(h)[Len(h.back) + 1] = h.current
         /\ \A i \in 1..Len(h.forward) :
              Trail(h)[Len(h.back) + 1 + i] = h.forward[Len(h.forward) - i + 1]
<1>1. h.back \in Seq(Location) /\ h.forward \in Seq(Location) /\ h.current \in Location
  BY DEF History
<1>2. Ahead(h) \in Seq(Location) /\ Len(Ahead(h)) = Len(h.forward)
      /\ \A i \in 1..Len(h.forward) : Ahead(h)[i] = h.forward[Len(h.forward) - i + 1]
  <2>1. \A i \in 1..Len(h.forward) : h.forward[Len(h.forward) - i + 1] \in Location
    BY <1>1
  <2>2. Ahead(h) \in [1..Len(h.forward) -> Location]
    BY <2>1 DEF Ahead
  <2>3. Len(h.forward) \in Nat
    BY <1>1
  <2> QED
    BY <2>2, <2>3 DEF Ahead
<1> DEFINE upTo == Append(h.back, h.current)
<1>3. upTo \in Seq(Location) /\ Len(upTo) = Len(h.back) + 1 /\ upTo[Len(h.back) + 1] = h.current
      /\ \A i \in 1..Len(h.back) : upTo[i] = h.back[i]
  BY <1>1, StackElements
<1>4. Trail(h) = upTo \o Ahead(h)
  <2>1. h.back \o <<h.current>> = Append(h.back, h.current)
    BY <1>1
  <2> QED
    BY <2>1 DEF Trail, Ahead
<1> HIDE DEF upTo
<1>5. /\ Trail(h) \in Seq(Location)
      /\ Len(Trail(h)) = Len(upTo) + Len(Ahead(h))
      /\ \A i \in 1..Len(upTo) : Trail(h)[i] = upTo[i]
      /\ \A i \in 1..Len(Ahead(h)) : Trail(h)[Len(upTo) + i] = Ahead(h)[i]
  <2> DEFINE a == Ahead(h)
  <2>1. a \in Seq(Location) /\ upTo \in Seq(Location)
    BY <1>2, <1>3
  <2>2. Trail(h) = upTo \o a
    BY <1>4
  <2> HIDE DEF a
  <2>3. /\ upTo \o a \in Seq(Location) /\ Len(upTo \o a) = Len(upTo) + Len(a)
        /\ \A i \in 1..Len(upTo) : (upTo \o a)[i] = upTo[i]
        /\ \A i \in 1..Len(a) : (upTo \o a)[Len(upTo) + i] = a[i]
    BY <2>1, JoinedElements
  <2>4. /\ Trail(h) \in Seq(Location) /\ Len(Trail(h)) = Len(upTo) + Len(a)
        /\ \A i \in 1..Len(upTo) : Trail(h)[i] = upTo[i]
        /\ \A i \in 1..Len(a) : Trail(h)[Len(upTo) + i] = a[i]
    BY <2>2, <2>3
  <2> QED
    BY <2>4 DEF a
<1>6. Len(h.back) \in Nat /\ Len(h.forward) \in Nat
  BY <1>1
<1>7. \A i \in 1..Len(h.back) : Trail(h)[i] = h.back[i]
  BY <1>3, <1>5, <1>6
<1>8. Trail(h)[Len(h.back) + 1] = h.current
  BY <1>3, <1>5, <1>6
<1>9. \A i \in 1..Len(h.forward) :
        Trail(h)[Len(h.back) + 1 + i] = h.forward[Len(h.forward) - i + 1]
  BY <1>2, <1>3, <1>5
<1>10. Len(Trail(h)) = Len(h.back) + 1 + Len(h.forward)
  BY <1>2, <1>3, <1>5
<1> QED
  BY <1>5, <1>7, <1>8, <1>9, <1>10

------------------------------------------------------------------------------
\* A visit cuts the trail after the cursor and adds one place.
LEMMA VisitTrail ==
  ASSUME NEW h \in History(Location), NEW l \in Location
  PROVE  LET n == NavigateTo(h, l)
         IN  /\ n \in History(Location)
             /\ Trail(n) = Append(SubSeq(Trail(h), 1, Cursor(h)), l)
             /\ Cursor(n) = Cursor(h) + 1
<1> DEFINE n == NavigateTo(h, l)
           t == Trail(h)
           c == Cursor(h)
           v == Append(SubSeq(t, 1, c), l)
<1>1. h.back \in Seq(Location) /\ h.forward \in Seq(Location) /\ h.current \in Location
  BY DEF History
<1>2. n.back = Append(h.back, h.current) /\ n.current = l /\ n.forward = <<>>
      /\ n \in History(Location)
  BY <1>1 DEF NavigateTo, History
<1>3. c = Len(h.back) + 1 /\ c \in Nat /\ Len(n.back) = c /\ Cursor(n) = c + 1
      /\ Len(h.forward) \in Nat /\ Len(n.forward) = 0
  BY <1>1, <1>2 DEF Cursor
<1>4. /\ t \in Seq(Location) /\ c <= Len(t)
      /\ \A i \in 1..c : t[i] = n.back[i]
  <2>1. t \in Seq(Location) /\ Len(t) = Len(h.back) + 1 + Len(h.forward)
        /\ (\A i \in 1..Len(h.back) : t[i] = h.back[i]) /\ t[Len(h.back) + 1] = h.current
    BY TrailElements
  <2>2. (\A i \in 1..Len(h.back) : n.back[i] = h.back[i])
        /\ n.back[Len(h.back) + 1] = h.current
    BY <1>1, <1>2, StackElements
  <2>3. Len(h.back) \in Nat /\ c = Len(h.back) + 1
    BY <1>1 DEF Cursor
  <2> HIDE DEF n, t, c
  <2>4. \A i \in 1..c : i \in 1..Len(h.back) \/ i = Len(h.back) + 1
    BY <2>3
  <2>5. c <= Len(t)
    <3>1. Len(t) = c + Len(h.forward) /\ Len(h.forward) \in Nat
      BY <1>3, <2>1, <2>3
    <3>2. c \in Nat
      BY <1>3
    <3> HIDE DEF v
    <3> QED
      BY <3>1, <3>2
  <2> QED
    BY <2>1, <2>2, <2>4, <2>5
<1>5. Trail(n) \in Seq(Location) /\ Len(Trail(n)) = c + 1
      /\ (\A i \in 1..c : Trail(n)[i] = n.back[i]) /\ Trail(n)[c + 1] = l
  <2>1. /\ Trail(n) \in Seq(Location) /\ Len(Trail(n)) = Len(n.back) + 1 + Len(n.forward)
        /\ (\A i \in 1..Len(n.back) : Trail(n)[i] = n.back[i])
        /\ Trail(n)[Len(n.back) + 1] = n.current
    BY <1>2, TrailElements
  <2> HIDE DEF n, t, c
  <2> QED
    BY <1>2, <1>3, <2>1
<1> HIDE DEF n, t, c
<1>6. SubSeq(t, 1, c) \in Seq(Location) /\ Len(SubSeq(t, 1, c)) = c
      /\ \A i \in 1..c : SubSeq(t, 1, c)[i] = t[i]
  <2>1. \A i \in 1..c : t[i] \in Location
    BY <1>3, <1>4
  <2>2. SubSeq(t, 1, c) = [i \in 1..c |-> t[i]]
    BY <1>3, <1>4
  <2>3. [i \in 1..c |-> t[i]] \in [1..c -> Location]
    BY <2>1
  <2> QED
    BY <1>3, <2>2, <2>3
<1>7. v \in Seq(Location) /\ Len(v) = c + 1 /\ v[c + 1] = l
      /\ \A i \in 1..c : v[i] = t[i]
  BY <1>6, StackElements
<1> HIDE DEF v
<1>8. \A i \in 1..c + 1 : Trail(n)[i] = v[i]
  BY <1>3, <1>4, <1>5, <1>7
<1>9. Trail(n) = v
  BY <1>5, <1>7, <1>8, SameElements
<1> QED
  BY <1>2, <1>3, <1>9 DEF n, t, c, v

\* Going back moves one place from behind the cursor to ahead of it.
LEMMA BackTrail ==
  ASSUME NEW h \in History(Location), CanGoBack(h)
  PROVE  /\ GoBack(h) \in History(Location)
         /\ Trail(GoBack(h)) = Trail(h)
         /\ Cursor(h) > 1 /\ Cursor(GoBack(h)) = Cursor(h) - 1
<1> DEFINE n == GoBack(h)
           b == Len(h.back)
           f == Len(h.forward)
<1>1. h.back \in Seq(Location) /\ h.forward \in Seq(Location) /\ h.current \in Location
      /\ h.back # <<>>
  BY DEF History, CanGoBack
<1>2. n.back = Pop(h.back) /\ n.current = Top(h.back) /\ n.forward = Append(h.forward, h.current)
  BY DEF GoBack
<1>3. /\ Top(h.back) \in Location /\ Pop(h.back) \in Seq(Location)
      /\ b > 0 /\ Len(Pop(h.back)) = b - 1
      /\ \A i \in 1..b - 1 : Pop(h.back)[i] = h.back[i]
  BY <1>1, StackElements
<1>4. Append(h.forward, h.current) \in Seq(Location)
      /\ Len(Append(h.forward, h.current)) = f + 1
      /\ (\A i \in 1..f : Append(h.forward, h.current)[i] = h.forward[i])
      /\ Append(h.forward, h.current)[f + 1] = h.current
  BY <1>1, StackElements
<1>5. n \in History(Location)
  BY <1>3, <1>4 DEF GoBack, History
<1>6. b \in Nat /\ f \in Nat /\ Top(h.back) = h.back[b]
  BY <1>1 DEF Top
<1>7. Trail(h) \in Seq(Location) /\ Len(Trail(h)) = b + 1 + f
      /\ (\A i \in 1..b : Trail(h)[i] = h.back[i])
      /\ Trail(h)[b + 1] = h.current
      /\ \A i \in 1..f : Trail(h)[b + 1 + i] = h.forward[f - i + 1]
  BY TrailElements
<1>8. Trail(n) \in Seq(Location) /\ Len(Trail(n)) = b + f + 1
      /\ (\A i \in 1..b - 1 : Trail(n)[i] = h.back[i])
      /\ Trail(n)[b] = h.back[b]
      /\ \A i \in 1..f + 1 : Trail(n)[b + i] = Append(h.forward, h.current)[f + 1 - i + 1]
  <2>1. /\ Trail(n) \in Seq(Location)
        /\ Len(Trail(n)) = Len(n.back) + 1 + Len(n.forward)
        /\ \A i \in 1..Len(n.back) : Trail(n)[i] = n.back[i]
        /\ Trail(n)[Len(n.back) + 1] = n.current
        /\ \A i \in 1..Len(n.forward) :
             Trail(n)[Len(n.back) + 1 + i] = n.forward[Len(n.forward) - i + 1]
    BY <1>5, TrailElements
  <2>2. Len(n.back) = b - 1 /\ Len(n.forward) = f + 1 /\ b - 1 + 1 = b
        /\ b - 1 + 1 + (f + 1) = b + f + 1
    <3> HIDE DEF n, b, f
    <3>1. Len(n.back) = b - 1 /\ Len(n.forward) = f + 1
      BY <1>2, <1>3, <1>4
    <3> QED
      BY <1>6, <3>1
  <2> HIDE DEF n, b, f
  <2>3. \A i \in 1..b - 1 : Trail(n)[i] = h.back[i]
    BY <1>2, <1>3, <2>1, <2>2
  <2>4. Trail(n)[b] = h.back[b]
    BY <1>2, <1>6, <2>1, <2>2
  <2>5. \A i \in 1..f + 1 : Trail(n)[b + i] = Append(h.forward, h.current)[f + 1 - i + 1]
    <3> DEFINE N == n.forward
    <3>1. \A i \in 1..f + 1 : Trail(n)[b + i] = N[f + 1 - i + 1]
      <4> HIDE DEF N
      <4>1. \A i \in 1..Len(N) : Trail(n)[Len(n.back) + 1 + i] = N[Len(N) - i + 1]
        BY <2>1 DEF N
      <4>2. Len(N) = f + 1 /\ Len(n.back) + 1 = b
        BY <2>2 DEF N
      <4> QED
        BY <1>6, <4>1, <4>2
    <3> QED
      BY <1>2, <3>1
  <2> QED
    BY <2>1, <2>2, <2>3, <2>4, <2>5
<1> HIDE DEF n, b, f
<1>9. \A i \in 1..b + f + 1 : Trail(n)[i] = Trail(h)[i]
  <2> SUFFICES ASSUME NEW i \in 1..b + f + 1
               PROVE  Trail(n)[i] = Trail(h)[i]
    OBVIOUS
  <2>1. CASE i \in 1..b
    BY <1>6, <1>7, <1>8, <2>1
  <2>2. CASE i = b + 1
    <3>1. Trail(n)[b + 1] = Append(h.forward, h.current)[f + 1 - 1 + 1]
      <4>1. 1 \in 1..f + 1
        BY <1>6
      <4> QED
        BY <1>8, <4>1
    <3>2. f + 1 - 1 + 1 = f + 1
      BY <1>6
    <3> QED
      BY <1>4, <1>7, <2>2, <3>1, <3>2
  <2>3. CASE i \in b + 2..b + f + 1
    <3> DEFINE k == i - b - 1
    <3>1. k \in 1..f /\ k + 1 \in 1..f + 1 /\ i = b + (k + 1) /\ i = b + 1 + k
          /\ f + 1 - (k + 1) + 1 = f - k + 1 /\ f - k + 1 \in 1..f
      BY <1>6, <2>3
    <3> HIDE DEF k
    <3>2. Trail(n)[b + (k + 1)] = Append(h.forward, h.current)[f - k + 1]
      BY <1>8, <3>1
    <3>3. Trail(h)[b + 1 + k] = h.forward[f - k + 1]
      BY <1>7, <3>1
    <3> QED
      BY <1>4, <3>1, <3>2, <3>3
  <2> QED
    BY <1>6, <2>1, <2>2, <2>3
<1>10. Len(Trail(n)) = Len(Trail(h)) /\ Len(Trail(n)) = b + f + 1
  BY <1>6, <1>7, <1>8
<1>11. Trail(n) = Trail(h)
  BY <1>7, <1>8, <1>9, <1>10, SameElements
<1>12. Cursor(h) = b + 1 /\ Cursor(n) = b - 1 + 1
  BY <1>2, <1>3 DEF Cursor, b
<1>13. Cursor(h) > 1 /\ Cursor(n) = Cursor(h) - 1
  BY <1>3, <1>6, <1>12
<1> QED
  BY <1>5, <1>11, <1>13 DEF n

\* Going back undoes going forward, so what holds of one holds of the other.
LEMMA BackUndoesForward ==
  ASSUME NEW h \in History(Location), CanGoForward(h)
  PROVE  /\ GoForward(h) \in History(Location) /\ CanGoBack(GoForward(h))
         /\ GoBack(GoForward(h)) = h
<1> DEFINE n == GoForward(h)
<1>1. h.back \in Seq(Location) /\ h.forward \in Seq(Location) /\ h.current \in Location
      /\ h.forward # <<>> /\ h = [back |-> h.back, current |-> h.current, forward |-> h.forward]
  BY DEF History, CanGoForward
<1>2. n = [back |-> Append(h.back, h.current), current |-> Top(h.forward),
           forward |-> Pop(h.forward)]
  BY DEF GoForward
<1>3. n \in History(Location)
  BY <1>1, <1>2, StackElements DEF History
<1>4. CanGoBack(n)
  BY <1>1, <1>2 DEF CanGoBack
<1>5. Top(Append(h.back, h.current)) = h.current /\ Pop(Append(h.back, h.current)) = h.back
  <2> DEFINE a == Append(h.back, h.current)
  <2>1. a \in Seq(Location) /\ Len(a) = Len(h.back) + 1 /\ a[Len(h.back) + 1] = h.current
        /\ \A i \in 1..Len(h.back) : a[i] = h.back[i]
    BY <1>1, StackElements
  <2> HIDE DEF a
  <2>2. Len(h.back) \in Nat /\ a # <<>>
    BY <1>1, <2>1
  <2>3. Pop(a) \in Seq(Location) /\ Len(Pop(a)) = Len(h.back)
        /\ \A i \in 1..Len(h.back) : Pop(a)[i] = h.back[i]
    <3>1. Pop(a) \in Seq(Location) /\ Len(Pop(a)) = Len(a) - 1
          /\ \A i \in 1..Len(a) - 1 : Pop(a)[i] = a[i]
      BY <1>1, <2>1, <2>2, StackElements
    <3>2. Len(a) - 1 = Len(h.back)
      BY <2>1, <2>2
    <3> QED
      BY <2>1, <3>1, <3>2
  <2>4. Pop(a) = h.back
    BY <1>1, <2>3, SameElements
  <2> QED
    BY <2>1, <2>4 DEF a, Top
<1>6. Append(Pop(h.forward), Top(h.forward)) = h.forward
  <2> DEFINE p == Pop(h.forward)
             e == Top(h.forward)
             f == h.forward
  <2>1. p \in Seq(Location) /\ e \in Location /\ Len(f) > 0 /\ Len(p) = Len(f) - 1
        /\ (\A i \in 1..Len(f) - 1 : p[i] = f[i]) /\ e = f[Len(f)] /\ f \in Seq(Location)
    BY <1>1, StackElements DEF Top
  <2> HIDE DEF p, e, f
  <2>2. Append(p, e) \in Seq(Location) /\ Len(Append(p, e)) = Len(p) + 1
        /\ (\A i \in 1..Len(p) : Append(p, e)[i] = p[i]) /\ Append(p, e)[Len(p) + 1] = e
    BY <2>1, StackElements
  <2>3. Len(p) + 1 = Len(f) /\ Len(f) \in Nat
    BY <2>1
  <2>4. \A i \in 1..Len(f) : Append(p, e)[i] = f[i]
    BY <2>1, <2>2, <2>3
  <2>5. Append(p, e) = f
    BY <2>1, <2>2, <2>3, <2>4, SameElements
  <2> QED
    BY <2>5 DEF p, e, f
<1>7. GoBack(n) = [back |-> Pop(n.back), current |-> Top(n.back),
                   forward |-> Append(n.forward, n.current)]
  BY <1>4 DEF GoBack
<1>8. GoBack(n) = h
  BY <1>1, <1>2, <1>5, <1>6, <1>7
<1> QED
  BY <1>3, <1>4, <1>8

\* Going forward moves the cursor one place ahead on the same trail.
LEMMA ForwardTrail ==
  ASSUME NEW h \in History(Location), CanGoForward(h)
  PROVE  /\ GoForward(h) \in History(Location)
         /\ Trail(GoForward(h)) = Trail(h)
         /\ Cursor(h) < Len(Trail(h)) /\ Cursor(GoForward(h)) = Cursor(h) + 1
<1> DEFINE n == GoForward(h)
<1>1. n \in History(Location) /\ CanGoBack(n) /\ GoBack(n) = h
  BY BackUndoesForward
<1> HIDE DEF n
<1>2. Trail(h) = Trail(n) /\ Cursor(h) = Cursor(n) - 1
  BY <1>1, BackTrail
<1>3. Cursor(h) \in Nat /\ Cursor(n) \in Nat
  BY <1>1 DEF Cursor, History
<1>4. Cursor(h) < Len(Trail(h))
  <2>1. Len(Trail(h)) = Len(h.back) + 1 + Len(h.forward)
    BY TrailElements
  <2>2. Len(h.back) \in Nat /\ Len(h.forward) \in Nat /\ Len(h.forward) > 0
    <3>1. h.back \in Seq(Location) /\ h.forward \in Seq(Location) /\ h.forward # <<>>
      BY DEF CanGoForward, History
    <3> QED
      BY <3>1
  <2>3. Len(h.back) + 1 < Len(h.back) + 1 + Len(h.forward)
    <3> DEFINE b == Len(h.back)
               f == Len(h.forward)
    <3>1. b \in Nat /\ f \in Nat /\ f > 0
      BY <2>2
    <3> HIDE DEF b, f
    <3>2. b + 1 < b + 1 + f
      BY <3>1
    <3> QED
      BY <3>2 DEF b, f
  <2> QED
    BY <2>1, <2>3 DEF Cursor
<1> QED
  BY <1>1, <1>2, <1>3, <1>4 DEF n

------------------------------------------------------------------------------
\* The history always has a current place and two stacks of places
\* (history.rs:8-12).
THEOREM HistoryTyped == HistorySpec => []HistoryTypeOK
<1>1. HistoryInit => HistoryTypeOK
  BY DEF HistoryInit, HistoryTypeOK, NewHistory, History
<1>2. HistoryTypeOK /\ [HistoryNext]_history => HistoryTypeOK'
  <2> SUFFICES ASSUME HistoryTypeOK, [HistoryNext]_history
               PROVE  HistoryTypeOK'
    OBVIOUS
  <2>1. ASSUME NEW l \in Location, Navigate(l)
        PROVE  HistoryTypeOK'
    BY <2>1, VisitTrail DEF Navigate, HistoryTypeOK
  <2>2. CASE Back
    BY <2>2, BackTrail DEF Back, GoBack, HistoryTypeOK
  <2>3. CASE Forward
    BY <2>3, ForwardTrail DEF Forward, GoForward, HistoryTypeOK
  <2>4. CASE UNCHANGED history
    BY <2>4 DEF HistoryTypeOK
  <2> QED
    BY <2>1, <2>2, <2>3, <2>4 DEF HistoryNext
<1> QED
  BY <1>1, <1>2, PTL DEF HistorySpec

\* The two stacks of history.rs implement a cursor on a trail: whatever the
\* sequence of visits, Back and Forward, no visited place is lost, repeated
\* or met in another order (history.rs:36-68).
THEOREM HistoryImplementsTrail == HistorySpec => ImplementsTrail
<1>1. HistoryInit => Abstract!Init
  <2> SUFFICES ASSUME NEW l \in Location, history = NewHistory(l)
               PROVE  Trail(history) = <<l>> /\ Cursor(history) = 1
    BY DEF HistoryInit, Abstract!Init
  <2>1. history \in History(Location) /\ history.back = <<>> /\ history.current = l
        /\ history.forward = <<>>
    BY DEF NewHistory, History
  <2>2. Trail(history) \in Seq(Location) /\ Len(Trail(history)) = 1 /\ Trail(history)[1] = l
    <3>1. Len(history.back) = 0 /\ Len(history.forward) = 0
      BY <2>1
    <3>2. /\ Trail(history) \in Seq(Location)
          /\ Len(Trail(history)) = Len(history.back) + 1 + Len(history.forward)
          /\ Trail(history)[Len(history.back) + 1] = history.current
      BY <2>1, TrailElements
    <3> QED
      BY <2>1, <3>1, <3>2
  <2> QED
    BY <2>1, <2>2, SameElements DEF Cursor
<1>2. HistoryTypeOK /\ [HistoryNext]_history => [Abstract!Next]_(Abstract!vars)
  <2> SUFFICES ASSUME HistoryTypeOK, [HistoryNext]_history
               PROVE  [Abstract!Next]_(Abstract!vars)
    OBVIOUS
  <2> USE DEF HistoryTypeOK
  <2>1. ASSUME NEW l \in Location, Navigate(l)
        PROVE  Abstract!Visit(l)
    <3>1. history' = NavigateTo(history, l)
      BY <2>1 DEF Navigate
    <3>2. Trail(history') = Append(SubSeq(Trail(history), 1, Cursor(history)), l)
          /\ Cursor(history') = Cursor(history) + 1
      BY <3>1, VisitTrail
    <3> QED
      BY <3>2 DEF Abstract!Visit, Trail, Cursor
  <2>2. CASE Back /\ CanGoBack(history)
    <3>1. history' = GoBack(history)
      BY <2>2 DEF Back
    <3>2. Trail(history') = Trail(history) /\ Cursor(history) > 1
          /\ Cursor(history') = Cursor(history) - 1
      BY <2>2, <3>1, BackTrail
    <3> QED
      BY <3>2 DEF Abstract!Next, Abstract!Back, Trail, Cursor
  <2>3. CASE Forward /\ CanGoForward(history)
    <3>1. history' = GoForward(history)
      BY <2>3 DEF Forward
    <3>2. Trail(history') = Trail(history) /\ Cursor(history) < Len(Trail(history))
          /\ Cursor(history') = Cursor(history) + 1
      BY <2>3, <3>1, ForwardTrail
    <3> QED
      BY <3>2 DEF Abstract!Next, Abstract!Forward, Trail, Cursor
  <2>4. CASE history' = history
    BY <2>4 DEF Abstract!vars, Trail, Cursor
  <2>5. Back => history' = history \/ CanGoBack(history)
    BY DEF Back, GoBack
  <2>6. Forward => history' = history \/ CanGoForward(history)
    BY DEF Forward, GoForward
  <2> QED
    BY <2>1, <2>2, <2>3, <2>4, <2>5, <2>6 DEF HistoryNext, Abstract!Next
<1> QED
  BY <1>1, <1>2, HistoryTyped, PTL DEF HistorySpec, ImplementsTrail, Abstract!Spec

------------------------------------------------------------------------------
\* The library file.

\* From the comparison to the rename the worker holds the lock, and after the
\* comparison the file is what it expects (library.rs:46-62).
LockInv ==
  \A w \in Window :
    /\ step[w] \in {"comparing", "writing", "renaming"} => lock = w
    /\ step[w] \in {"writing", "renaming"} => file = expected[w] /\ saving[w] # expected[w]

\* The copies under way: in the worker, in the channel, and in the timer of
\* a running window.
Saving(w)  == IF step[w] = "idle" THEN {} ELSE {saving[w]}
Channel(w) == IF channel[w] = None THEN {} ELSE {channel[w]}
Waiting(w) == IF state[w] # "running" \/ pendingSave[w] = None THEN {} ELSE {pendingSave[w]}

\* Each copy contains those that were made before it (library.rs:266-290).
Ordered(w) ==
  /\ \A c \in Saving(w) \cup Channel(w) \cup Waiting(w) :
       expected[w] \subseteq c /\ c \subseteq library[w]
  /\ \A s \in Saving(w), c \in Channel(w) \cup Waiting(w) : s \subseteq c
  /\ \A c \in Channel(w), p \in Waiting(w) : c \subseteq p
  /\ expected[w] \subseteq library[w]

OrderInv ==
  \A w \in Window :
    IF state[w] = "closed" THEN step[w] = "idle" /\ channel[w] = None ELSE Ordered(w)

FileInv == TypeOK /\ LockInv /\ OrderInv

------------------------------------------------------------------------------
\* Every step keeps the types of the variables.
LEMMA TypeStep ==
  ASSUME TypeOK, Next
  PROVE  TypeOK'
<1> PICK w \in Window :
      UserActs(w) \/ TimerRuns(w) \/ Flushes(w) \/ Exits(w) \/ Worker(w) \/ Fails(w) \/ Crash(w)
  BY DEF Next
<1> USE LibrarySaveAssumption DEF TypeOK, windowVars, workerVars, States, Steps, Library
<1>1. ASSUME NEW ok \in BOOLEAN, Open(w, ok)
      PROVE  TypeOK'
  BY <1>1 DEF Open, Failure
<1>2. ASSUME NEW e \in Edit, UserEdits(w, e) \/ Relocate(w, e)
      PROVE  TypeOK'
  BY <1>2 DEF UserEdits, Relocate, EditLibrary
<1>3. CASE Close(w)
  BY <1>3 DEF Close
<1>4. CASE TimerRuns(w)
  BY <1>4 DEF TimerRuns, Unsent
<1>5. CASE Flushes(w)
  BY <1>5 DEF Flushes
<1>6. CASE Exits(w)
  BY <1>6 DEF Exits
<1>7. CASE Takes(w)
  BY <1>7 DEF Takes, IsIdle, WorkerFrame
<1>8. CASE Locks(w)
  BY <1>8 DEF Locks, WorkerFrame
<1>9. CASE WaitsForLock(w)
  BY <1>9 DEF WaitsForLock, MayTry, WorkerFrame
<1>10. CASE GivesUpLock(w)
  BY <1>10 DEF GivesUpLock, Ends, WorkerFrame
<1>11. CASE Compares(w)
  BY <1>11 DEF Compares, Ends, IsStale, WorkerFrame
<1>12. CASE Writes(w)
  BY <1>12 DEF Writes, WorkerFrame
<1>13. CASE Renames(w)
  BY <1>13 DEF Renames, Ends, WorkerFrame
<1>14. CASE Fails(w)
  BY <1>14 DEF Fails, Failure, Ends, WorkerFrame
<1>15. CASE Crash(w)
  BY <1>15 DEF Crash, Failure
<1> QED
  BY <1>1, <1>2, <1>3, <1>4, <1>5, <1>6, <1>7, <1>8, <1>9, <1>10, <1>11, <1>12, <1>13, <1>14, <1>15 DEF UserActs, Worker

\* Only the holder of the lock replaces the file, and only at the end of its
\* save, so the file stays what the holder has compared it with.
LEMMA LockStep ==
  ASSUME TypeOK, LockInv, Next
  PROVE  LockInv'
<1> PICK w \in Window :
      UserActs(w) \/ TimerRuns(w) \/ Flushes(w) \/ Exits(w) \/ Worker(w) \/ Fails(w) \/ Crash(w)
  BY DEF Next
<1> USE LibrarySaveAssumption DEF TypeOK, LockInv, windowVars, workerVars, Steps
<1>1. ASSUME NEW ok \in BOOLEAN, Open(w, ok)
      PROVE  LockInv'
  BY <1>1 DEF Open, Failure
<1>2. ASSUME NEW e \in Edit, UserEdits(w, e) \/ Relocate(w, e)
      PROVE  LockInv'
  BY <1>2 DEF UserEdits, Relocate, EditLibrary
<1>3. CASE Close(w)
  BY <1>3 DEF Close
<1>4. CASE TimerRuns(w)
  BY <1>4 DEF TimerRuns, Unsent
<1>5. CASE Flushes(w)
  BY <1>5 DEF Flushes
<1>6. CASE Exits(w)
  BY <1>6 DEF Exits
<1>7. CASE Takes(w)
  BY <1>7 DEF Takes, IsIdle, WorkerFrame
<1>8. CASE Locks(w)
  BY <1>8 DEF Locks, LockIsFree, WorkerFrame
<1>9. CASE WaitsForLock(w)
  BY <1>9 DEF WaitsForLock, MayTry, WorkerFrame
<1>10. CASE GivesUpLock(w)
  BY <1>10 DEF GivesUpLock, Ends, WorkerFrame
<1>11. CASE Compares(w)
  BY <1>11 DEF Compares, Ends, IsStale, WorkerFrame
<1>12. CASE Writes(w)
  BY <1>12 DEF Writes, WorkerFrame
<1>13. CASE Renames(w)
  BY <1>13 DEF Renames, Ends, WorkerFrame
<1>14. CASE Fails(w)
  BY <1>14 DEF Fails, Failure, Ends, WorkerFrame
<1>15. CASE Crash(w)
  BY <1>15 DEF Crash, Failure
<1> QED
  BY <1>1, <1>2, <1>3, <1>4, <1>5, <1>6, <1>7, <1>8, <1>9, <1>10, <1>11, <1>12, <1>13, <1>14, <1>15 DEF UserActs, Worker

\* Every step hands the copies on in the order in which they were made.
LEMMA OrderStep ==
  ASSUME TypeOK, OrderInv, Next
  PROVE  OrderInv'
<1> PICK w \in Window :
      UserActs(w) \/ TimerRuns(w) \/ Flushes(w) \/ Exits(w) \/ Worker(w) \/ Fails(w) \/ Crash(w)
  BY DEF Next
<1> USE LibrarySaveAssumption DEF TypeOK, windowVars, workerVars, States, Steps, Library,
        OrderInv, Ordered, Saving, Channel, Waiting
<1>1. ASSUME NEW ok \in BOOLEAN, Open(w, ok)
      PROVE  OrderInv'
  BY <1>1 DEF Open, Failure
<1>2. ASSUME NEW e \in Edit, UserEdits(w, e) \/ Relocate(w, e)
      PROVE  OrderInv'
  BY <1>2 DEF UserEdits, Relocate, EditLibrary
<1>3. CASE Close(w)
  BY <1>3 DEF Close
<1>4. CASE TimerRuns(w)
  BY <1>4 DEF TimerRuns, Unsent
<1>5. CASE Flushes(w)
  BY <1>5 DEF Flushes
<1>6. CASE Exits(w)
  BY <1>6 DEF Exits
<1>7. CASE Takes(w)
  BY <1>7 DEF Takes, IsIdle, WorkerFrame
<1>8. CASE Locks(w)
  BY <1>8 DEF Locks, LockIsFree, WorkerFrame
<1>9. CASE WaitsForLock(w)
  BY <1>9 DEF WaitsForLock, MayTry, WorkerFrame
<1>10. CASE GivesUpLock(w)
  BY <1>10 DEF GivesUpLock, Ends, WorkerFrame
<1>11. CASE Compares(w)
  BY <1>11 DEF Compares, Ends, IsStale, WorkerFrame
<1>12. CASE Writes(w)
  BY <1>12 DEF Writes, WorkerFrame
<1>13. CASE Renames(w)
  BY <1>13 DEF Renames, Ends, WorkerFrame
<1>14. CASE Fails(w)
  BY <1>14 DEF Fails, Failure, Ends, WorkerFrame
<1>15. CASE Crash(w)
  BY <1>15 DEF Crash, Failure
<1> QED
  BY <1>1, <1>2, <1>3, <1>4, <1>5, <1>6, <1>7, <1>8, <1>9, <1>10, <1>11, <1>12, <1>13, <1>14, <1>15 DEF UserActs, Worker

------------------------------------------------------------------------------
\* The inductive invariant holds in every reachable state.
THEOREM FileInvariant == Spec => []FileInv
<1>1. Init => FileInv
  BY LibrarySaveAssumption
  DEF Init, FileInv, TypeOK, LockInv, OrderInv, States, Steps, Library
<1>2. FileInv /\ [Next]_vars => FileInv'
  <2> SUFFICES ASSUME FileInv, [Next]_vars
               PROVE  FileInv'
    OBVIOUS
  <2>1. CASE Next
    BY <2>1, TypeStep, LockStep, OrderStep DEF FileInv
  <2>2. CASE UNCHANGED vars
    BY <2>2 DEF vars, windowVars, workerVars, FileInv, TypeOK, LockInv, OrderInv, Ordered,
                Saving, Channel, Waiting
  <2> QED
    BY <2>1, <2>2
<1> QED
  BY <1>1, <1>2, PTL DEF Spec

\* Windows and workers keep the types of what they hold: the attempts at the
\* lock stay within their bound, and the library of a window is always whole.
THEOREM LibraryTyped == Spec => []TypeOK
<1>1. FileInv => TypeOK
  BY DEF FileInv
<1> QED
  BY <1>1, FileInvariant, PTL

\* No window, however stale, and no crash or failure at any step of a save
\* takes away an edit that another window has saved (library.rs:19-65): the
\* only step that changes the file adds to it.
THEOREM SavedEditsStay == Spec => ImplementsFile
<1>1. Init => KeepsSavedEdits!Init
  BY DEF Init, KeepsSavedEdits!Init
<1>2. FileInv /\ [Next]_vars => [KeepsSavedEdits!Next]_file
  <2> SUFFICES ASSUME FileInv, [Next]_vars
               PROVE  KeepsSavedEdits!Next \/ file' = file
    OBVIOUS
  <2>1. CASE UNCHANGED vars
    BY <2>1 DEF vars
  <2>2. ASSUME NEW w \in Window, Renames(w)
        PROVE  KeepsSavedEdits!Next
    <3>1. file = expected[w] /\ saving[w] # expected[w] /\ file' = saving[w]
      BY <2>2 DEF FileInv, LockInv, Renames
    <3>2. expected[w] \subseteq saving[w]
      BY <2>2 DEF FileInv, OrderInv, Ordered, Saving, Renames
    <3>3. saving[w] \subseteq Edit
      BY DEF FileInv, TypeOK, Library
    <3> DEFINE more == saving[w] \ file
    <3>4. more \in SUBSET (Edit \ file) /\ more # {} /\ file' = file \cup more
      BY <3>1, <3>2, <3>3
    <3> QED
      BY <3>4 DEF KeepsSavedEdits!Next, KeepsSavedEdits!Save
  <2>3. ASSUME NEW w \in Window,
               UserActs(w) \/ TimerRuns(w) \/ Flushes(w) \/ Exits(w) \/ Fails(w) \/ Crash(w)
        PROVE  file' = file
    BY <2>3 DEF UserActs, Open, UserEdits, Relocate, EditLibrary, Close, TimerRuns, Flushes, Exits,
                Fails, Crash
  <2>4. ASSUME NEW w \in Window, Worker(w)
        PROVE  Renames(w) \/ file' = file
    BY <2>4 DEF Worker, Takes, Locks, WaitsForLock, GivesUpLock, Compares, Writes
  <2> QED
    BY <2>1, <2>2, <2>3, <2>4 DEF Next
<1> QED
  BY <1>1, <1>2, FileInvariant, PTL DEF Spec, ImplementsFile, KeepsSavedEdits!Spec

------------------------------------------------------------------------------
\* What a closing window still has to save is in the channel, then with the
\* worker, and then in the file, unless that last save has failed.
Flushed(w) ==
  \/ channel[w] = library[w]
  \/ channel[w] = None /\ step[w] # "idle" /\ saving[w] = library[w]
  \/ channel[w] = None /\ step[w] = "idle" /\ (lastFailed[w] \/ library[w] \subseteq file)

FlushInv ==
  \A w \in Window :
    /\ state[w] = "running" /\ ~loaded[w] => library[w] = {} /\ initial[w] = {} /\ ~writable[w]
    /\ state[w] = "closing" /\ ~loaded[w] /\ library[w] # initial[w] => Flushed(w)
    /\ state[w] = "closed" => step[w] = "idle" /\ channel[w] = None

\* The file loses nothing in a step.
LEMMA FileGrows ==
  ASSUME FileInv, Next
  PROVE  file \subseteq file'
<1>1. ASSUME NEW w \in Window, Renames(w)
      PROVE  file \subseteq file'
  BY <1>1 DEF Renames, FileInv, LockInv, OrderInv, Ordered, Saving
<1>2. ASSUME NEW w \in Window,
             UserActs(w) \/ TimerRuns(w) \/ Flushes(w) \/ Exits(w) \/ Fails(w) \/ Crash(w)
      PROVE  file' = file
  BY <1>2 DEF UserActs, Open, UserEdits, Relocate, EditLibrary, Close, TimerRuns, Flushes, Exits,
              Fails, Crash
<1>3. ASSUME NEW w \in Window, Worker(w)
      PROVE  Renames(w) \/ file' = file
  BY <1>3 DEF Worker, Takes, Locks, WaitsForLock, GivesUpLock, Compares, Writes
<1> QED
  BY <1>1, <1>2, <1>3 DEF Next

\* Every step keeps the last edits of a closing window on their way, and what
\* is in the file stays there.
LEMMA FlushStep ==
  ASSUME FileInv, FlushInv, ClosedIsSaved, Next
  PROVE  FlushInv' /\ ClosedIsSaved'
<1> TypeOK /\ LockInv
  BY DEF FileInv
<1> file \subseteq file'
  BY FileGrows
<1> PICK w \in Window :
      UserActs(w) \/ TimerRuns(w) \/ Flushes(w) \/ Exits(w) \/ Worker(w) \/ Fails(w) \/ Crash(w)
  BY DEF Next
<1> USE LibrarySaveAssumption DEF TypeOK, LockInv, windowVars, workerVars, States, Steps, Library,
        FlushInv, Flushed, ClosedIsSaved
<1>1. ASSUME NEW ok \in BOOLEAN, Open(w, ok)
      PROVE  FlushInv' /\ ClosedIsSaved'
  BY <1>1 DEF Open, Failure
<1>2. ASSUME NEW e \in Edit, UserEdits(w, e) \/ Relocate(w, e)
      PROVE  FlushInv' /\ ClosedIsSaved'
  BY <1>2 DEF UserEdits, Relocate, EditLibrary
<1>3. CASE Close(w)
  <2>1. /\ state[w] = "running" /\ state' = [state EXCEPT ![w] = "closing"]
        /\ UNCHANGED <<file, library, loaded, initial, writable, channel, step, saving, lastFailed>>
    BY <1>3 DEF Close
  <2>2. \A u \in Window : state'[u] = IF u = w THEN "closing" ELSE state[u]
    BY <2>1
  <2>3. library[w] = initial[w] \/ loaded[w]
    BY <2>1
  <2>4. \A u \in Window : Flushed(u)' = Flushed(u)
    BY <2>1
  <2> HIDE DEF Flushed
  <2>5. ASSUME NEW u \in Window
        PROVE  /\ state'[u] = "running" /\ ~loaded'[u]
                    => library'[u] = {} /\ initial'[u] = {} /\ ~writable'[u]
               /\ state'[u] = "closing" /\ ~loaded'[u] /\ library'[u] # initial'[u] => Flushed(u)'
               /\ state'[u] = "closed" => step'[u] = "idle" /\ channel'[u] = None
    <3>1. CASE u = w
      BY <2>1, <2>2, <2>3, <3>1
    <3>2. CASE u # w
      BY <2>1, <2>2, <2>4, <3>2
    <3> QED
      BY <3>1, <3>2
  <2>6. FlushInv'
    BY <2>5
  <2>7. ClosedIsSaved'
    BY <2>1, <2>2
  <2> QED
    BY <2>6, <2>7
<1>4. CASE TimerRuns(w)
  BY <1>4 DEF TimerRuns, Unsent
<1>5. CASE Flushes(w)
  BY <1>5 DEF Flushes
<1>6. CASE Exits(w)
  BY <1>6 DEF Exits
<1>7. CASE Takes(w)
  BY <1>7 DEF Takes, IsIdle, WorkerFrame
<1>8. CASE Locks(w)
  BY <1>8 DEF Locks, LockIsFree, WorkerFrame
<1>9. CASE WaitsForLock(w)
  BY <1>9 DEF WaitsForLock, MayTry, WorkerFrame
<1>10. CASE GivesUpLock(w)
  BY <1>10 DEF GivesUpLock, Ends, WorkerFrame
<1>11. CASE Compares(w)
  BY <1>11 DEF Compares, Ends, IsStale, WorkerFrame
<1>12. CASE Writes(w)
  BY <1>12 DEF Writes, WorkerFrame
<1>13. CASE Renames(w)
  BY <1>13 DEF Renames, Ends, WorkerFrame
<1>14. CASE Fails(w)
  BY <1>14 DEF Fails, Failure, Ends, WorkerFrame
<1>15. CASE Crash(w)
  BY <1>15 DEF Crash, Failure
<1> QED
  BY <1>1, <1>2, <1>3, <1>4, <1>5, <1>6, <1>7, <1>8, <1>9, <1>10, <1>11, <1>12, <1>13, <1>14, <1>15 DEF UserActs, Worker

\* A window that has closed has left its edits in the file, unless its last
\* save failed: the exit sends what the timer had no time or no room to send,
\* and waits for it (library.rs:75-94).
THEOREM ClosedSaved == Spec => []ClosedIsSaved
<1>1. Init => FlushInv /\ ClosedIsSaved
  BY DEF Init, FlushInv, ClosedIsSaved
<1>2. FileInv /\ (FlushInv /\ ClosedIsSaved) /\ [Next]_vars => (FlushInv /\ ClosedIsSaved)'
  <2> SUFFICES ASSUME FileInv, FlushInv, ClosedIsSaved, [Next]_vars
               PROVE  FlushInv' /\ ClosedIsSaved'
    OBVIOUS
  <2>1. CASE Next
    BY <2>1, FlushStep
  <2>2. CASE UNCHANGED vars
    BY <2>2 DEF vars, windowVars, workerVars, FlushInv, Flushed, ClosedIsSaved
  <2> QED
    BY <2>1, <2>2
<1> QED
  BY <1>1, <1>2, FileInvariant, PTL DEF Spec

===============================================================================
