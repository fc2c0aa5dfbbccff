---------------------- MODULE ClipboardOwnershipProofs ----------------------
(* Theorems about Clipboard: who holds an identifier of the validator service *)
(* and a recording, what the assertions of the handlers rely on, and how a    *)
(* response that was announced ends.  ClipboardProofs shows what the handlers *)
(* do to the context they serve; here is the state they leave.                *)
EXTENDS ClipboardProofs

----------------------------------------------------------------------------
(* From a handler to the state it leaves. *)
LEMMA PeerFacts ==
  ASSUME NEW c \in Sides
  PROVE  /\ Peer(c) \in Sides /\ Peer(c) # c /\ Peer(Peer(c)) = c
         /\ \A k \in Sides : k = c \/ k = Peer(c)
BY DEF Sides, Peer

(* The configuration does not change. *)
LEMMA StaysHeld ==
  ASSUME opt' = opt, NEW d, NEW v, NEW k, NEW o, Held(d, v, k, o)
  PROVE  Held(d, v, k, o)'
BY DEF Held, Identified, Kept, Faithful, Keeping, Unlocked

LEMMA StaysSettled ==
  ASSUME opt' = opt, NEW c, NEW st, NEW d, NEW v, Settled(c, st, d, v)
  PROVE  Settled(c, st, d, v)'
BY DEF Settled, Faithful, Unlocked, Verifies, VerifiesText

LEMMA StaysFit ==
  ASSUME opt' = opt, NEW c, NEW x, NEW d, NEW left
  PROVE  /\ Buffered(x, d, left) => Buffered(x, d, left)'
         /\ Answering(c, x, d) => Answering(c, x, d)'
BY DEF Buffered, Answering, Calm, Unlocked, Verifies

LEMMA HeldPrimed ==
  ASSUME opt' = opt, NEW k, Held(data'[k], valid', seen'.keep, Others(k)')
  PROVE  Held(data[k], valid, seen.keep, Others(k))'
BY DEF Held, Identified, Kept, Faithful, Keeping, Unlocked

(* What one transfer leaves to the others, seen from another one. *)
LEMMA Exchange ==
  ASSUME NEW d, NEW q, NEW v, NEW k, NEW o, Held(d, v, k, Plus(o, q)),
         Numbered(o, v), Linked(q), q.own \notin o.own
  PROVE  Held(q, v, k, Plus(o, d))
<1> DEFINE a == Plus(o, q)
           b == Plus(o, d)
<1>1. 0 \notin Ids
  BY DEF Ids
<1>2. /\ a.own = o.own \cup ({q.own} \ {0}) /\ a.tfl = o.tfl \cup ({q.tfl} \ {0})
      /\ a.vid = o.vid \cup ({q.vid} \ {0})
      /\ a.keep = o.keep \cup (IF q.verdict = "Failure" THEN {q.tfl} \ {0} ELSE {})
  BY DEF Plus
<1>3. /\ b.own = o.own \cup ({d.own} \ {0}) /\ b.tfl = o.tfl \cup ({d.tfl} \ {0})
      /\ b.vid = o.vid \cup ({d.vid} \ {0})
      /\ b.keep = o.keep \cup (IF d.verdict = "Failure" THEN {d.tfl} \ {0} ELSE {})
  BY DEF Plus
<1> HIDE DEF a, b
<1>4. Held(d, v, k, a)
  BY DEF a
<1>5. Linked(d) /\ d.own \notin a.own /\ (d.own # 0 => v.svc[d.own] # "free")
      /\ Services(v) /\ Numbered(a, v)
  BY <1>4 DEF Held
<1>6. Numbered(b, v)
  BY <1>3, <1>5 DEF Numbered, Linked
<1>7. q.own \notin b.own /\ (q.own # 0 => v.svc[q.own] # "free")
  BY <1>1, <1>2, <1>3, <1>5 DEF Numbered
<1>8. Listing(q, v, b)
  BY <1>1, <1>2, <1>3, <1>4 DEF Held, Listing
<1>9. Recorded(q, v, b)
  BY <1>1, <1>2, <1>3, <1>4 DEF Held, Recorded
<1>10. Identified(q, v, b)
  BY <1>1, <1>2, <1>3, <1>4 DEF Held, Identified
<1>11. Kept(q, v, k, b)
  BY <1>1, <1>2, <1>3, <1>4 DEF Held, Kept
<1>12. Held(q, v, k, b)
  BY <1>5, <1>6, <1>7, <1>8, <1>9, <1>10, <1>11 DEF Held
<1> QED BY <1>12 DEF b

LEMMA RangesNumbered ==
  ASSUME NEW rs, NEW v, NEW q, Numbered(Plus(OfRanges(rs), q), v),
         \A r \in rs : Linked(r.d) /\ r.d.own # 0
  PROVE  Numbered(OfRanges(rs), v)
<1> DEFINE o == OfRanges(rs)
           a == Plus(o, q)
<1>1. /\ o.own = {r.d.own : r \in rs} /\ o.tfl = {r.d.tfl : r \in rs} \ {0}
      /\ o.vid = {r.d.vid : r \in rs} \ {0} /\ o.keep = {}
  BY DEF OfRanges
<1>2. o.own \subseteq a.own
  BY DEF Plus
<1> HIDE DEF o, a
<1>3. \A n \in o.own : n \in Ids /\ v.svc[n] # "free"
  BY <1>2 DEF Numbered, a, o
<1>4. o.tfl \subseteq o.own /\ o.vid \subseteq o.own
  BY <1>1 DEF Linked
<1> QED BY <1>1, <1>3, <1>4 DEF Numbered, o

(* What a handler of context c leaves to the service, its transfers and the
   other context. *)
Leaves(c, u) ==
    LET p == Peer(c)
        P == Plus(OfRanges(ctx[p].ranges), data[p])
    IN  /\ IsWork(u) /\ u.c = c
        /\ Held(u.d, u.v, u.s.keep,
                Plus(OfRanges(u.x.ranges \cup ctx[p].ranges), data[p]))
        /\ Settled(c, u.x.st, u.d, u.v) /\ Ranges(u.x, u.v)
        /\ \A n \in P.own : u.v.svc[n] = valid.svc[n]
        /\ Faithful(opt) => \A n \in P.vid : u.v.res[n] = valid.res[n]
        /\ \A n \in Ids : valid.res[n] = "accept" => u.v.res[n] = "accept"
        /\ \A r \in u.x.ranges : /\ r.d.own # data[p].own
                                 /\ \A q \in ctx[p].ranges : r.d.own # q.d.own
                                 /\ \A q \in u.x.ranges : r.d.own = q.d.own => r = q
        /\ c \notin opt.active => u.x.st = "Empty" /\ u.x.ranges = {}
        /\ opt.auth = {} => u.x.files = << >> /\ u.x.st = "Empty"
        /\ Unlocked(opt) => u.x.ranges = {} /\ u.x.lock # "HasLock"

LEMMA OwnAfter ==
  ASSUME OwnInv, Living, phase # "closed", NEW c \in Sides, NEW u, Leaves(c, u), Apply(u),
         can_lock' => u.x.lock # "Disabled" /\ ctx[Peer(c)].lock # "Disabled",
         Unlocked(opt) => ~can_lock'
  PROVE  OwnInv'
<1> DEFINE p == Peer(c)
           rs == u.x.ranges \cup ctx[p].ranges
           X == OfRanges(rs)
           P == Plus(OfRanges(ctx[p].ranges), data[p])
<1>1. p \in Sides /\ p # c /\ Peer(p) = c /\ \A k \in Sides : k = c \/ k = p
  BY PeerFacts
<1>2. /\ IsWork(u) /\ u.c = c
      /\ Held(u.d, u.v, u.s.keep, Plus(X, data[p]))
      /\ Settled(c, u.x.st, u.d, u.v) /\ Ranges(u.x, u.v)
      /\ \A n \in P.own : u.v.svc[n] = valid.svc[n]
      /\ Faithful(opt) => \A n \in P.vid : u.v.res[n] = valid.res[n]
  BY DEF Leaves
<1>3. \A r \in u.x.ranges : /\ r.d.own # data[p].own
                            /\ \A q \in ctx[p].ranges : r.d.own # q.d.own
                            /\ \A q \in u.x.ranges : r.d.own = q.d.own => r = q
  BY DEF Leaves
<1>4. /\ c \notin opt.active => u.x.st = "Empty" /\ u.x.ranges = {}
      /\ opt.auth = {} => u.x.files = << >> /\ u.x.st = "Empty"
      /\ Unlocked(opt) => u.x.ranges = {} /\ u.x.lock # "HasLock"
  BY DEF Leaves
<1>5. /\ ctx' = [ctx EXCEPT ![c] = u.x] /\ data' = [data EXCEPT ![c] = u.d]
      /\ valid' = u.v /\ seen' = u.s /\ opt' = opt
  BY <1>2 DEF Apply
<1> HIDE DEF p
<1>6. /\ ctx'[c] = u.x /\ data'[c] = u.d
      /\ ctx'[p] = ctx[p] /\ data'[p] = data[p]
  BY <1>1, <1>5 DEF Living
<1>7. /\ Held(data[p], valid, seen.keep, Others(p))
      /\ Settled(p, ctx[p].st, data[p], valid) /\ Ranges(ctx[p], valid)
      /\ p \notin opt.active => ctx[p].st = "Empty" /\ ctx[p].ranges = {}
      /\ opt.auth = {} => ctx[p].files = << >> /\ ctx[p].st = "Empty"
      /\ Unlocked(opt) => ctx[p].ranges = {} /\ ctx[p].lock # "HasLock"
  BY <1>1 DEF OwnInv
<1>8. Distinct
  BY DEF OwnInv
<1>9. AllRanges' = rs /\ AllRanges = ctx[c].ranges \cup ctx[p].ranges
  <2>1. CASE c = "client"
    <3>1. p = "server"
      BY <2>1 DEF p, Peer
    <3> QED BY <1>6, <2>1, <3>1 DEF AllRanges
  <2>2. CASE c = "server"
    <3>1. p = "client"
      BY <2>2 DEF p, Peer
    <3> QED BY <1>6, <2>2, <3>1 DEF AllRanges
  <2> QED BY <2>1, <2>2 DEF Sides
<1>10. Others(c)' = Plus(X, data[p]) /\ Others(p)' = Plus(X, u.d)
  <2>1. Peer(c)' = p /\ Peer(p)' = c
    BY <1>1 DEF p
  <2> QED BY <1>1, <1>6, <1>9 DEF Others, p
<1>11. P.own = {r.d.own : r \in ctx[p].ranges} \cup ({data[p].own} \ {0})
       /\ P.vid = ({r.d.vid : r \in ctx[p].ranges} \ {0}) \cup ({data[p].vid} \ {0})
  BY DEF Plus, OfRanges
<1>12. Linked(data[p]) /\ data[p].own \notin {r.d.own : r \in ctx[p].ranges}
  <2>1. Linked(data[p]) /\ data[p].own \notin Others(p).own
    BY <1>7 DEF Held
  <2>2. {r.d.own : r \in ctx[p].ranges} \subseteq Others(p).own
    BY <1>9 DEF Others, Plus, OfRanges
  <2> QED BY <2>1, <2>2
<1>13. \A r \in rs : Linked(r.d) /\ r.d.own # 0
  BY <1>2, <1>7 DEF Ranges
<1>14. Held(data[p], u.v, u.s.keep, Plus(X, u.d))
  <2> DEFINE d == u.d
             q == data[p]
             v == u.v
             k == u.s.keep
  <2>1. q.own \notin X.own
    BY <1>3, <1>12 DEF OfRanges
  <2>2. Numbered(Plus(X, q), v) /\ Held(d, v, k, Plus(X, q)) /\ Linked(q)
    BY <1>2, <1>12 DEF Held
  <2>3. Numbered(X, v)
    BY <1>13, <2>2, RangesNumbered
  <2> HIDE DEF d, q, v, k, X
  <2>4. Held(q, v, k, Plus(X, d))
    BY <2>1, <2>2, <2>3, Exchange
  <2> QED BY <2>4 DEF d, q, v, k
<1>15. data[p].vid # 0 => data[p].vid \in P.own /\ data[p].vid \in P.vid
  BY <1>11, <1>12 DEF Linked
<1>16. Settled(p, ctx[p].st, data[p], u.v)
  BY <1>2, <1>7, <1>15 DEF Settled
<1>17. Ranges(ctx[p], u.v)
  <2> SUFFICES ASSUME NEW r \in ctx[p].ranges
               PROVE  r.d.vid # 0 => u.v.svc[r.d.vid] = "open"
    BY <1>7 DEF Ranges
  <2>1. Linked(r.d) /\ (r.d.vid # 0 => valid.svc[r.d.vid] = "open")
    BY <1>7 DEF Ranges
  <2>2. r.d.vid # 0 => r.d.vid \in P.own
    BY <1>11, <2>1 DEF Linked
  <2> QED BY <1>2, <2>1, <2>2
<1> HIDE DEF X
<1>18. \A k \in Sides : Held(data[k], valid, seen.keep, Others(k))'
  <2> TAKE k \in Sides
  <2>1. CASE k = c
    <3> DEFINE d == u.d
               v == u.v
               kp == u.s.keep
               o == Plus(X, data[p])
    <3>1. Held(d, v, kp, o)
      BY <1>2
    <3>2. data'[k] = d /\ valid' = v /\ seen'.keep = kp /\ Others(k)' = o
      BY <1>5, <1>6, <1>10, <2>1
    <3> HIDE DEF d, v, kp, o
    <3>3. Held(data'[k], valid', seen'.keep, Others(k)')
      BY <3>1, <3>2
    <3> QED BY <1>5, <3>3, HeldPrimed
  <2>2. CASE k = p
    <3> DEFINE d == data[p]
               v == u.v
               kp == u.s.keep
               o == Plus(X, u.d)
    <3>1. Held(d, v, kp, o)
      BY <1>14
    <3>2. data'[k] = d /\ valid' = v /\ seen'.keep = kp /\ Others(k)' = o
      BY <1>5, <1>6, <1>10, <2>2
    <3> HIDE DEF d, v, kp, o
    <3>3. Held(data'[k], valid', seen'.keep, Others(k)')
      BY <3>1, <3>2
    <3> QED BY <1>5, <3>3, HeldPrimed
  <2> QED BY <1>1, <2>1, <2>2
<1>19. \A k \in Sides : Settled(k, ctx[k].st, data[k], valid)'
  <2> TAKE k \in Sides
  <2>1. CASE k = c
    BY <1>2, <1>5, <1>6, <2>1, StaysSettled
  <2>2. CASE k = p
    BY <1>5, <1>6, <1>16, <2>2, StaysSettled
  <2> QED BY <1>1, <2>1, <2>2
<1>20. \A k \in Sides : Ranges(ctx[k], valid)'
  <2> TAKE k \in Sides
  <2>1. CASE k = c
    BY <1>2, <1>5, <1>6, <2>1 DEF Ranges, Linked
  <2>2. CASE k = p
    BY <1>5, <1>6, <1>17, <2>2 DEF Ranges, Linked
  <2> QED BY <1>1, <2>1, <2>2
<1>21. \A k \in Sides :
        (/\ k \notin opt.active => ctx[k].st = "Empty" /\ ctx[k].ranges = {}
         /\ opt.auth = {} => ctx[k].files = << >> /\ ctx[k].st = "Empty"
         /\ Unlocked(opt) => ctx[k].ranges = {} /\ ctx[k].lock # "HasLock"
         /\ can_lock => ctx[k].lock # "Disabled")'
  <2>1. Unlocked(opt)' <=> Unlocked(opt)
    BY <1>5 DEF Unlocked
  <2> QED BY <1>1, <1>4, <1>5, <1>6, <1>7, <2>1 DEF p
<1>22. Distinct'
  <2>1. \A r, q \in rs : r.d.own = q.d.own => r = q
    <3>1. \A r, q \in ctx[p].ranges : r.d.own = q.d.own => r = q
      BY <1>8, <1>9 DEF Distinct
    <3> QED BY <1>3, <3>1
  <2>2. u.x.ranges \cap ctx[p].ranges = {}
    BY <1>3
  <2>3. ctx["client"].ranges' \cap ctx["server"].ranges' = {}
    <3>1. CASE c = "client"
      <4>1. p = "server"
        BY <3>1 DEF p, Peer
      <4> QED BY <1>6, <2>2, <3>1, <4>1
    <3>2. CASE c = "server"
      <4>1. p = "client"
        BY <3>2 DEF p, Peer
      <4> QED BY <1>6, <2>2, <3>2, <4>1
    <3> QED BY <3>1, <3>2 DEF Sides
  <2> QED BY <1>9, <2>1, <2>3 DEF Distinct
<1>23. (Unlocked(opt) => ~can_lock)'
  BY <1>5 DEF Unlocked
<1>24. (\A k \in Sides :
          /\ Held(data[k], valid, seen.keep, Others(k))
          /\ Settled(k, ctx[k].st, data[k], valid)
          /\ Ranges(ctx[k], valid)
          /\ k \notin opt.active => ctx[k].st = "Empty" /\ ctx[k].ranges = {}
          /\ opt.auth = {} => ctx[k].files = << >> /\ ctx[k].st = "Empty"
          /\ Unlocked(opt) => ctx[k].ranges = {} /\ ctx[k].lock # "HasLock"
          /\ can_lock => ctx[k].lock # "Disabled")'
  <2> SUFFICES ASSUME NEW k \in Sides
               PROVE  (/\ Held(data[k], valid, seen.keep, Others(k))
                       /\ Settled(k, ctx[k].st, data[k], valid)
                       /\ Ranges(ctx[k], valid)
                       /\ k \notin opt.active
                            => ctx[k].st = "Empty" /\ ctx[k].ranges = {}
                       /\ opt.auth = {} => ctx[k].files = << >> /\ ctx[k].st = "Empty"
                       /\ Unlocked(opt) => ctx[k].ranges = {} /\ ctx[k].lock # "HasLock"
                       /\ can_lock => ctx[k].lock # "Disabled")'
    OBVIOUS
  <2>1. Held(data[k], valid, seen.keep, Others(k))'
    BY <1>18
  <2>2. Settled(k, ctx[k].st, data[k], valid)'
    BY <1>19
  <2>3. Ranges(ctx[k], valid)'
    BY <1>20
  <2>4. (/\ k \notin opt.active => ctx[k].st = "Empty" /\ ctx[k].ranges = {}
         /\ opt.auth = {} => ctx[k].files = << >> /\ ctx[k].st = "Empty"
         /\ Unlocked(opt) => ctx[k].ranges = {} /\ ctx[k].lock # "HasLock"
         /\ can_lock => ctx[k].lock # "Disabled")'
    BY <1>21
  <2> QED BY ONLY <2>1, <2>2, <2>3, <2>4
<1> QED BY <1>22, <1>23, <1>24 DEF OwnInv

(* What is still to come of the responses, and the lists of the locks. *)
LEMMA RunAfter ==
  ASSUME RunInv, Living, Running, NEW c \in Sides, NEW u, Apply(u), u.c = c,
         \A n \in Ids : valid.res[n] = "accept" => u.v.res[n] = "accept",
         msg'[Peer(c)] = msg[Peer(c)], NEW to, Left(c)' = to,
         u.thrown \/ (Fit(u, to) /\ LockList(u.x) /\ Between(c)')
  PROVE  RunInv'
<1> DEFINE p == Peer(c)
<1>1. p \in Sides /\ p # c /\ \A k \in Sides : k = c \/ k = p
  BY PeerFacts
<1>2. /\ ctx' = [ctx EXCEPT ![c] = u.x] /\ data' = [data EXCEPT ![c] = u.d]
      /\ valid' = u.v /\ opt' = opt
      /\ phase' = IF u.thrown THEN "thrown" ELSE phase
  BY DEF Apply
<1>3. msg'[p] = msg[p]
  OBVIOUS
<1> HIDE DEF p
<1>4. /\ ctx'[c] = u.x /\ data'[c] = u.d
      /\ ctx'[p] = ctx[p] /\ data'[p] = data[p]
  BY <1>1, <1>2 DEF Living
<1>5. CASE u.thrown
  BY <1>2, <1>5 DEF RunInv
<1>6. CASE ~u.thrown
  <2>1. Fit(u, to) /\ LockList(u.x) /\ Between(c)'
    BY <1>6
  <2>2. (/\ Naturals_(ctx[c], data[c]) /\ Buffered(ctx[c], data[c], Left(c))
         /\ Answering(c, ctx[c], data[c]) /\ LockList(ctx[c]) /\ Between(c))'
    <3> DEFINE x == u.x
               d == u.d
    <3>1. Naturals_(x, d) /\ Buffered(x, d, to) /\ Answering(c, x, d) /\ LockList(x)
      BY <2>1 DEF Fit
    <3>2. ctx'[c] = x /\ data'[c] = d
      BY <1>4
    <3> HIDE DEF x, d
    <3>3. Buffered(x, d, to)' /\ Answering(c, x, d)'
      BY <1>2, <3>1, StaysFit
    <3>4. Buffered(ctx[c], data[c], Left(c))'
      BY <1>2, <3>1, <3>2 DEF Buffered, Calm, Unlocked
    <3>5. Answering(c, ctx[c], data[c])'
      BY <1>2, <3>1, <3>2 DEF Answering, Verifies
    <3>6. Naturals_(ctx[c], data[c])' /\ LockList(ctx[c])'
      BY <3>1, <3>2 DEF Naturals_, LockList
    <3> QED BY <2>1, <3>4, <3>5, <3>6
  <2>3. /\ Naturals_(ctx[p], data[p]) /\ Buffered(ctx[p], data[p], Left(p))
        /\ Answering(p, ctx[p], data[p]) /\ LockList(ctx[p]) /\ Between(p)
    BY <1>1 DEF RunInv, Running
  <2>4. Naturals_(ctx[p], data[p])' /\ LockList(ctx[p])'
    BY <1>4, <2>3 DEF Naturals_, LockList
  <2>5. Buffered(ctx[p], data[p], Left(p))'
    BY <1>2, <1>3, <1>4, <2>3 DEF Buffered, Left, Calm, Unlocked
  <2>6. Answering(p, ctx[p], data[p])'
    BY <1>2, <1>4, <2>3 DEF Answering, Verifies
  <2>7. Between(p)'
    BY <1>2, <1>3, <1>4, <2>3 DEF Between, Faithful, Unlocked, VerifiesText
  <2>8. \A k \in Sides :
          (/\ Naturals_(ctx[k], data[k]) /\ Buffered(ctx[k], data[k], Left(k))
           /\ Answering(k, ctx[k], data[k]) /\ LockList(ctx[k]) /\ Between(k))'
    BY <1>1, <2>2, <2>4, <2>5, <2>6, <2>7
  <2> QED BY <2>8 DEF RunInv
<1> QED BY <1>5, <1>6

LEMMA OthersAre ==
  ASSUME NEW c \in Sides
  PROVE  /\ Others(c) = Plus(OfRanges(ctx[c].ranges \cup ctx[Peer(c)].ranges),
                             data[Peer(c)])
         /\ AllRanges = ctx[c].ranges \cup ctx[Peer(c)].ranges
<1>1. CASE c = "client"
  <2>1. Peer(c) = "server"
    BY <1>1 DEF Peer
  <2>2. AllRanges = ctx[c].ranges \cup ctx[Peer(c)].ranges
    BY <1>1, <2>1 DEF AllRanges
  <2> QED BY <2>2 DEF Others
<1>2. CASE c = "server"
  <2>1. Peer(c) = "client"
    BY <1>2 DEF Peer
  <2>2. AllRanges = ctx[c].ranges \cup ctx[Peer(c)].ranges
    BY <1>2, <2>1 DEF AllRanges
  <2> QED BY <2>2 DEF Others
<1> QED BY <1>1, <1>2 DEF Sides

LEMMA WorkIsWork ==
  ASSUME Living, NEW c \in Sides
  PROVE  /\ IsWork(Work(c)) /\ Work(c).c = c /\ Work(c).x = ctx[c]
         /\ Work(c).d = data[c] /\ Work(c).v = valid /\ Work(c).s = seen
         /\ ~Work(c).thrown
BY DEF Living, Work, IsWork

LEMMA WorkGood ==
  ASSUME OwnInv, Living, phase # "closed", NEW c \in Sides
  PROVE  Good(Work(c), Others(c))
<1>1. Held(data[c], valid, seen.keep, Others(c)) /\ Settled(c, ctx[c].st, data[c], valid)
  BY DEF OwnInv
<1> QED BY <1>1, WorkIsWork DEF Good, Owned

LEMMA WorkFit ==
  ASSUME RunInv, Living, Running, NEW c \in Sides
  PROVE  Fit(Work(c), Left(c)) /\ LockList(Work(c).x)
<1>1. Naturals_(ctx[c], data[c]) /\ Buffered(ctx[c], data[c], Left(c))
      /\ Answering(c, ctx[c], data[c]) /\ LockList(ctx[c])
  BY DEF RunInv, Running
<1> QED BY <1>1, WorkIsWork DEF Fit

(* The numbers of the transfers are those of one of them. *)
LEMMA NumbersDiffer ==
  ASSUME OwnInv, phase # "closed", NEW c \in Sides
  PROVE  /\ \A r \in ctx[c].ranges :
              /\ Linked(r.d) /\ r.d.own # 0 /\ r.d.own \in Others(c).own
              /\ r.d.own # data[Peer(c)].own
              /\ \A q \in ctx[Peer(c)].ranges : r.d.own # q.d.own
              /\ \A q \in ctx[c].ranges : r.d.own = q.d.own => r = q
         /\ LET P == Plus(OfRanges(ctx[Peer(c)].ranges), data[Peer(c)])
            IN  /\ P.own \subseteq Others(c).own /\ P.vid \subseteq Others(c).vid
                /\ P.tfl \subseteq Others(c).tfl
<1> DEFINE p == Peer(c)
           P == Plus(OfRanges(ctx[p].ranges), data[p])
<1>1. p \in Sides /\ Peer(p) = c
  BY PeerFacts
<1>2. /\ Others(c) = Plus(OfRanges(ctx[c].ranges \cup ctx[p].ranges), data[p])
      /\ AllRanges = ctx[c].ranges \cup ctx[p].ranges
  BY OthersAre
<1> HIDE DEF p
<1>3. /\ Others(c).own = {r.d.own : r \in ctx[c].ranges \cup ctx[p].ranges}
                           \cup ({data[p].own} \ {0})
      /\ Others(c).tfl = ({r.d.tfl : r \in ctx[c].ranges \cup ctx[p].ranges} \ {0})
                           \cup ({data[p].tfl} \ {0})
      /\ Others(c).vid = ({r.d.vid : r \in ctx[c].ranges \cup ctx[p].ranges} \ {0})
                           \cup ({data[p].vid} \ {0})
  BY <1>2 DEF Plus, OfRanges
<1>4. /\ P.own = {r.d.own : r \in ctx[p].ranges} \cup ({data[p].own} \ {0})
      /\ P.tfl = ({r.d.tfl : r \in ctx[p].ranges} \ {0}) \cup ({data[p].tfl} \ {0})
      /\ P.vid = ({r.d.vid : r \in ctx[p].ranges} \ {0}) \cup ({data[p].vid} \ {0})
  BY DEF Plus, OfRanges
<1> HIDE DEF P
<1>5. P.own \subseteq Others(c).own /\ P.vid \subseteq Others(c).vid
      /\ P.tfl \subseteq Others(c).tfl
  BY <1>3, <1>4
<1>6. \A r \in ctx[c].ranges : r.d.own # data[p].own
  <2>1. data[p].own \notin Others(p).own
    BY <1>1 DEF OwnInv, Held
  <2>2. \A r \in AllRanges : r.d.own \in Others(p).own
    BY DEF Others, Plus, OfRanges
  <2> QED BY <1>2, <2>1, <2>2
<1>7. \A r \in ctx[c].ranges : Linked(r.d) /\ r.d.own # 0 /\ r.d.own \in Others(c).own
  BY <1>3 DEF OwnInv, Ranges
<1>8. /\ \A r, q \in AllRanges : r.d.own = q.d.own => r = q
      /\ ctx[c].ranges \cap ctx[p].ranges = {}
  <2>1. Distinct
    BY DEF OwnInv
  <2>2. CASE c = "client"
    <3>1. p = "server"
      BY <2>2 DEF p, Peer
    <3> QED BY <2>1, <2>2, <3>1 DEF Distinct
  <2>3. CASE c = "server"
    <3>1. p = "client"
      BY <2>3 DEF p, Peer
    <3> QED BY <2>1, <2>3, <3>1 DEF Distinct
  <2> QED BY <2>2, <2>3 DEF Sides
<1>9. \A r \in ctx[c].ranges :
        /\ Linked(r.d) /\ r.d.own # 0 /\ r.d.own \in Others(c).own
        /\ r.d.own # data[p].own
        /\ \A q \in ctx[p].ranges : r.d.own # q.d.own
        /\ \A q \in ctx[c].ranges : r.d.own = q.d.own => r = q
  BY <1>2, <1>6, <1>7, <1>8
<1> QED BY <1>5, <1>9 DEF p, P

(* A handler that leaves the locked transfers alone. *)
LEMMA AwayLeaves ==
  ASSUME OwnInv, phase # "closed", NEW c \in Sides, NEW u, Good(u, Others(c)), u.c = c,
         u.x.ranges = ctx[c].ranges, Away(valid, u.v, Others(c)),
         c \notin opt.active => u.x.st = "Empty",
         opt.auth = {} => u.x.files = << >> /\ u.x.st = "Empty",
         Unlocked(opt) => u.x.lock # "HasLock"
  PROVE  Leaves(c, u)
<1> DEFINE p == Peer(c)
           P == Plus(OfRanges(ctx[p].ranges), data[p])
<1>1. /\ IsWork(u) /\ Settled(c, u.x.st, u.d, u.v)
      /\ Held(u.d, u.v, u.s.keep, Others(c))
  BY DEF Good, Owned
<1>2. /\ Others(c) = Plus(OfRanges(ctx[c].ranges \cup ctx[p].ranges), data[p])
  BY OthersAre
<1>3. \A r \in ctx[c].ranges :
        /\ Linked(r.d) /\ r.d.own # 0 /\ r.d.own \in Others(c).own
        /\ r.d.own # data[p].own
        /\ \A q \in ctx[p].ranges : r.d.own # q.d.own
        /\ \A q \in ctx[c].ranges : r.d.own = q.d.own => r = q
  BY NumbersDiffer
<1>4. P.own \subseteq Others(c).own /\ P.vid \subseteq Others(c).vid
  BY NumbersDiffer
<1>5. Ranges(u.x, u.v)
  <2>1. Ranges(ctx[c], valid)
    BY DEF OwnInv
  <2>2. \A r \in ctx[c].ranges : r.d.vid # 0 => u.v.svc[r.d.vid] = valid.svc[r.d.vid]
    BY <1>3 DEF Away, Linked
  <2> QED BY <2>1, <2>2 DEF Ranges
<1>6. \A n \in P.own : u.v.svc[n] = valid.svc[n]
  BY <1>4 DEF Away
<1>7. /\ c \notin opt.active => ctx[c].ranges = {}
      /\ Unlocked(opt) => ctx[c].ranges = {}
  BY DEF OwnInv
<1>8. /\ Faithful(opt) => \A n \in P.vid : u.v.res[n] = valid.res[n]
      /\ \A n \in Ids : valid.res[n] = "accept" => u.v.res[n] = "accept"
  BY <1>4 DEF Away
<1>9. \A r \in u.x.ranges : /\ r.d.own # data[p].own
                            /\ \A q \in ctx[p].ranges : r.d.own # q.d.own
                            /\ \A q \in u.x.ranges : r.d.own = q.d.own => r = q
  BY <1>3
<1>10. Held(u.d, u.v, u.s.keep, Plus(OfRanges(u.x.ranges \cup ctx[p].ranges), data[p]))
  BY <1>1, <1>2
<1> QED BY <1>1, <1>5, <1>6, <1>7, <1>8, <1>9, <1>10 DEF Leaves

LEMMA StaysLeaves ==
  ASSUME OwnInv, phase # "closed", NEW c \in Sides, NEW u, Good(u, Others(c)), u.c = c,
         u.x.ranges = ctx[c].ranges, Elsewhere(valid, u.v, Others(c)),
         c \notin opt.active => u.x.st = "Empty",
         opt.auth = {} => u.x.files = << >> /\ u.x.st = "Empty",
         Unlocked(opt) => u.x.lock # "HasLock"
  PROVE  Leaves(c, u)
<1>1. Away(valid, u.v, Others(c))
  BY ElsewhereAway
<1> QED BY <1>1, AwayLeaves

(* Everything a handler of context c has to leave. *)
Handles(c, u, to) ==
    /\ Leaves(c, u)
    /\ u.thrown \/ (Fit(u, to) /\ LockList(u.x))
    /\ Calm(opt) /\ ~seen.assertion => ~u.s.assertion
    /\ Faithful(opt) /\ ~seen.text => ~u.s.text

Spoken == msg = [k \in Sides |-> msg[k]]

Owners == OwnInv /\ RunInv /\ CalmAsserts /\ FaithfulText /\ Spoken

LEMMA HandledOwners ==
  ASSUME Owners, Living, Running, NEW c \in Sides, NEW u, Apply(u),
         NEW to, Left(c)' = to, Handles(c, u, to), ~u.thrown => Between(c)',
         msg' = msg \/ \E m : msg' = [msg EXCEPT ![c] = m],
         can_lock' => u.x.lock # "Disabled" /\ ctx[Peer(c)].lock # "Disabled",
         Unlocked(opt) => ~can_lock'
  PROVE  Owners'
<1>1. OwnInv /\ RunInv /\ CalmAsserts /\ FaithfulText /\ phase # "closed"
  BY DEF Owners, Running
<1>2. Leaves(c, u) /\ (u.thrown \/ (Fit(u, to) /\ LockList(u.x)))
      /\ (Calm(opt) /\ ~seen.assertion => ~u.s.assertion)
      /\ (Faithful(opt) /\ ~seen.text => ~u.s.text)
  BY DEF Handles
<1>3. OwnInv'
  BY <1>1, <1>2, OwnAfter
<1>4. u.c = c /\ \A n \in Ids : valid.res[n] = "accept" => u.v.res[n] = "accept"
  BY <1>2 DEF Leaves
<1>5. RunInv'
  <2>1. msg'[Peer(c)] = msg[Peer(c)]
    <3>1. CASE msg' = msg
      BY <3>1
    <3>2. CASE \E m : msg' = [msg EXCEPT ![c] = m]
      <4>1. PICK m : msg' = [msg EXCEPT ![c] = m]
        BY <3>2
      <4>2. Peer(c) # c
        BY PeerFacts
      <4> QED BY <4>1, <4>2
    <3> QED BY <3>1, <3>2
  <2> QED BY <1>1, <1>2, <1>4, <2>1, RunAfter
<1>6. seen' = u.s /\ opt' = opt
  BY DEF Apply
<1>7. CalmAsserts'
  BY <1>1, <1>2, <1>6 DEF CalmAsserts, Calm, Unlocked
<1>8. FaithfulText'
  BY <1>1, <1>2, <1>6 DEF FaithfulText, Faithful, Unlocked
<1>9. Spoken'
  BY DEF Spoken, Owners
<1> QED BY <1>3, <1>5, <1>7, <1>8, <1>9 DEF Owners

----------------------------------------------------------------------------
(* The handlers that change some fields of a context and nothing else. *)
LEMMA FieldHandles ==
  ASSUME Owners, Living, Running, NEW c \in Sides, NEW u, IsWork(u), u.c = c,
         u.v = valid, u.d = data[c], u.s.keep = seen.keep, u.s.text = seen.text,
         ~seen.assertion => ~u.s.assertion,
         u.x.ranges = ctx[c].ranges, u.x.st = ctx[c].st,
         opt.auth = {} => u.x.files = << >> /\ u.x.st = "Empty",
         Unlocked(opt) => u.x.lock # "HasLock",
         NEW to, Naturals_(u.x, data[c]), Buffered(u.x, data[c], to),
         Answering(c, u.x, data[c]), LockList(u.x)
  PROVE  Handles(c, u, to)
<1>1. OwnInv /\ phase # "closed"
  BY DEF Owners, Running
<1>2. Held(data[c], valid, seen.keep, Others(c)) /\ Settled(c, ctx[c].st, data[c], valid)
      /\ (c \notin opt.active => ctx[c].st = "Empty")
  BY <1>1 DEF OwnInv
<1>3. Good(u, Others(c))
  BY <1>2 DEF Good, Owned
<1>4. Elsewhere(valid, u.v, Others(c))
  BY DEF Elsewhere
<1>5. Leaves(c, u)
  BY <1>1, <1>2, <1>3, <1>4, StaysLeaves
<1>6. Fit(u, to)
  BY DEF Fit
<1> QED BY <1>5, <1>6 DEF Handles

(* The same handlers as changes of the context alone. *)
LEMMA FieldApplies ==
  ASSUME Living, NEW c \in Sides, NEW x, IsContext(x), ctx' = [ctx EXCEPT ![c] = x],
         UNCHANGED <<opt, data, valid, phase, seen>>
  PROVE  LET u == [Work(c) EXCEPT !.x = x]
         IN  /\ Apply(u) /\ IsWork(u) /\ u.c = c /\ u.v = valid /\ u.d = data[c]
             /\ u.s = seen /\ u.x = x /\ ~u.thrown
<1> DEFINE u == [Work(c) EXCEPT !.x = x]
<1>1. /\ IsWork(u) /\ u.c = c /\ u.v = valid /\ u.d = data[c]
      /\ u.s = seen /\ u.x = x /\ ~u.thrown
  BY WorkIsWork DEF IsWork
<1> HIDE DEF u
<1>2. [data EXCEPT ![c] = data[c]] = data
  BY DEF Living
<1>3. Apply(u)
  BY <1>1, <1>2 DEF Apply
<1> QED BY <1>1, <1>3 DEF u

LEMMA ListResponseOwners ==
  ASSUME Owners, ClipInv, NEW c \in Sides, format_list_response(c)
  PROVE  Owners'
<1> DEFINE x == [ctx[c] EXCEPT !.flist = FALSE]
           u == [Work(c) EXCEPT !.x = x]
<1>1. /\ Running /\ ctx' = [ctx EXCEPT ![c] = x]
      /\ UNCHANGED <<opt, data, can_lock, valid, msg, phase, seen>>
  BY DEF format_list_response, Active
<1>2. Living
  BY <1>1 DEF ClipInv, Running
<1>3. IsContext(ctx[c])
  BY <1>2 DEF Living
<1>4. /\ IsContext(x) /\ x.st = ctx[c].st /\ x.clen = ctx[c].clen /\ x.cpos = ctx[c].cpos
      /\ x.resp = ctx[c].resp /\ x.owed = ctx[c].owed /\ x.cut = ctx[c].cut
      /\ x.fmt = ctx[c].fmt /\ x.flist = FALSE /\ x.files = ctx[c].files
      /\ x.lock = ctx[c].lock /\ x.lid = ctx[c].lid /\ x.slot = ctx[c].slot
      /\ x.locks = ctx[c].locks /\ x.sizes = ctx[c].sizes /\ x.ranges = ctx[c].ranges
      /\ x.asked = ctx[c].asked
  BY <1>3 DEF IsContext
<1> HIDE DEF x
<1>5. /\ Apply(u) /\ IsWork(u) /\ u.c = c /\ u.v = valid /\ u.d = data[c]
      /\ u.s = seen /\ u.x = x /\ ~u.thrown
  BY <1>1, <1>2, <1>4, FieldApplies
<1> HIDE DEF u
<1>6. OwnInv /\ RunInv /\ phase # "closed"
  BY <1>1 DEF Owners, Running
<1>7. /\ Naturals_(ctx[c], data[c]) /\ Buffered(ctx[c], data[c], Left(c))
      /\ Answering(c, ctx[c], data[c]) /\ LockList(ctx[c]) /\ Between(c)
  BY <1>1, <1>6 DEF RunInv, Running
<1>8. /\ Naturals_(x, data[c]) /\ Buffered(x, data[c], Left(c))
      /\ Answering(c, x, data[c]) /\ LockList(x)
  BY <1>4, <1>7 DEF Naturals_, Buffered, Answering, LockList
<1>9. /\ opt.auth = {} => x.files = << >> /\ x.st = "Empty"
      /\ Unlocked(opt) => x.lock # "HasLock"
      /\ can_lock => x.lock # "Disabled" /\ ctx[Peer(c)].lock # "Disabled"
      /\ Unlocked(opt) => ~can_lock
  BY <1>4, <1>6, PeerFacts DEF OwnInv
<1>10. Handles(c, u, Left(c))
  BY <1>1, <1>2, <1>4, <1>5, <1>8, <1>9, FieldHandles
<1>11. ctx'[c] = x /\ data' = data /\ msg' = msg /\ opt' = opt /\ valid' = valid
       /\ can_lock' = can_lock
  BY <1>1, <1>2 DEF Living
<1>12. Between(c)' /\ Left(c)' = Left(c)
  BY <1>4, <1>7, <1>11 DEF Between, Left, Faithful, Unlocked, VerifiesText
<1> QED BY <1>1, <1>2, <1>5, <1>9, <1>10, <1>11, <1>12, HandledOwners

LEMMA FormatFields ==
  ASSUME Owners, ClipInv, Running, NEW c \in Sides, NEW x, IsContext(x),
         x.st = ctx[c].st /\ x.clen = ctx[c].clen /\ x.cpos = ctx[c].cpos,
         x.resp = ctx[c].resp /\ x.owed = ctx[c].owed,
         x.flist = ctx[c].flist /\ x.files = ctx[c].files,
         x.lock = ctx[c].lock /\ x.lid = ctx[c].lid /\ x.slot = ctx[c].slot,
         x.locks = ctx[c].locks /\ x.sizes = ctx[c].sizes,
         x.ranges = ctx[c].ranges /\ x.asked = ctx[c].asked,
         ctx[c].cut => x.cut,
         Verifies(c) /\ x.fmt # "none" /\ (x.owed \/ x.st = "RequestedRange") => x.cut,
         msg[c].kind # "fmt", ctx' = [ctx EXCEPT ![c] = x],
         UNCHANGED <<opt, data, can_lock, valid, msg, phase, seen>>
  PROVE  Owners'
<1> DEFINE u == [Work(c) EXCEPT !.x = x]
<1>2. Living
  BY DEF ClipInv, Running
<1>5. /\ Apply(u) /\ IsWork(u) /\ u.c = c /\ u.v = valid /\ u.d = data[c]
      /\ u.s = seen /\ u.x = x /\ ~u.thrown
  BY <1>2, FieldApplies
<1> HIDE DEF u
<1>6. OwnInv /\ RunInv /\ phase # "closed"
  BY DEF Owners, Running
<1>7. /\ Naturals_(ctx[c], data[c]) /\ Buffered(ctx[c], data[c], Left(c))
      /\ Answering(c, ctx[c], data[c]) /\ LockList(ctx[c])
  BY <1>6 DEF RunInv, Running
<1>8. /\ Naturals_(x, data[c]) /\ Buffered(x, data[c], Left(c))
      /\ Answering(c, x, data[c]) /\ LockList(x)
  BY <1>7 DEF Naturals_, Buffered, Answering, LockList
<1>9. /\ opt.auth = {} => x.files = << >> /\ x.st = "Empty"
      /\ Unlocked(opt) => x.lock # "HasLock"
      /\ can_lock => x.lock # "Disabled" /\ ctx[Peer(c)].lock # "Disabled"
      /\ Unlocked(opt) => ~can_lock
  BY <1>6, PeerFacts DEF OwnInv
<1>10. Handles(c, u, Left(c))
  BY <1>2, <1>5, <1>8, <1>9, FieldHandles
<1>12. Between(c)' /\ Left(c)' = Left(c)
  BY DEF Between, Left
<1> QED BY <1>2, <1>5, <1>9, <1>10, <1>12, HandledOwners

LEMMA DataRequestOwners ==
  ASSUME Owners, ClipInv, NEW c \in Sides, NEW f, format_data_request(c, f)
  PROVE  Owners'
<1> DEFINE x == [ctx[c] EXCEPT !.fmt = f,
                   !.cut = @ \/ ctx[c].owed \/ ctx[c].asked # {}]
<1>1. /\ Running /\ ctx' = [ctx EXCEPT ![c] = x]
      /\ ctx[c].fmt = "none" \/ c \notin opt.auth
      /\ UNCHANGED <<opt, data, can_lock, valid, msg, phase, seen>>
  BY DEF format_data_request, Active
<1>2. IsContext(ctx[c])
  BY <1>1 DEF Living, ClipInv, Running
<1>3. /\ IsContext(x) /\ x.st = ctx[c].st /\ x.clen = ctx[c].clen /\ x.cpos = ctx[c].cpos
      /\ x.resp = ctx[c].resp /\ x.owed = ctx[c].owed
      /\ x.flist = ctx[c].flist /\ x.files = ctx[c].files
      /\ x.lock = ctx[c].lock /\ x.lid = ctx[c].lid /\ x.slot = ctx[c].slot
      /\ x.locks = ctx[c].locks /\ x.sizes = ctx[c].sizes /\ x.ranges = ctx[c].ranges
      /\ x.asked = ctx[c].asked
      /\ x.cut = (ctx[c].cut \/ ctx[c].owed \/ ctx[c].asked # {})
  BY <1>2 DEF IsContext
<1> HIDE DEF x
<1>4. Answering(c, ctx[c], data[c]) /\ Between(c)
  BY <1>1 DEF RunInv, Running, Owners
<1>5. msg[c].kind # "fmt"
  BY <1>1, <1>4 DEF Between
<1>6. Verifies(c) /\ x.fmt # "none" /\ (x.owed \/ x.st = "RequestedRange") => x.cut
  BY <1>3, <1>4 DEF Answering
<1> QED BY <1>1, <1>3, <1>5, <1>6, FormatFields

LEMMA DataFailOwners ==
  ASSUME Owners, ClipInv, NEW c \in Sides, format_data_response_fail(c)
  PROVE  Owners'
<1> DEFINE x == [ctx[c] EXCEPT !.fmt = "none"]
<1>1. /\ Running /\ ctx' = [ctx EXCEPT ![c] = x] /\ Silent(c)
      /\ UNCHANGED <<opt, data, can_lock, valid, msg, phase, seen>>
  BY DEF format_data_response_fail, Active
<1>2. IsContext(ctx[c])
  BY <1>1 DEF Living, ClipInv, Running
<1>3. /\ IsContext(x) /\ x.st = ctx[c].st /\ x.clen = ctx[c].clen /\ x.cpos = ctx[c].cpos
      /\ x.resp = ctx[c].resp /\ x.owed = ctx[c].owed
      /\ x.flist = ctx[c].flist /\ x.files = ctx[c].files
      /\ x.lock = ctx[c].lock /\ x.lid = ctx[c].lid /\ x.slot = ctx[c].slot
      /\ x.locks = ctx[c].locks /\ x.sizes = ctx[c].sizes /\ x.ranges = ctx[c].ranges
      /\ x.asked = ctx[c].asked /\ x.cut = ctx[c].cut /\ x.fmt = "none"
  BY <1>2 DEF IsContext
<1> HIDE DEF x
<1>4. msg[c].kind # "fmt"
  BY <1>1 DEF Silent
<1> QED BY <1>1, <1>3, <1>4, FormatFields

LEMMA LockOwners ==
  ASSUME Owners, ClipInv, NEW c \in Sides, NEW l \in Locks, lock(c, l)
  PROVE  Owners'
<1> DEFINE w == Work(c)
           a == Asserted(w, ctx[c].lock # "Disabled")
           u == [a EXCEPT !.x.lid = l, !.x.lock = "HasLock"]
<1>1. Running /\ can_lock /\ Apply(u) /\ can_lock' = can_lock /\ msg' = msg
  BY DEF lock, Active
<1>2. Living
  BY <1>1 DEF ClipInv, Running
<1>3. OwnInv /\ RunInv /\ phase # "closed"
  BY <1>1 DEF Owners, Running
<1>4. /\ IsWork(w) /\ w.c = c /\ w.x = ctx[c] /\ w.d = data[c] /\ w.v = valid
      /\ w.s = seen /\ ~w.thrown
  BY <1>2, WorkIsWork
<1> HIDE DEF w
<1>5. /\ can_lock => ctx[c].lock # "Disabled" /\ ctx[Peer(c)].lock # "Disabled"
      /\ Unlocked(opt) => ~can_lock
      /\ opt.auth = {} => ctx[c].files = << >> /\ ctx[c].st = "Empty"
  BY <1>3, PeerFacts DEF OwnInv
<1>6. /\ IsWork(a) /\ a.c = w.c /\ a.x = w.x /\ a.d = w.d /\ a.v = w.v
      /\ a.s.keep = w.s.keep /\ a.s.text = w.s.text /\ a.thrown = w.thrown
      /\ ~w.s.assertion => ~a.s.assertion
  BY <1>1, <1>4, <1>5 DEF Asserted, IsWork, IsSeen
<1> HIDE DEF a
<1>7. /\ IsWork(u) /\ u.c = a.c /\ u.d = a.d /\ u.v = a.v /\ u.s = a.s
      /\ u.thrown = a.thrown
      /\ u.x.st = a.x.st /\ u.x.clen = a.x.clen /\ u.x.cpos = a.x.cpos
      /\ u.x.resp = a.x.resp /\ u.x.owed = a.x.owed /\ u.x.cut = a.x.cut
      /\ u.x.fmt = a.x.fmt /\ u.x.flist = a.x.flist /\ u.x.files = a.x.files
      /\ u.x.lock = "HasLock" /\ u.x.lid = l /\ u.x.slot = a.x.slot
      /\ u.x.locks = a.x.locks /\ u.x.sizes = a.x.sizes /\ u.x.ranges = a.x.ranges
      /\ u.x.asked = a.x.asked
  BY <1>6 DEF IsWork, IsContext
<1> HIDE DEF u
<1>8. /\ Naturals_(ctx[c], data[c]) /\ Buffered(ctx[c], data[c], Left(c))
      /\ Answering(c, ctx[c], data[c]) /\ LockList(ctx[c]) /\ Between(c)
  BY <1>1, <1>3 DEF RunInv, Running
<1>9. /\ Naturals_(u.x, data[c]) /\ Buffered(u.x, data[c], Left(c))
      /\ Answering(c, u.x, data[c]) /\ LockList(u.x)
  BY <1>4, <1>6, <1>7, <1>8 DEF Naturals_, Buffered, Answering, LockList
<1>10. Handles(c, u, Left(c))
  BY <1>1, <1>2, <1>4, <1>5, <1>6, <1>7, <1>9, FieldHandles
<1>11. /\ ctx'[c] = u.x /\ data'[c] = u.d /\ opt' = opt /\ valid' = u.v
  BY <1>1, <1>2, <1>4, <1>6, <1>7 DEF Apply, Living
<1>12. Between(c)' /\ Left(c)' = Left(c)
  BY <1>1, <1>4, <1>6, <1>7, <1>8, <1>11 DEF Between, Left, Faithful, Unlocked, VerifiesText
<1> QED BY <1>1, <1>2, <1>5, <1>7, <1>10, <1>12, HandledOwners

(* The old data of the side is given up. *)
LEMMA ListStops ==
  ASSUME Owners, Living, Running, NEW c \in Sides, NEW f, IsWork(f), f.c = c,
         f.d = data[c], f.v = valid, f.s = seen, ~f.thrown,
         f.x.st = ctx[c].st, f.x.ranges = ctx[c].ranges, f.x.clen = ctx[c].clen,
         f.x.cpos = ctx[c].cpos, f.x.resp = ctx[c].resp, f.x.owed = ctx[c].owed,
         f.x.cut = ctx[c].cut, f.x.fmt = ctx[c].fmt, f.x.asked = ctx[c].asked,
         f.x.files = << >>
  PROVE  LET u == stop_nolock_data(f)
         IN  /\ Good(u, Others(c)) /\ Elsewhere(valid, u.v, Others(c)) /\ u.c = c
             /\ u.x.st = "Empty" /\ Fit(u, Left(c)) /\ SameLists(f.x, u.x)
             /\ u.x.files = << >> /\ ~u.thrown /\ u.s.text = seen.text
             /\ ~seen.assertion => ~u.s.assertion
<1> DEFINE u == stop_nolock_data(f)
           o == Others(c)
<1>1. OwnInv /\ RunInv /\ phase # "closed"
  BY DEF Owners, Running
<1>2. Held(data[c], valid, seen.keep, o) /\ Settled(c, ctx[c].st, data[c], valid)
  BY <1>1 DEF OwnInv
<1>3. Good(f, o)
  BY <1>2 DEF Good, Owned
<1>4. /\ Restarts(f, u, o) /\ Sound(f, u)
      /\ IF f.x.st \in Waiting THEN u.x.owed = FALSE /\ u.x.cut = FALSE
         ELSE SameOwed(f, u)
  BY <1>3, StopNolockRestarts
<1> HIDE DEF u, o
<1>5. Naturals_(ctx[c], data[c]) /\ Answering(c, ctx[c], data[c])
  BY <1>1 DEF RunInv, Running
<1>6. Naturals_(f.x, f.d)
  BY <1>5, EmptySeq DEF Naturals_
<1>7. /\ ~Verifies(f.c) => ~u.x.owed
      /\ u.x.owed => u.x.cut \/ f.d.size > MaxFile
      /\ u.x.owed /\ f.x.fmt # "none" => u.x.cut
  BY <1>4, <1>5 DEF Answering, SameOwed
<1>8. Fit(u, Left(c))
  BY <1>4, <1>6, <1>7, RestartsFit
<1>9. Serves(f, u, o) /\ u.x.st = "Empty" /\ u.x.files = f.x.files
  BY <1>4, RestartsServes
<1>10. u.s.text = f.s.text /\ ~u.thrown
  BY <1>4 DEF Restarts, SameSeen
<1>11. /\ Good(u, o) /\ Elsewhere(valid, u.v, o) /\ u.c = c /\ SameLists(f.x, u.x)
       /\ ~seen.assertion => ~u.s.assertion
  BY <1>4, <1>9 DEF Serves, Beside, Sound
<1> QED BY <1>8, <1>9, <1>10, <1>11 DEF u, o

LEMMA FormatListOwners ==
  ASSUME Owners, ClipInv, NEW c \in Sides, NEW complete \in BOOLEAN,
         NEW hasFiles \in BOOLEAN, format_list(c, complete, hasFiles)
  PROVE  Owners'
<1> DEFINE w == Work(c)
           lk == UnsetLock(w.x)
           f == [w EXCEPT !.x.flist = FALSE, !.x.files = << >>, !.x.lock = lk]
           s == stop_nolock_data(f)
           e == [s EXCEPT !.x.flist = hasFiles]
           u == IF ~complete THEN w ELSE IF opt.auth = {} THEN f ELSE e
<1>1. Running /\ Silent(c) /\ Apply(u) /\ can_lock' = can_lock /\ msg' = msg
  BY DEF format_list, Active
<1>2. Living
  BY <1>1 DEF ClipInv, Running
<1>3. OwnInv /\ RunInv /\ phase # "closed"
  BY <1>1 DEF Owners, Running
<1>4. /\ IsWork(w) /\ w.c = c /\ w.x = ctx[c] /\ w.d = data[c] /\ w.v = valid
      /\ w.s = seen /\ ~w.thrown
  BY <1>2, WorkIsWork
<1>5. /\ can_lock => ctx[c].lock # "Disabled" /\ ctx[Peer(c)].lock # "Disabled"
      /\ Unlocked(opt) => ~can_lock
      /\ opt.auth = {} => ctx[c].files = << >> /\ ctx[c].st = "Empty"
      /\ Unlocked(opt) => ctx[c].lock # "HasLock"
  BY <1>3, PeerFacts DEF OwnInv
<1>6. /\ Naturals_(ctx[c], data[c]) /\ Buffered(ctx[c], data[c], Left(c))
      /\ Answering(c, ctx[c], data[c]) /\ LockList(ctx[c])
  BY <1>1, <1>3 DEF RunInv, Running
<1>7. lk # "HasLock" /\ (lk = "Disabled" => ctx[c].lock = "Disabled")
  BY <1>4 DEF UnsetLock
<1> HIDE DEF w, lk
<1>8. /\ IsWork(f) /\ f.c = w.c /\ f.d = w.d /\ f.v = w.v /\ f.s = w.s
      /\ f.thrown = w.thrown
      /\ f.x.st = w.x.st /\ f.x.clen = w.x.clen /\ f.x.cpos = w.x.cpos
      /\ f.x.resp = w.x.resp /\ f.x.owed = w.x.owed /\ f.x.cut = w.x.cut
      /\ f.x.fmt = w.x.fmt /\ f.x.flist = FALSE /\ f.x.files = << >>
      /\ f.x.lock = lk /\ f.x.lid = w.x.lid /\ f.x.slot = w.x.slot
      /\ f.x.locks = w.x.locks /\ f.x.sizes = w.x.sizes /\ f.x.ranges = w.x.ranges
      /\ f.x.asked = w.x.asked
  BY ZenonT(60), <1>4 DEF IsWork, IsContext
<1> HIDE DEF f
<1>9. LockList(f.x)
  BY <1>4, <1>6, <1>7, <1>8 DEF LockList
<1>10. ASSUME ~complete
       PROVE  Handles(c, u, Left(c)) /\ (can_lock => u.x.lock # "Disabled")
  <2>1. u = w
    BY <1>10
  <2> HIDE DEF u
  <2>2. Handles(c, u, Left(c))
    BY <1>1, <1>2, <1>4, <1>5, <1>6, <2>1, FieldHandles
  <2> QED BY <1>4, <1>5, <2>1, <2>2
<1>11. ASSUME complete /\ opt.auth = {}
       PROVE  Handles(c, u, Left(c)) /\ (can_lock => u.x.lock # "Disabled")
  <2>1. u = f
    BY <1>11
  <2> HIDE DEF u
  <2>2. /\ Naturals_(f.x, data[c]) /\ Buffered(f.x, data[c], Left(c))
        /\ Answering(c, f.x, data[c])
    BY <1>4, <1>5, <1>6, <1>8, <1>11 DEF Naturals_, Buffered, Answering
  <2>3. Handles(c, u, Left(c))
    BY <1>1, <1>2, <1>4, <1>5, <1>7, <1>8, <1>9, <1>11, <2>1, <2>2, FieldHandles
  <2> QED BY <1>4, <1>5, <1>7, <1>8, <2>1, <2>3
<1>12. ASSUME complete /\ opt.auth # {}
       PROVE  Handles(c, u, Left(c)) /\ (can_lock => u.x.lock # "Disabled")
  <2>1. u = e
    BY <1>12
  <2> HIDE DEF u
  <2>2. /\ Good(s, Others(c)) /\ Elsewhere(valid, s.v, Others(c)) /\ s.c = c
        /\ s.x.st = "Empty" /\ Fit(s, Left(c)) /\ SameLists(f.x, s.x)
        /\ s.x.files = << >> /\ ~s.thrown /\ s.s.text = seen.text
        /\ ~seen.assertion => ~s.s.assertion
    BY <1>1, <1>2, <1>4, <1>8, ListStops
  <2> HIDE DEF s
  <2>3. IsWork(s)
    BY <2>2 DEF Good, Owned
  <2>4. /\ IsWork(e) /\ e.c = s.c /\ e.d = s.d /\ e.v = s.v /\ e.s = s.s
        /\ e.thrown = s.thrown
        /\ e.x.st = s.x.st /\ e.x.clen = s.x.clen /\ e.x.cpos = s.x.cpos
        /\ e.x.resp = s.x.resp /\ e.x.owed = s.x.owed /\ e.x.cut = s.x.cut
        /\ e.x.fmt = s.x.fmt /\ e.x.files = s.x.files
        /\ e.x.lock = s.x.lock /\ e.x.lid = s.x.lid /\ e.x.slot = s.x.slot
        /\ e.x.locks = s.x.locks /\ e.x.sizes = s.x.sizes /\ e.x.ranges = s.x.ranges
        /\ e.x.asked = s.x.asked
    BY <2>3 DEF IsWork, IsContext
  <2> HIDE DEF e
  <2>5. Good(e, Others(c))
    BY <2>2, <2>4 DEF Good, Owned
  <2>6. Fit(e, Left(c)) /\ LockList(e.x)
    BY <1>9, <2>2, <2>4 DEF Fit, Naturals_, Buffered, Answering, LockList, SameLists
  <2>7. e.x.ranges = ctx[c].ranges /\ e.x.lock = lk
    BY <1>4, <1>8, <2>2, <2>4 DEF SameLists
  <2>8. Leaves(c, e)
    BY <1>3, <1>7, <2>2, <2>4, <2>5, <2>7, StaysLeaves
  <2>9. Handles(c, u, Left(c))
    BY <2>1, <2>2, <2>4, <2>6, <2>8 DEF Handles
  <2> QED BY <1>5, <1>7, <2>1, <2>7, <2>9
<1> HIDE DEF u
<1>13. Handles(c, u, Left(c)) /\ (can_lock => u.x.lock # "Disabled")
  BY <1>10, <1>11, <1>12
<1>14. Between(c)' /\ Left(c)' = Left(c)
  BY <1>1 DEF Between, Left, Silent
<1> QED BY <1>1, <1>2, <1>5, <1>13, <1>14, HandledOwners

LEMMA DataResponseOwners ==
  ASSUME Owners, ClipInv, opt \in Options, NEW c \in Sides, NEW first \in BOOLEAN,
         NEW last \in BOOLEAN, NEW files \in opt.lists \cup {<< >>},
         NEW big \in BOOLEAN, format_data_response(c, first, last, files, big)
  PROVE  Owners'
<1> DEFINE w == Work(c)
           t == DataChunk(w, first, last, files, big)
           fm == IF last /\ ~t.thrown THEN "none" ELSE t.x.fmt
           u == [t EXCEPT !.x.fmt = fm]
           o == Others(c)
<1>1. /\ Running /\ c \in opt.active /\ c \in opt.auth
      /\ IF first THEN Silent(c) /\ ctx[c].fmt # "none" ELSE msg[c].kind = "fmt"
      /\ ctx[c].fmt = "files" => first \/ IsPrefix(ctx[c].files, files)
      /\ first => Fresh(valid) # {}
      /\ msg' = [msg EXCEPT ![c] = IF last THEN NoMsg
                                   ELSE [kind |-> "fmt", left |-> 0, sid |-> 0]]
      /\ can_lock' = can_lock
  BY DEF format_data_response, Active
<1>2. Apply(u)
  BY DEF format_data_response
<1>3. Living
  BY <1>1 DEF ClipInv, Running
<1>4. OwnInv /\ RunInv /\ phase # "closed"
  BY <1>1 DEF Owners, Running
<1>5. /\ IsWork(w) /\ w.c = c /\ w.x = ctx[c] /\ w.d = data[c] /\ w.v = valid
      /\ w.s = seen /\ ~w.thrown
  BY <1>3, WorkIsWork
<1>6. Good(w, o) /\ Fit(w, Left(c)) /\ LockList(w.x)
  BY <1>1, <1>3, <1>4, WorkGood, WorkFit
<1>7. /\ can_lock => ctx[c].lock # "Disabled" /\ ctx[Peer(c)].lock # "Disabled"
      /\ Unlocked(opt) => ~can_lock /\ ctx[c].lock # "HasLock"
  BY <1>4, PeerFacts DEF OwnInv
<1>8. Between(c)
  BY <1>1, <1>4 DEF RunInv, Running
<1>9. files \in Seq(Nat)
  BY OptionsAssumption, EmptySeq
<1> HIDE DEF w, o
<1>10. w.x.fmt # "none"
  BY <1>1, <1>5, <1>8 DEF Between
<1>11. ~first => Within(w)
  BY <1>1, <1>5, <1>8 DEF Between, Within, Amid
<1>12. Delivers(w, t, o, Left(c)) /\ (~last /\ ~t.thrown => Within(t))
  BY <1>1, <1>5, <1>6, <1>7, <1>9, <1>10, <1>11, DataChunkServes
<1> HIDE DEF t, fm
<1>13. IsWork(t)
  BY <1>12 DEF Delivers, Good, Owned
<1>14. /\ IsWork(u) /\ u.c = t.c /\ u.d = t.d /\ u.v = t.v /\ u.s = t.s
       /\ u.thrown = t.thrown
       /\ u.x.st = t.x.st /\ u.x.clen = t.x.clen /\ u.x.cpos = t.x.cpos
       /\ u.x.resp = t.x.resp /\ u.x.owed = t.x.owed /\ u.x.cut = t.x.cut
       /\ u.x.fmt = fm /\ u.x.files = t.x.files /\ u.x.flist = t.x.flist
       /\ u.x.lock = t.x.lock /\ u.x.lid = t.x.lid /\ u.x.slot = t.x.slot
       /\ u.x.locks = t.x.locks /\ u.x.sizes = t.x.sizes /\ u.x.ranges = t.x.ranges
       /\ u.x.asked = t.x.asked
  BY <1>13 DEF IsWork, IsContext
<1> HIDE DEF u
<1>15. Good(u, o) /\ Elsewhere(valid, u.v, o) /\ u.c = c /\ u.x.ranges = ctx[c].ranges
  BY <1>5, <1>12, <1>14 DEF Delivers, Good, Owned
<1>16. fm \in {t.x.fmt, "none"}
  BY DEF fm
<1>17. u.thrown \/ (Fit(u, Left(c)) /\ LockList(u.x))
  <2>1. t.thrown \/ (Fit(t, Left(c)) /\ LockList(t.x))
    BY <1>6, <1>12 DEF Delivers
  <2> QED BY <1>14, <1>16, <2>1 DEF Fit, Naturals_, Buffered, Answering, LockList
<1>18. u.x.lock = ctx[c].lock \/ u.x.lock = "LockIsUsed"
  BY <1>5, <1>12, <1>14 DEF Delivers
<1>19. Leaves(c, u)
  BY <1>1, <1>4, <1>7, <1>15, <1>18, StaysLeaves DEF o
<1>20. Handles(c, u, Left(c))
  BY <1>5, <1>12, <1>14, <1>17, <1>19 DEF Handles, Delivers, Sound
<1>21. /\ ctx'[c] = u.x /\ data'[c] = u.d /\ opt' = opt /\ valid' = u.v
  BY <1>2, <1>3, <1>15 DEF Apply, Living
<1>22. Left(c)' = Left(c)
  BY <1>1 DEF Left, Silent, NoMsg
<1>24. \E m : msg' = [msg EXCEPT ![c] = m]
  <2> DEFINE m == IF last THEN NoMsg ELSE [kind |-> "fmt", left |-> 0, sid |-> 0]
  <2>1. msg' = [msg EXCEPT ![c] = m]
    BY <1>1
  <2> HIDE DEF m
  <2> QED BY <2>1
<1>23. ~u.thrown => Between(c)'
  <2>1. CASE last
    BY <1>1, <2>1 DEF Between, NoMsg, Spoken, Owners
  <2>2. CASE ~last
    <3>1. fm = t.x.fmt /\ fm # "none" /\ (~t.thrown => Within(t))
      BY <1>5, <1>10, <1>12, <2>2 DEF fm, Delivers
    <3> QED BY <1>1, <1>14, <1>15, <1>21, <3>1
               DEF Between, Within, Amid, Faithful, Unlocked, VerifiesText
  <2> QED BY <2>1, <2>2
<1> QED BY <1>1, <1>2, <1>3, <1>7, <1>18, <1>20, <1>22, <1>23, <1>24, HandledOwners

----------------------------------------------------------------------------
(* The transfers of locked_data. *)
SameNumbers(a, b) == a.own = b.own /\ a.tfl = b.tfl /\ a.vid = b.vid /\ a.keep = b.keep

LEMMA HeldNumbers ==
  ASSUME NEW d, NEW v, NEW k, NEW a, NEW b, Held(d, v, k, a), SameNumbers(a, b)
  PROVE  Held(d, v, k, b)
BY DEF Held, SameNumbers, Numbered, Listing, Recorded, Identified, Kept

(* A range among the others, or beside them. *)
LEMMA RangeApart ==
  ASSUME NEW S, NEW r, NEW q, r.d.own # 0, r.d.verdict = "Wait"
  PROVE  SameNumbers(Plus(OfRanges(S \cup {r}), q), Plus(Plus(OfRanges(S), q), r.d))
<1> DEFINE a == OfRanges(S \cup {r})
           b == OfRanges(S)
           e == Plus(a, q)
           f == Plus(b, q)
           g == Plus(f, r.d)
<1>1. /\ a.own = {s.d.own : s \in S \cup {r}} /\ a.tfl = {s.d.tfl : s \in S \cup {r}} \ {0}
      /\ a.vid = {s.d.vid : s \in S \cup {r}} \ {0} /\ a.keep = {}
  BY DEF OfRanges
<1>2. /\ b.own = {s.d.own : s \in S} /\ b.tfl = {s.d.tfl : s \in S} \ {0}
      /\ b.vid = {s.d.vid : s \in S} \ {0} /\ b.keep = {}
  BY DEF OfRanges
<1> HIDE DEF a, b
<1>3. /\ e.own = a.own \cup ({q.own} \ {0}) /\ e.tfl = a.tfl \cup ({q.tfl} \ {0})
      /\ e.vid = a.vid \cup ({q.vid} \ {0})
      /\ e.keep = a.keep \cup (IF q.verdict = "Failure" THEN {q.tfl} \ {0} ELSE {})
  BY DEF Plus
<1>4. /\ f.own = b.own \cup ({q.own} \ {0}) /\ f.tfl = b.tfl \cup ({q.tfl} \ {0})
      /\ f.vid = b.vid \cup ({q.vid} \ {0})
      /\ f.keep = b.keep \cup (IF q.verdict = "Failure" THEN {q.tfl} \ {0} ELSE {})
  BY DEF Plus
<1> HIDE DEF e, f
<1>5. /\ g.own = f.own \cup ({r.d.own} \ {0}) /\ g.tfl = f.tfl \cup ({r.d.tfl} \ {0})
      /\ g.vid = f.vid \cup ({r.d.vid} \ {0}) /\ g.keep = f.keep
  BY DEF Plus
<1> HIDE DEF g
<1>6. {s.d.own : s \in S \cup {r}} = {s.d.own : s \in S} \cup {r.d.own}
  OBVIOUS
<1>7. {s.d.tfl : s \in S \cup {r}} = {s.d.tfl : s \in S} \cup {r.d.tfl}
  OBVIOUS
<1>8. {s.d.vid : s \in S \cup {r}} = {s.d.vid : s \in S} \cup {r.d.vid}
  OBVIOUS
<1>9. e.own = g.own
  BY <1>1, <1>2, <1>3, <1>4, <1>5, <1>6
<1>10. e.tfl = g.tfl
  BY <1>1, <1>2, <1>3, <1>4, <1>5, <1>7
<1>11. e.vid = g.vid
  BY <1>1, <1>2, <1>3, <1>4, <1>5, <1>8
<1>12. e.keep = g.keep
  BY <1>1, <1>2, <1>3, <1>4, <1>5
<1> QED BY <1>9, <1>10, <1>11, <1>12 DEF SameNumbers, e, g, f, a, b

(* The numbers of some of the transfers. *)
LEMMA FewerNumbered ==
  ASSUME NEW o, NEW q, NEW v, Numbered(Plus(o, q), v),
         o.tfl \cup o.vid \subseteq o.own, o.keep \subseteq o.tfl
  PROVE  Numbered(o, v)
<1>1. o.own \subseteq Plus(o, q).own
  BY DEF Plus
<1> QED BY <1>1 DEF Numbered

(* The ranges S and the transfer q of the other side. *)
Numbers(S, q) ==
    /\ \A r \in S : Linked(r.d) /\ r.d.own # 0 /\ r.d.own # q.own
    /\ Linked(q)

LEMMA NumbersOwn ==
  ASSUME NEW S, NEW q, Numbers(S, q)
  PROVE  LET o == Plus(OfRanges(S), q)
         IN  /\ o.tfl \cup o.vid \subseteq o.own /\ o.keep \subseteq o.tfl
             /\ o.own = {r.d.own : r \in S} \cup ({q.own} \ {0})
             /\ \A r \in S : r.d.own \in o.own
<1> DEFINE b == OfRanges(S)
           o == Plus(b, q)
<1>1. /\ b.own = {s.d.own : s \in S} /\ b.tfl = {s.d.tfl : s \in S} \ {0}
      /\ b.vid = {s.d.vid : s \in S} \ {0} /\ b.keep = {}
  BY DEF OfRanges
<1> HIDE DEF b
<1>2. /\ o.own = b.own \cup ({q.own} \ {0}) /\ o.tfl = b.tfl \cup ({q.tfl} \ {0})
      /\ o.vid = b.vid \cup ({q.vid} \ {0})
      /\ o.keep = b.keep \cup (IF q.verdict = "Failure" THEN {q.tfl} \ {0} ELSE {})
  BY DEF Plus
<1> HIDE DEF o
<1>3. b.tfl \subseteq b.own /\ b.vid \subseteq b.own
  BY <1>1 DEF Numbers, Linked
<1>4. q.tfl \in {0, q.own} /\ q.vid \in {0, q.own}
  BY DEF Numbers, Linked
<1>5. /\ o.tfl \cup o.vid \subseteq o.own /\ o.keep \subseteq o.tfl
      /\ o.own = {r.d.own : r \in S} \cup ({q.own} \ {0})
      /\ \A r \in S : r.d.own \in o.own
  BY <1>1, <1>2, <1>3, <1>4
<1> QED BY <1>5 DEF o, b

(* The range r, seen from its own transfer. *)
LEMMA RangeOut ==
  ASSUME NEW S, NEW r, NEW q, NEW d, NEW v, NEW k,
         Held(d, v, k, Plus(OfRanges(S \cup {r}), q)),
         Numbers(S, q), Linked(r.d), r.d.own # 0, r.d.verdict = "Wait",
         r.d.own # q.own, \A s \in S : s.d.own # r.d.own
  PROVE  Held(r.d, v, k, Plus(Plus(OfRanges(S), q), d))
<1> DEFINE o == Plus(OfRanges(S), q)
           e == r.d
<1>1. SameNumbers(Plus(OfRanges(S \cup {r}), q), Plus(o, e))
  BY RangeApart
<1>2. Held(d, v, k, Plus(o, e))
  BY <1>1, HeldNumbers
<1>3. /\ o.tfl \cup o.vid \subseteq o.own /\ o.keep \subseteq o.tfl
      /\ o.own = {s.d.own : s \in S} \cup ({q.own} \ {0})
  BY NumbersOwn
<1>4. e.own \notin o.own /\ Linked(e)
  BY <1>3
<1> HIDE DEF o, e
<1>5. Numbered(Plus(o, e), v)
  BY <1>2 DEF Held
<1>6. Numbered(o, v)
  BY <1>3, <1>5, FewerNumbered
<1>7. Held(e, v, k, Plus(o, d))
  BY <1>2, <1>4, <1>6, Exchange
<1> QED BY <1>7 DEF o, e

(* And back. *)
LEMMA RangeIn ==
  ASSUME NEW S, NEW r, NEW q, NEW d, NEW v, NEW k,
         Held(r.d, v, k, Plus(Plus(OfRanges(S), q), d)), Numbers(S, q), Linked(d),
         d.own \notin Plus(OfRanges(S), q).own, r.d.own # 0, r.d.verdict = "Wait"
  PROVE  Held(d, v, k, Plus(OfRanges(S \cup {r}), q))
<1> DEFINE o == Plus(OfRanges(S), q)
           e == r.d
<1>1. SameNumbers(Plus(OfRanges(S \cup {r}), q), Plus(o, e))
  BY RangeApart
<1>2. Held(e, v, k, Plus(o, d)) /\ d.own \notin o.own
  OBVIOUS
<1>3. o.tfl \cup o.vid \subseteq o.own /\ o.keep \subseteq o.tfl
  BY NumbersOwn
<1> HIDE DEF o, e
<1>4. Numbered(Plus(o, d), v)
  BY <1>2 DEF Held
<1>5. Numbered(o, v)
  BY <1>3, <1>4, FewerNumbered
<1>6. Held(d, v, k, Plus(o, e))
  BY <1>2, <1>5, Exchange
<1>7. SameNumbers(Plus(o, e), Plus(OfRanges(S \cup {r}), q))
  BY <1>1 DEF SameNumbers
<1> QED BY <1>6, <1>7, HeldNumbers

(* A transfer that has given up all it held. *)
LEMMA RangeGone ==
  ASSUME NEW e, NEW o, NEW d, NEW v, NEW k, Held(e, v, k, Plus(o, d)), Linked(d),
         d.own \notin o.own, e.tfl = 0, e.vid = 0,
         o.tfl \cup o.vid \subseteq o.own, o.keep \subseteq o.tfl
  PROVE  Held(d, v, k, o)
<1> DEFINE a == Plus(o, e)
<1>1. Numbered(Plus(o, d), v)
  BY DEF Held
<1>2. Numbered(o, v)
  BY <1>1, FewerNumbered
<1>3. Held(d, v, k, a)
  BY <1>2, Exchange
<1>4. /\ a.own = o.own \cup ({e.own} \ {0}) /\ a.tfl = o.tfl /\ a.vid = o.vid
      /\ a.keep = o.keep
  BY DEF Plus
<1> HIDE DEF a
<1>5. Listing(d, v, o) /\ Recorded(d, v, o) /\ Identified(d, v, o) /\ Kept(d, v, k, o)
  BY <1>3, <1>4 DEF Held, Listing, Recorded, Identified, Kept
<1> QED BY <1>2, <1>3, <1>4, <1>5 DEF Held

(* A transfer that has not begun. *)
LEMMA NothingHeld ==
  ASSUME NEW d, NEW v, NEW k, NEW o, Held(d, v, k, o), NEW e, e.own = 0, e.tfl = 0,
         e.vid = 0
  PROVE  Held(e, v, k, Plus(o, d))
<1> DEFINE a == Plus(o, d)
<1>1. /\ a.own = o.own \cup ({d.own} \ {0}) /\ a.tfl = o.tfl \cup ({d.tfl} \ {0})
      /\ a.vid = o.vid \cup ({d.vid} \ {0})
      /\ a.keep = o.keep \cup (IF d.verdict = "Failure" THEN {d.tfl} \ {0} ELSE {})
  BY DEF Plus
<1> HIDE DEF a
<1>2. 0 \notin Ids
  BY DEF Ids
<1>3. Numbered(a, v) /\ Linked(e) /\ e.own \notin a.own
  BY <1>1, <1>2 DEF Held, Numbered, Linked
<1>4. Listing(e, v, a) /\ Recorded(e, v, a)
  BY <1>1, <1>2 DEF Held, Listing, Recorded
<1>5. Identified(e, v, a) /\ Kept(e, v, k, a)
  BY <1>1, <1>2 DEF Held, Identified, Kept
<1>6. Held(e, v, k, a)
  BY <1>3, <1>4, <1>5 DEF Held
<1> QED BY <1>6 DEF a

SameButRanges(x, y) ==
    /\ y.locks = x.locks /\ y.sizes = x.sizes /\ y.slot = x.slot /\ y.lock = x.lock
    /\ y.lid = x.lid /\ y.flist = x.flist /\ y.fmt = x.fmt
    /\ y.st = x.st /\ y.clen = x.clen /\ y.cpos = x.cpos /\ y.resp = x.resp
    /\ y.owed = x.owed /\ y.cut = x.cut /\ y.files = x.files /\ y.asked = x.asked

(* What a chunk leaves of the range it belongs to: nothing, or the range with
   the transfer e. *)
Leftover(r, e, left, v) ==
    /\ e.own = r.d.own /\ e.verdict = "Wait"
    /\ \/ left = {} /\ e.tfl = 0 /\ e.vid = 0
       \/ \E s : /\ left = {s} /\ IsLocked(s) /\ s.d = e /\ e.sig = "Update"
                 /\ e.vid # 0 => v.svc[e.vid] = "open"

LEMMA FinalizeLink ==
  ASSUME NEW w, IsWork(w), Complete(w.d)
  PROVE  LET u == set_finalize_file_transfer(w)
         IN  /\ IsWork(u) /\ u.c = w.c /\ u.x = w.x /\ u.v = w.v
             /\ u.thrown = w.thrown /\ SameSeen(w, u)
             /\ u.d.own = w.d.own /\ u.d.verdict = w.d.verdict
             /\ u.d.vid = w.d.vid /\ u.d.tfl = w.d.tfl /\ u.d.sig = "Final"
             /\ w.d.sig = "Update" => Sound(w, u)
BY ZenonT(60) DEF set_finalize_file_transfer, SigFinal, Asserted, IsWork, IsRange, IsSeen,
       SameSeen, Sound

ChunkRest(w, r, t, o) ==
    \E e, left : /\ t.x.ranges = (w.x.ranges \ {r}) \cup left
                 /\ Held(e, t.v, t.s.keep, o) /\ Leftover(r, e, left, t.v)

LEMMA LockedChunkSteps ==
  ASSUME NEW w, IsWork(w), NEW r, IsLocked(r), NEW o, Held(r.d, w.v, w.s.keep, o),
         r.d.verdict = "Wait", r.d.sig = "Update",
         r.d.vid # 0 => w.v.svc[r.d.vid] = "open", NEW n, NEW last \in BOOLEAN
  PROVE  LET t == LockedChunk(w, r, n, last)
         IN  /\ IsWork(t) /\ t.c = w.c /\ t.d = w.d /\ t.thrown = w.thrown
             /\ t.s.keep = w.s.keep /\ t.s.text = w.s.text /\ Sound(w, t)
             /\ SameButRanges(w.x, t.x) /\ Elsewhere(w.v, t.v, o)
             /\ ChunkRest(w, r, t, o)
<1> DEFINE b == [w EXCEPT !.d = r.d]
           a == update_file_range_data(b, n)
           u == PassFile(a)
           f == set_finalize_file_transfer(u)
           e == IF last /\ Complete(u.d) THEN close_file_rng(f) ELSE u
           left == IF ~last THEN {[r EXCEPT !.d = e.d]}
                   ELSE IF Complete(u.d) THEN {}
                   ELSE {[r EXCEPT !.d = e.d, !.st = "WaitingRequest"]}
           rs == (e.x.ranges \ {r}) \cup left
           t == [e EXCEPT !.d = w.d, !.x.ranges = rs]
<1>1. t = LockedChunk(w, r, n, last)
  BY DEF LockedChunk
<1>2. /\ IsWork(b) /\ b.c = w.c /\ b.x = w.x /\ b.v = w.v /\ b.s = w.s
      /\ b.thrown = w.thrown /\ b.d = r.d
  BY DEF IsWork, IsLocked
<1> HIDE DEF b
<1>3. /\ IsWork(a) /\ a.c = w.c /\ a.x = w.x /\ a.v = w.v /\ a.thrown = w.thrown
      /\ SameSeen(w, a) /\ Sound(w, a) /\ SameLink(r.d, a.d)
  <2>1. /\ IsWork(a) /\ SameRest(b, a) /\ a.x = b.x /\ SameSeen(b, a)
        /\ SameLink(b.d, a.d)
        /\ (b.d.vid # 0 => b.v.svc[b.d.vid] = "open") => Sound(b, a)
    BY <1>2, UpdateFields
  <2> QED BY <1>2, <2>1 DEF SameRest, SameSeen, SameLink, Sound
<1> HIDE DEF a
<1>4. /\ IsWork(u) /\ u.c = w.c /\ u.x = w.x /\ u.v = w.v /\ u.thrown = w.thrown
      /\ u.s.keep = w.s.keep /\ u.s.text = w.s.text /\ Sound(w, u) /\ SameLink(r.d, u.d)
  BY <1>3 DEF PassFile, IsWork, IsSeen, SameSeen, Sound
<1> HIDE DEF u
<1>5. Owned(u, o)
  <2> DEFINE d == r.d
             g == u.d
             v == w.v
             k == w.s.keep
  <2>1. Held(d, v, k, o) /\ g.own = d.own /\ g.tfl = d.tfl /\ g.vid = d.vid
        /\ g.verdict = d.verdict
    BY <1>4 DEF SameLink
  <2> HIDE DEF d, g, v, k
  <2>2. Held(g, v, k, o)
    BY <2>1, HeldSame
  <2> QED BY <1>4, <2>2 DEF Owned, d, g, v, k
<1>6. CASE last /\ Complete(u.d)
  <2>1. /\ IsWork(f) /\ f.c = u.c /\ f.x = u.x /\ f.v = u.v
        /\ f.thrown = u.thrown /\ SameSeen(u, f)
        /\ f.d.own = u.d.own /\ f.d.verdict = u.d.verdict
        /\ f.d.vid = u.d.vid /\ f.d.tfl = u.d.tfl /\ f.d.sig = "Final"
        /\ u.d.sig = "Update" => Sound(u, f)
    BY <1>4, <1>6, FinalizeLink
  <2> HIDE DEF f
  <2>2. Owned(f, o)
    <3> DEFINE d == u.d
               g == f.d
               v == u.v
               k == u.s.keep
    <3>1. Held(d, v, k, o) /\ g.own = d.own /\ g.tfl = d.tfl /\ g.vid = d.vid
          /\ g.verdict = d.verdict
      BY <1>5, <2>1 DEF Owned
    <3> HIDE DEF d, g, v, k
    <3>2. Held(g, v, k, o)
      BY <3>1, HeldSame
    <3> QED BY <2>1, <3>2 DEF Owned, d, g, v, k, SameSeen
  <2>3. e = close_file_rng(f) /\ left = {}
    BY <1>6
  <2> HIDE DEF e, left
  <2>4. /\ Moves(f, e, o) /\ e.d.tfl = 0 /\ e.d.vid = 0
        /\ f.d.sig # "Update" /\ (f.d.vid # 0 => f.v.svc[f.d.vid] = "open") => Sound(f, e)
    BY <2>2, <2>3, CloseRangeMoves
  <2>5. f.d.vid # 0 => f.v.svc[f.d.vid] = "open"
    BY <1>4, <2>1 DEF SameLink
  <2>6. Sound(w, e)
    BY <1>4, <2>1, <2>4, <2>5 DEF Sound, SameLink
  <2>7. /\ IsWork(e) /\ e.c = w.c /\ e.x = w.x /\ e.thrown = w.thrown
        /\ e.s.keep = w.s.keep /\ e.s.text = w.s.text /\ Elsewhere(w.v, e.v, o)
        /\ Held(e.d, e.v, e.s.keep, o) /\ e.d.own = r.d.own /\ e.d.verdict = "Wait"
    BY <1>4, <2>1, <2>4 DEF Moves, Owned, SameSeen, SameFile, SameLink
  <2>8. /\ IsWork(t) /\ t.c = e.c /\ t.d = w.d /\ t.thrown = e.thrown /\ t.s = e.s
        /\ t.v = e.v /\ SameButRanges(w.x, t.x) /\ t.x.ranges = rs
    <3> DEFINE x == [e.x EXCEPT !.ranges = rs]
    <3>1. rs \subseteq w.x.ranges
      BY <2>3, <2>7
    <3> HIDE DEF rs
    <3>2. t = [e EXCEPT !.d = w.d, !.x = x]
      OBVIOUS
    <3>3. IsContext(x) /\ SameButRanges(w.x, x) /\ x.ranges = rs
      BY <2>7, <3>1 DEF IsWork, IsContext, SameButRanges
    <3> HIDE DEF x
    <3> QED BY <2>7, <3>2, <3>3 DEF IsWork
  <2>9. Leftover(r, e.d, left, t.v)
    BY <2>3, <2>4, <2>7 DEF Leftover
  <2>10. t.x.ranges = (w.x.ranges \ {r}) \cup left /\ Held(e.d, t.v, t.s.keep, o)
    BY <2>7, <2>8
  <2> HIDE DEF t
  <2>11. /\ IsWork(t) /\ t.c = w.c /\ t.d = w.d /\ t.thrown = w.thrown
         /\ t.s.keep = w.s.keep /\ t.s.text = w.s.text /\ Sound(w, t)
         /\ SameButRanges(w.x, t.x) /\ Elsewhere(w.v, t.v, o)
    BY <2>6, <2>7, <2>8 DEF Sound
  <2>12. ChunkRest(w, r, t, o)
    BY <2>9, <2>10 DEF ChunkRest
  <2> QED BY <1>1, <2>11, <2>12
<1>7. CASE ~(last /\ Complete(u.d))
  <2> DEFINE st == IF ~last THEN r.st ELSE "WaitingRequest"
             s == [r EXCEPT !.d = u.d, !.st = st]
  <2>1. e = u
    BY <1>7
  <2>2. left = {s}
    BY <1>7, <2>1 DEF IsLocked
  <2>3. IsLocked(s) /\ s.d = u.d
    BY <1>4 DEF IsLocked, IsWork
  <2> HIDE DEF s, e, left
  <2>4. /\ IsWork(t) /\ t.c = e.c /\ t.d = w.d /\ t.thrown = e.thrown /\ t.s = e.s
        /\ t.v = e.v /\ SameButRanges(w.x, t.x) /\ t.x.ranges = rs
    BY ZenonT(60), <1>4, <2>1, <2>2, <2>3 DEF IsWork, IsContext, SameButRanges, SameLists
  <2> HIDE DEF t
  <2>5. Leftover(r, u.d, left, t.v)
    BY <1>4, <2>1, <2>2, <2>3, <2>4 DEF Leftover, SameLink
  <2>6. t.x.ranges = (w.x.ranges \ {r}) \cup left /\ Held(u.d, t.v, t.s.keep, o)
    BY <1>4, <1>5, <2>1, <2>4 DEF Owned
  <2>7. /\ IsWork(t) /\ t.c = w.c /\ t.d = w.d /\ t.thrown = w.thrown
        /\ t.s.keep = w.s.keep /\ t.s.text = w.s.text /\ Sound(w, t)
        /\ SameButRanges(w.x, t.x) /\ Elsewhere(w.v, t.v, o)
    BY <1>4, <2>1, <2>4 DEF Sound, Elsewhere
  <2>8. ChunkRest(w, r, t, o)
    BY <2>5, <2>6 DEF ChunkRest
  <2> QED BY <1>1, <2>7, <2>8
<1> QED BY <1>6, <1>7

(* The service, as the others see it after a chunk of the range r. *)
LEMMA AwayChunkLeaves ==
  ASSUME OwnInv, phase # "closed", NEW c \in Sides, c \in opt.active, ~Unlocked(opt),
         NEW r, NEW S, S = (ctx[c].ranges \ {r}) \cup ctx[Peer(c)].ranges,
         NEW o, o = Plus(Plus(OfRanges(S), data[Peer(c)]), data[c]),
         NEW t, IsWork(t), t.c = c, t.d = data[c],
         t.x.st = ctx[c].st, t.x.files = ctx[c].files,
         Away(valid, t.v, o), NEW e, NEW left, Leftover(r, e, left, t.v),
         t.x.ranges = (ctx[c].ranges \ {r}) \cup left, Held(e, t.v, t.s.keep, o),
         e.own # 0
  PROVE  Leaves(c, t)
<1> DEFINE p == Peer(c)
           P == Plus(OfRanges(ctx[p].ranges), data[p])
           R == ctx[c].ranges
           q == data[p]
           d == data[c]
           o1 == Plus(OfRanges(S), q)
           v == t.v
           k == t.s.keep
<1>1. p \in Sides /\ p # c
  BY PeerFacts
<1>2. \A s \in R :
        /\ Linked(s.d) /\ s.d.own # 0 /\ s.d.own \in Others(c).own
        /\ s.d.own # q.own /\ \A z \in ctx[p].ranges : s.d.own # z.d.own
        /\ \A z \in R : s.d.own = z.d.own => s = z
  BY NumbersDiffer
<1>3. /\ Linked(d) /\ d.own \notin Others(c).own /\ Settled(c, ctx[c].st, d, valid)
      /\ Ranges(ctx[c], valid) /\ (opt.auth = {} => ctx[c].files = << >> /\ ctx[c].st = "Empty")
  BY DEF OwnInv, Held
<1>4. /\ Linked(q) /\ q.own \notin Others(p).own /\ Ranges(ctx[p], valid)
  BY <1>1 DEF OwnInv, Held
<1>5. /\ Others(c) = Plus(OfRanges(R \cup ctx[p].ranges), q)
      /\ AllRanges = R \cup ctx[p].ranges
  BY OthersAre
<1>6. Others(c).own = {s.d.own : s \in R \cup ctx[p].ranges} \cup ({q.own} \ {0})
  BY <1>5 DEF Plus, OfRanges
<1>7. \A s \in AllRanges : s.d.own \in Others(p).own
  BY DEF Others, Plus, OfRanges
<1> HIDE DEF p
<1>8. \A s \in S : Linked(s.d) /\ s.d.own # 0 /\ s.d.own # q.own
  BY <1>2, <1>4, <1>5, <1>7 DEF Ranges, p
<1>9. Numbers(S, q)
  BY <1>4, <1>8 DEF Numbers
<1>10. /\ o1.tfl \cup o1.vid \subseteq o1.own /\ o1.keep \subseteq o1.tfl
       /\ o1.own = {s.d.own : s \in S} \cup ({q.own} \ {0})
       /\ \A s \in S : s.d.own \in o1.own
  BY ZenonT(60), <1>9, NumbersOwn
<1>11. o = Plus(o1, d)
  BY DEF p
<1> HIDE DEF q, d, o1, v, k, R
<1>12. o.own = o1.own \cup ({d.own} \ {0})
  <2>1. Plus(o1, d).own = o1.own \cup ({d.own} \ {0})
    BY ONLY DEF Plus
  <2> QED BY <1>11, <2>1
<1>13. o1.own \subseteq Others(c).own /\ d.own \notin o1.own
  BY <1>3, <1>6, <1>10 DEF p, R
<1>14. e.own \notin o.own /\ Linked(e) /\ Held(e, v, k, Plus(o1, d))
  BY <1>11 DEF Held, v, k
<1>15. Held(d, v, k, Plus(OfRanges(t.x.ranges \cup ctx[p].ranges), q))
  <2>1. CASE left = {} /\ e.tfl = 0 /\ e.vid = 0
    <3>1. Held(d, v, k, o1)
      BY <1>3, <1>10, <1>13, <1>14, <2>1, RangeGone
    <3>2. t.x.ranges \cup ctx[p].ranges = S
      BY <2>1 DEF R, p
    <3> QED BY <3>1, <3>2 DEF o1
  <2>2. CASE \E s : left = {s} /\ s.d = e
    <3>1. PICK s : left = {s} /\ s.d = e
      BY <2>2
    <3>2. Held(s.d, v, k, Plus(Plus(OfRanges(S), q), d)) /\ s.d.own # 0
          /\ s.d.verdict = "Wait" /\ d.own \notin Plus(OfRanges(S), q).own
      BY <1>13, <1>14, <3>1 DEF o1, Leftover
    <3>3. Held(d, v, k, Plus(OfRanges(S \cup {s}), q))
      BY <1>3, <1>9, <3>2, RangeIn
    <3>4. t.x.ranges \cup ctx[p].ranges = S \cup {s}
      BY <3>1 DEF R, p
    <3> QED BY <3>3, <3>4
  <2> QED BY <2>1, <2>2 DEF Leftover
<1>16. \A s \in t.x.ranges :
         \/ s \in R /\ s \in S /\ s.d.own \in o1.own
         \/ /\ left = {s} /\ s.d = e /\ e.sig = "Update" /\ e.verdict = "Wait"
            /\ e.vid # 0 => v.svc[e.vid] = "open"
  BY <1>10 DEF Leftover, R, v
<1>17. /\ \A n \in o.own : v.svc[n] = valid.svc[n]
       /\ Faithful(opt) => \A n \in o.vid : v.res[n] = valid.res[n]
       /\ \A n \in Ids : valid.res[n] = "accept" => v.res[n] = "accept"
       /\ o.vid = o1.vid \cup ({d.vid} \ {0})
  <2>1. Plus(o1, d).vid = o1.vid \cup ({d.vid} \ {0})
    BY ONLY DEF Plus
  <2> QED BY <1>11, <2>1 DEF Away, v
<1>18. Ranges(t.x, v)
  <2> SUFFICES ASSUME NEW s \in t.x.ranges
               PROVE  /\ Linked(s.d) /\ s.d.own # 0 /\ s.d.verdict = "Wait"
                      /\ s.d.sig = "Update"
                      /\ s.d.vid # 0 => v.svc[s.d.vid] = "open"
    BY DEF Ranges
  <2>1. CASE s \in R /\ s \in S /\ s.d.own \in o1.own
    <3>1. /\ Linked(s.d) /\ s.d.own # 0 /\ s.d.verdict = "Wait" /\ s.d.sig = "Update"
          /\ s.d.vid # 0 => valid.svc[s.d.vid] = "open"
      BY <1>3, <2>1 DEF Ranges, R
    <3>2. s.d.vid # 0 => s.d.vid \in o.own
      BY <1>12, <2>1, <3>1 DEF Linked
    <3> QED BY <1>17, <3>1, <3>2
  <2>2. CASE s.d = e /\ e.sig = "Update" /\ e.verdict = "Wait"
             /\ (e.vid # 0 => v.svc[e.vid] = "open")
    BY <1>14, <2>2
  <2> QED BY <1>16, <2>1, <2>2
<1>19. Settled(c, t.x.st, d, v)
  <2>1. d.vid # 0 => d.vid \in o.own
    BY <1>3, <1>12 DEF Linked
  <2> QED BY ZenonT(60), <1>3, <1>17, <2>1 DEF Settled
<1>20. P.own \subseteq o1.own /\ P.vid \subseteq o1.vid
  <2>1. P.own \subseteq o1.own
    BY <1>10 DEF P, Plus, OfRanges, q, p
  <2>2. P.vid \subseteq o1.vid
    BY DEF P, o1, Plus, OfRanges, q, p
  <2> QED BY <2>1, <2>2
<1>21. \A s \in t.x.ranges : /\ s.d.own # q.own
                             /\ \A z \in ctx[p].ranges : s.d.own # z.d.own
                             /\ \A z \in t.x.ranges : s.d.own = z.d.own => s = z
  <2>1. \A z \in ctx[p].ranges : z.d.own \in o1.own
    BY <1>10 DEF p
  <2>2. e.own # q.own /\ e.own \notin o1.own
    BY <1>10, <1>12, <1>14
  <2>3. \A s \in R : s.d.own # q.own /\ \A z \in ctx[p].ranges : s.d.own # z.d.own
    BY <1>2 DEF R, q, p
  <2>4. \A s, z \in R : s.d.own = z.d.own => s = z
    BY <1>2 DEF R
  <2> QED BY <1>16, <2>1, <2>2, <2>3, <2>4
<1>22. /\ \A n \in P.own : v.svc[n] = valid.svc[n]
       /\ Faithful(opt) => \A n \in P.vid : v.res[n] = valid.res[n]
       /\ \A n \in Ids : valid.res[n] = "accept" => v.res[n] = "accept"
  BY <1>12, <1>17, <1>20
<1>23. opt.auth = {} => t.x.files = << >> /\ t.x.st = "Empty"
  BY <1>3
<1>24. /\ Held(t.d, t.v, t.s.keep,
               Plus(OfRanges(t.x.ranges \cup ctx[Peer(c)].ranges), data[Peer(c)]))
       /\ Settled(c, t.x.st, t.d, t.v)
  BY <1>15, <1>19 DEF d, v, k, q, p
<1>25. /\ \A n \in Plus(OfRanges(ctx[Peer(c)].ranges), data[Peer(c)]).own :
             t.v.svc[n] = valid.svc[n]
       /\ Faithful(opt) => \A n \in Plus(OfRanges(ctx[Peer(c)].ranges), data[Peer(c)]).vid :
             t.v.res[n] = valid.res[n]
  BY <1>22 DEF v, p
<1>26. \A s \in t.x.ranges : /\ s.d.own # data[Peer(c)].own
                             /\ \A z \in ctx[Peer(c)].ranges : s.d.own # z.d.own
                             /\ \A z \in t.x.ranges : s.d.own = z.d.own => s = z
  BY <1>21 DEF q, p
<1> QED BY <1>18, <1>22, <1>23, <1>24, <1>25, <1>26 DEF Leaves, v

LEMMA ChunkLeaves ==
  ASSUME OwnInv, phase # "closed", NEW c \in Sides, c \in opt.active, ~Unlocked(opt),
         NEW r, NEW S, S = (ctx[c].ranges \ {r}) \cup ctx[Peer(c)].ranges,
         NEW o, o = Plus(Plus(OfRanges(S), data[Peer(c)]), data[c]),
         NEW t, IsWork(t), t.c = c, t.d = data[c], t.s.keep = seen.keep,
         t.x.st = ctx[c].st, t.x.files = ctx[c].files,
         Elsewhere(valid, t.v, o), NEW e, NEW left, Leftover(r, e, left, t.v),
         t.x.ranges = (ctx[c].ranges \ {r}) \cup left, Held(e, t.v, t.s.keep, o),
         e.own # 0
  PROVE  Leaves(c, t)
<1>1. Away(valid, t.v, o)
  BY ElsewhereAway
<1> QED BY <1>1, AwayChunkLeaves

----------------------------------------------------------------------------
(* The end of transfers of locked_data before their data. *)
Breakable(d, v) ==
    /\ Linked(d) /\ d.verdict = "Wait" /\ d.sig = "Update"
    /\ d.vid # 0 => v.svc[d.vid] = "open"

BrokenEntry(n) == [id |-> n, tfl |-> 0]

LEMMA BrokenFields ==
  ASSUME NEW w, IsWork(w), Services(w.v), Breakable(w.d, w.v)
  PROVE  LET u == broken_file_transfer(w)
         IN  /\ w.d.vid # 0 => u.v.svc[w.d.vid] = "eof"
             /\ w.d.tfl # 0 => /\ u.v.tfl[w.d.tfl] \in {"stored", "cancelled"}
                               /\ opt.always => u.v.tfl[w.d.tfl] = "stored"
             /\ u.v.files = w.v.files \cup
                  (IF w.d.vid = 0 THEN {} ELSE {BrokenEntry(w.d.vid)})
             /\ Sound(w, u)
<1> DEFINE s == SigBroken(w)
           b == close_file_rng_tfl(s)
           u == broken_file_transfer(w)
<1>1. 0 \notin Ids /\ w.d.vid \in {0} \cup Ids /\ w.d.tfl \in {0} \cup Ids
  BY DEF Ids, Breakable, Linked
<1>2. /\ IsWork(s) /\ s.v = w.v /\ s.d.vid = w.d.vid /\ s.d.tfl = w.d.tfl
      /\ s.d.sig = "Broken" /\ s.d.verdict = "Wait" /\ Sound(w, s)
  BY DEF SigBroken, Asserted, IsWork, IsRange, IsSeen, Breakable, Sound
<1> HIDE DEF s
<1>3. /\ IsWork(b) /\ b.v.svc = w.v.svc /\ b.v.files = w.v.files /\ b.d.vid = w.d.vid
      /\ b.d.sig = "Broken" /\ Sound(s, b)
  <2>1. CASE s.d.tfl = 0
    BY <1>2, <2>1 DEF close_file_rng_tfl, Sound
  <2>2. CASE s.d.tfl # 0
    <3> DEFINE g == KeepTfl(s) => HasDigest(s.d)
               a == Asserted(s, g)
               y == IF KeepTfl(s) THEN "stored" ELSE "cancelled"
    <3>1. g
      BY <1>2 DEF HasDigest
    <3>2. b = [a EXCEPT !.v.tfl[s.d.tfl] = y, !.d.tfl = 0]
      BY <2>2 DEF close_file_rng_tfl
    <3> HIDE DEF g, y, b
    <3>3. IsWork(a) /\ a.v = s.v /\ a.d = s.d /\ Sound(s, a)
      BY <1>2, <3>1 DEF Asserted, IsWork, IsSeen, Sound
    <3> HIDE DEF a
    <3>4. /\ IsWork(b) /\ b.v.svc = a.v.svc /\ b.v.files = a.v.files
          /\ b.d.vid = a.d.vid /\ b.d.sig = a.d.sig /\ b.s = a.s
      BY ZenonT(60), <3>2, <3>3 DEF IsWork, IsRange, IsService
    <3> QED BY <1>2, <3>3, <3>4 DEF Sound
  <2> QED BY <2>1, <2>2
<1>4. w.d.tfl # 0 => /\ b.v.tfl[w.d.tfl] \in {"stored", "cancelled"}
                     /\ opt.always => b.v.tfl[w.d.tfl] = "stored"
  <2> SUFFICES ASSUME w.d.tfl # 0
               PROVE  /\ b.v.tfl[w.d.tfl] \in {"stored", "cancelled"}
                      /\ opt.always => b.v.tfl[w.d.tfl] = "stored"
    OBVIOUS
  <2> DEFINE a == Asserted(s, KeepTfl(s) => HasDigest(s.d))
             y == IF KeepTfl(s) THEN "stored" ELSE "cancelled"
  <2>1. IsWork(a) /\ a.v = w.v /\ a.d.tfl = w.d.tfl
    BY <1>2 DEF Asserted, IsWork, IsSeen
  <2>2. y \in {"stored", "cancelled"} /\ (opt.always => y = "stored")
    BY DEF KeepTfl
  <2>3. b = [a EXCEPT !.v.tfl[w.d.tfl] = y, !.d.tfl = 0]
    BY <1>2 DEF close_file_rng_tfl
  <2> HIDE DEF a, y, b
  <2>4. b.v.tfl = [w.v.tfl EXCEPT ![w.d.tfl] = y]
    BY <2>1, <2>3 DEF IsWork, IsService
  <2>5. w.d.tfl \in DOMAIN w.v.tfl
    BY <1>1 DEF Services
  <2> QED BY <2>2, <2>4, <2>5
<1> HIDE DEF b
<1>5. CASE w.d.vid = 0
  <2>1. u = b
    BY <1>3, <1>5 DEF broken_file_transfer, b, s
  <2>2. Sound(w, b)
    BY <1>2, <1>3 DEF Sound
  <2> HIDE DEF u
  <2> QED BY <1>3, <1>4, <1>5, <2>1, <2>2 DEF u
<1>6. CASE w.d.vid # 0
  <2> DEFINE n == w.d.vid
             f == SendEof(b)
             e == Asserted(f, HasDigest(b.d))
  <2>1. u = [e EXCEPT !.v.files = @ \cup {BrokenEntry(n)},
                      !.d.vid = 0, !.d.tfl = IF 0 = @ THEN 0 ELSE @]
    BY <1>3, <1>6 DEF broken_file_transfer, PushValidator, BrokenEntry, b, s
  <2>2. b.d.vid = n /\ b.v.svc[n] = "open"
    BY <1>3, <1>6 DEF Breakable
  <2>3. n \in DOMAIN b.v.svc
    BY <1>1, <1>3, <1>6 DEF Services
  <2> HIDE DEF n
  <2>4. /\ IsWork(f) /\ f.v.svc[n] = "eof" /\ f.v.files = b.v.files
        /\ f.v.tfl = b.v.tfl /\ Sound(b, f)
    BY <1>3, <2>2, <2>3 DEF SendEof, Asserted, IsWork, IsSeen, IsService, Sound
  <2> HIDE DEF f
  <2>5. /\ IsWork(e) /\ e.v = f.v /\ Sound(f, e)
    BY <1>3, <2>4 DEF Asserted, IsWork, IsSeen, HasDigest, Sound
  <2> HIDE DEF e, u
  <2>6. /\ u.v.svc = e.v.svc /\ u.v.tfl = e.v.tfl
        /\ u.v.files = e.v.files \cup {BrokenEntry(n)} /\ u.s = e.s
    BY <2>1, <2>5 DEF IsWork, IsService
  <2>7. Sound(w, u)
    BY <1>2, <1>3, <2>4, <2>5, <2>6 DEF Sound
  <2> QED BY <1>3, <1>4, <1>6, <2>4, <2>5, <2>6, <2>7 DEF n, u
<1> QED BY <1>5, <1>6

(* The service after the end of the ranges rs. *)
Breaks(v, u, rs) ==
    /\ u.res = v.res /\ u.texts = v.texts
    /\ u.svc = [n \in Ids |-> u.svc[n]] /\ u.tfl = [n \in Ids |-> u.tfl[n]]
    /\ \A n \in Ids : u.svc[n] = IF \E r \in rs : r.d.vid = n THEN "eof" ELSE v.svc[n]
    /\ \A n \in Ids : IF \E r \in rs : r.d.tfl = n
                      THEN u.tfl[n] # "open" /\ (opt.always => u.tfl[n] = "stored")
                      ELSE u.tfl[n] = v.tfl[n]
    /\ \A e \in u.files : e \in v.files \/ \E r \in rs : r.d.vid # 0 /\ e = BrokenEntry(r.d.vid)
    /\ v.files \subseteq u.files
    /\ \A r \in rs : r.d.vid # 0 => BrokenEntry(r.d.vid) \in u.files

LEMMA BreakFields ==
  ASSUME NEW w, IsWork(w), Services(w.v), NEW rs,
         \A r \in rs : IsLocked(r) /\ Breakable(r.d, w.v)
  PROVE  LET u == BreakRanges(w, rs)
         IN  /\ IsWork(u) /\ u.c = w.c /\ u.d = w.d /\ u.thrown = w.thrown
             /\ SameSeen(w, u) /\ Sound(w, u) /\ SameButRanges(w.x, u.x)
             /\ u.x.ranges = w.x.ranges \ rs /\ Breaks(w.v, u.v, rs)
<1> DEFINE Broken(r) == broken_file_transfer([w EXCEPT !.d = r.d])
           Service(n) == {r \in rs : r.d.vid = n}
           Records(n) == {r \in rs : r.d.tfl = n}
           as == w.s.assertion \/ \E r \in rs : Broken(r).s.assertion
           sv == [n \in Ids |-> IF Service(n) = {} THEN w.v.svc[n]
                        ELSE Broken(CHOOSE r \in Service(n) : TRUE).v.svc[n]]
           tf == [n \in Ids |-> IF Records(n) = {} THEN w.v.tfl[n]
                        ELSE Broken(CHOOSE r \in Records(n) : TRUE).v.tfl[n]]
           fl == w.v.files \cup UNION {Broken(r).v.files : r \in rs}
           rg == w.x.ranges \ rs
           u == BreakRanges(w, rs)
<1>1. u = [w EXCEPT !.s.assertion = as, !.v.svc = sv, !.v.tfl = tf, !.v.files = fl,
                    !.x.ranges = rg]
  BY DEF BreakRanges
<1>2. 0 \notin Ids
  BY DEF Ids
<1>3. ASSUME NEW r \in rs
      PROVE  /\ r.d.vid # 0 => Broken(r).v.svc[r.d.vid] = "eof"
             /\ r.d.tfl # 0 => /\ Broken(r).v.tfl[r.d.tfl] \in {"stored", "cancelled"}
                               /\ opt.always => Broken(r).v.tfl[r.d.tfl] = "stored"
             /\ Broken(r).v.files = w.v.files \cup
                  (IF r.d.vid = 0 THEN {} ELSE {BrokenEntry(r.d.vid)})
             /\ ~w.s.assertion => ~Broken(r).s.assertion
  <2> DEFINE b == [w EXCEPT !.d = r.d]
  <2>1. IsWork(b) /\ b.v = w.v /\ b.d = r.d /\ b.s = w.s
    BY DEF IsWork, IsLocked
  <2>2. Broken(r) = broken_file_transfer(b)
    OBVIOUS
  <2> HIDE DEF b, Broken
  <2>3. Services(b.v) /\ Breakable(b.d, b.v)
    BY <2>1
  <2> QED BY <2>1, <2>2, <2>3, BrokenFields DEF Sound
<1> HIDE DEF Broken
<1>4. \A n \in Ids : sv[n] = IF \E r \in rs : r.d.vid = n THEN "eof" ELSE w.v.svc[n]
  <2> TAKE n \in Ids
  <2>1. CASE Service(n) = {}
    BY <2>1
  <2>2. CASE Service(n) # {}
    <3> DEFINE r == CHOOSE r \in Service(n) : TRUE
    <3>1. r \in Service(n)
      BY <2>2
    <3>2. sv[n] = Broken(r).v.svc[n]
      BY <2>2
    <3> HIDE DEF r, sv
    <3>3. r \in rs /\ r.d.vid = n /\ r.d.vid # 0
      BY <1>2, <3>1
    <3> QED BY <1>3, <3>2, <3>3
  <2> QED BY <2>1, <2>2
<1>5. \A n \in Ids : IF \E r \in rs : r.d.tfl = n
                     THEN tf[n] # "open" /\ (opt.always => tf[n] = "stored")
                     ELSE tf[n] = w.v.tfl[n]
  <2> TAKE n \in Ids
  <2>1. CASE Records(n) = {}
    BY <2>1
  <2>2. CASE Records(n) # {}
    <3> DEFINE r == CHOOSE r \in Records(n) : TRUE
    <3>1. r \in Records(n)
      BY <2>2
    <3>2. tf[n] = Broken(r).v.tfl[n]
      BY <2>2
    <3> HIDE DEF r, tf
    <3>3. r \in rs /\ r.d.tfl = n /\ r.d.tfl # 0
      BY <1>2, <3>1
    <3> QED BY <1>3, <3>2, <3>3
  <2> QED BY <2>1, <2>2
<1>6. /\ \A e \in fl : e \in w.v.files \/ \E r \in rs : r.d.vid # 0 /\ e = BrokenEntry(r.d.vid)
      /\ w.v.files \subseteq fl
      /\ \A r \in rs : r.d.vid # 0 => BrokenEntry(r.d.vid) \in fl
  <2>1. w.v.files \subseteq fl /\ \A r \in rs : Broken(r).v.files \subseteq fl
    OBVIOUS
  <2>2. \A e \in fl : e \in w.v.files \/ \E r \in rs : e \in Broken(r).v.files
    OBVIOUS
  <2> HIDE DEF fl
  <2>3. \A r \in rs : r.d.vid # 0 => BrokenEntry(r.d.vid) \in Broken(r).v.files
    BY <1>3
  <2>4. \A r \in rs : \A e \in Broken(r).v.files :
          e \in w.v.files \/ (r.d.vid # 0 /\ e = BrokenEntry(r.d.vid))
    BY <1>3
  <2> QED BY <2>1, <2>2, <2>3, <2>4
<1>7. ~w.s.assertion => ~as
  BY <1>3
<1>8. sv = [n \in Ids |-> sv[n]] /\ tf = [n \in Ids |-> tf[n]]
  OBVIOUS
<1>12. rg \subseteq w.x.ranges
  OBVIOUS
<1> HIDE DEF as, sv, tf, fl, rg, u
<1>9. /\ IsWork(u) /\ u.c = w.c /\ u.d = w.d /\ u.thrown = w.thrown
      /\ SameSeen(w, u) /\ u.s.assertion = as
      /\ SameButRanges(w.x, u.x) /\ u.x.ranges = rg
      /\ u.v.svc = sv /\ u.v.tfl = tf /\ u.v.files = fl /\ u.v.res = w.v.res
      /\ u.v.texts = w.v.texts
  <2> DEFINE x == [w.x EXCEPT !.ranges = rg]
             v == [w.v EXCEPT !.svc = sv, !.tfl = tf, !.files = fl]
             sn == [w.s EXCEPT !.assertion = as]
  <2>1. u = [w EXCEPT !.s = sn, !.v = v, !.x = x]
    BY <1>1
  <2>2. IsContext(x) /\ SameButRanges(w.x, x) /\ x.ranges = rg
    BY <1>12 DEF IsWork, IsContext, SameButRanges
  <2>3. IsService(v) /\ v.svc = sv /\ v.tfl = tf /\ v.files = fl /\ v.res = w.v.res
        /\ v.texts = w.v.texts
    BY DEF IsWork, IsService
  <2>4. IsSeen(sn) /\ sn.assertion = as /\ sn.file = w.s.file /\ sn.text = w.s.text
        /\ sn.keep = w.s.keep
    BY DEF IsWork, IsSeen
  <2> HIDE DEF x, v, sn
  <2>5. u.x = x /\ u.v = v /\ u.s = sn /\ u.c = w.c /\ u.d = w.d /\ u.thrown = w.thrown
        /\ IsWork(u)
    BY <2>1, <2>2, <2>3, <2>4 DEF IsWork
  <2> QED BY <2>2, <2>3, <2>4, <2>5 DEF SameSeen
<1>10. Breaks(w.v, u.v, rs)
  BY <1>4, <1>5, <1>6, <1>8, <1>9 DEF Breaks
<1>11. Sound(w, u)
  BY <1>7, <1>9 DEF Sound
<1> QED BY <1>9, <1>10, <1>11 DEF u, rg

Separate(S) == \A r, s \in S : r.d.own = s.d.own => r = s

(* What the others hold after the end of the ranges rs. *)
LEMMA BreaksHeld ==
  ASSUME NEW d, NEW v, NEW u, NEW k, NEW S, NEW rs, rs \subseteq S, NEW q,
         Held(d, v, k, Plus(OfRanges(S), q)), Numbers(S, q),
         Separate(S), Unlocked(opt) => rs = {}, Breaks(v, u, rs)
  PROVE  LET o == Plus(OfRanges(S \ rs), q)
         IN  /\ Held(d, u, k, o) /\ Elsewhere(v, u, o)
             /\ (d.own # 0 => u.svc[d.own] = v.svc[d.own])
<1> DEFINE o == Plus(OfRanges(S \ rs), q)
           a == Plus(OfRanges(S), q)
<1>1. 0 \notin Ids
  BY DEF Ids
<1>2. /\ a.own = {r.d.own : r \in S} \cup ({q.own} \ {0})
      /\ a.tfl = ({r.d.tfl : r \in S} \ {0}) \cup ({q.tfl} \ {0})
      /\ a.vid = ({r.d.vid : r \in S} \ {0}) \cup ({q.vid} \ {0})
      /\ a.keep = {} \cup (IF q.verdict = "Failure" THEN {q.tfl} \ {0} ELSE {})
  BY DEF Plus, OfRanges
<1>3. /\ o.own = {r.d.own : r \in S \ rs} \cup ({q.own} \ {0})
      /\ o.tfl = ({r.d.tfl : r \in S \ rs} \ {0}) \cup ({q.tfl} \ {0})
      /\ o.vid = ({r.d.vid : r \in S \ rs} \ {0}) \cup ({q.vid} \ {0})
      /\ o.keep = {} \cup (IF q.verdict = "Failure" THEN {q.tfl} \ {0} ELSE {})
  BY DEF Plus, OfRanges
<1>4. Held(d, v, k, a)
  OBVIOUS
<1> HIDE DEF o, a
<1>5. /\ Numbered(a, v) /\ Linked(d) /\ d.own \notin a.own
      /\ (d.own # 0 => v.svc[d.own] # "free") /\ Services(v) /\ Listing(d, v, a)
      /\ Recorded(d, v, a) /\ Identified(d, v, a) /\ Kept(d, v, k, a)
  BY <1>4 DEF Held
<1>6. \A r \in S : Linked(r.d) /\ r.d.own # 0 /\ r.d.own # q.own /\ r.d.own \in a.own
                   /\ r.d.own \in Ids
  BY <1>2, <1>5 DEF Numbers, Numbered
<1>7. Linked(q) /\ (q.own # 0 => q.own \in a.own /\ q.own \in Ids)
  BY <1>2, <1>5 DEF Numbers, Numbered
(* A number of a broken range is nobody else's. *)
<1>8. \A r \in rs : r.d.own \notin o.own /\ r.d.own # d.own
  <2>1. \A r \in rs : r \in S
    OBVIOUS
  <2>2. \A r \in rs : r.d.own \notin {s.d.own : s \in S \ rs}
    BY DEF Separate
  <2> QED BY <1>3, <1>5, <1>6, <2>1, <2>2
<1>9. /\ \A n \in Ids : u.svc[n] = IF \E r \in rs : r.d.vid = n THEN "eof" ELSE v.svc[n]
      /\ \A n \in Ids : IF \E r \in rs : r.d.tfl = n
                        THEN u.tfl[n] # "open" /\ (opt.always => u.tfl[n] = "stored")
                        ELSE u.tfl[n] = v.tfl[n]
      /\ u.res = v.res /\ u.texts = v.texts
      /\ u.svc = [n \in Ids |-> u.svc[n]] /\ u.tfl = [n \in Ids |-> u.tfl[n]]
  BY DEF Breaks
<1>10. /\ \A e \in u.files : \/ e \in v.files
                             \/ \E r \in rs : r.d.vid # 0 /\ e = BrokenEntry(r.d.vid)
       /\ v.files \subseteq u.files
       /\ \A r \in rs : r.d.vid # 0 => BrokenEntry(r.d.vid) \in u.files
  BY DEF Breaks
<1>11. o.own \subseteq a.own /\ o.tfl \subseteq a.tfl /\ o.vid \subseteq a.vid /\ o.keep = a.keep
  BY <1>2, <1>3
<1>12. \A n \in Ids : (n \in o.own \/ n = d.own) =>
         /\ \A r \in rs : r.d.vid # n /\ r.d.tfl # n
         /\ u.svc[n] = v.svc[n] /\ u.tfl[n] = v.tfl[n]
  <2>1. \A r \in rs : r.d.vid \in {0, r.d.own} /\ r.d.tfl \in {0, r.d.own}
    BY <1>6 DEF Linked
  <2>2. \A n \in Ids : (n \in o.own \/ n = d.own) => \A r \in rs : r.d.vid # n /\ r.d.tfl # n
    BY <1>1, <1>8, <2>1
  <2> QED BY <1>9, <2>2
<1>13. Numbered(o, u)
  <2>1. o.tfl \cup o.vid \subseteq o.own /\ o.keep \subseteq o.tfl
    <3>1. {r.d.tfl : r \in S \ rs} \ {0} \subseteq {r.d.own : r \in S \ rs}
      BY <1>6 DEF Linked
    <3>2. {r.d.vid : r \in S \ rs} \ {0} \subseteq {r.d.own : r \in S \ rs}
      BY <1>6 DEF Linked
    <3>3. q.tfl \in {0, q.own} /\ q.vid \in {0, q.own}
      BY <1>7 DEF Linked
    <3> QED BY <1>3, <3>1, <3>2, <3>3
  <2>2. o.own \subseteq Ids
    BY <1>5, <1>11 DEF Numbered
  <2>3. \A n \in o.own : u.svc[n] # "free"
    BY <1>5, <1>11, <1>12, <2>2 DEF Numbered
  <2> QED BY <2>1, <2>2, <2>3 DEF Numbered
<1>14. d.own \notin o.own /\ (d.own # 0 => u.svc[d.own] = v.svc[d.own])
  BY <1>5, <1>11, <1>12 DEF Linked
<1>15. Services(u)
  BY <1>5, <1>9 DEF Services
<1>16. a.vid = o.vid \cup ({r.d.vid : r \in rs} \ {0})
       /\ a.tfl = o.tfl \cup ({r.d.tfl : r \in rs} \ {0})
  BY <1>2, <1>3
<1>17. Listing(d, u, o)
  <2>1. u.texts \subseteq Ids
    BY <1>5, <1>9 DEF Listing
  <2>2. \A n \in u.texts : n # d.vid /\ n \notin o.vid /\ u.tfl[n] # "open"
    BY <1>5, <1>9, <1>11, <2>1 DEF Listing
  <2>3. \A r \in rs : r.d.vid # 0 =>
          /\ r.d.vid = r.d.own /\ r.d.vid \in Ids /\ r.d.vid \in a.vid
          /\ r.d.vid # d.vid /\ r.d.vid # d.tfl /\ r.d.vid \notin o.own
    BY <1>1, <1>5, <1>6, <1>8, <1>16 DEF Linked
  <2>4. ASSUME NEW e \in u.files
        PROVE  /\ e = [id |-> e.id, tfl |-> e.tfl] /\ e.id \in Ids /\ e.tfl \in {0, e.id}
               /\ e.id # d.vid /\ e.id # d.tfl
               /\ e.id \notin o.vid /\ e.id \notin o.tfl /\ e.id \notin u.texts
    <3>1. CASE e \in v.files
      BY <1>5, <1>9, <1>11, <3>1 DEF Listing
    <3>2. CASE \E r \in rs : r.d.vid # 0 /\ e = BrokenEntry(r.d.vid)
      <4>1. PICK r \in rs : r.d.vid # 0 /\ e = BrokenEntry(r.d.vid)
        BY <3>2
      <4>2. e.id = r.d.vid /\ e.tfl = 0 /\ e = [id |-> e.id, tfl |-> e.tfl]
        BY <4>1 DEF BrokenEntry
      <4>3. r.d.vid \notin v.texts
        BY <1>5, <2>3, <4>1 DEF Listing
      <4> QED BY <1>9, <1>13, <2>3, <4>1, <4>2, <4>3 DEF Numbered
    <3> QED BY <1>10, <3>1, <3>2
  <2>5. \A e, f \in u.files : e.id = f.id => e = f
    <3> SUFFICES ASSUME NEW e \in u.files, NEW f \in u.files, e.id = f.id
                 PROVE  e = f
      OBVIOUS
    <3>1. \A g \in v.files : g.id \notin a.vid
      BY <1>5 DEF Listing
    <3>2. \A g \in u.files : g \in v.files \/ (g.id \in a.vid /\ g = BrokenEntry(g.id))
      BY <1>10, <2>3 DEF BrokenEntry
    <3> QED BY <1>5, <3>1, <3>2 DEF Listing
  <2> QED BY <2>1, <2>2, <2>4, <2>5 DEF Listing
<1>18. Recorded(d, u, o)
  <2> SUFFICES ASSUME NEW n \in Ids
               PROVE  u.tfl[n] = "open" <=>
                        n = d.tfl \/ n \in o.tfl \/ \E e \in u.files : e.tfl = n
    BY DEF Recorded
  <2>1. v.tfl[n] = "open" <=> n = d.tfl \/ n \in a.tfl \/ \E e \in v.files : e.tfl = n
    BY <1>5 DEF Recorded
  <2>2. (\E e \in u.files : e.tfl = n) <=> \E e \in v.files : e.tfl = n
    BY <1>1, <1>10 DEF BrokenEntry
  <2>3. CASE \E r \in rs : r.d.tfl = n
    <3>1. PICK r \in rs : r.d.tfl = n
      BY <2>3
    <3>2. r.d.tfl = r.d.own /\ n \in a.tfl
      BY <1>1, <1>6, <1>16, <3>1 DEF Linked
    <3>3. n \notin o.own /\ n # d.own
      BY <1>8, <3>1, <3>2
    <3>4. n # d.tfl /\ n \notin o.tfl
      BY <1>1, <1>5, <1>13, <3>3 DEF Linked, Numbered
    <3>5. \A e \in v.files : e.tfl # n
      BY <1>1, <1>5, <3>2 DEF Listing
    <3> QED BY <1>9, <2>2, <2>3, <3>4, <3>5
  <2>4. CASE ~\E r \in rs : r.d.tfl = n
    <3>1. n \in a.tfl <=> n \in o.tfl
      BY <1>16, <2>4
    <3> QED BY <1>9, <2>1, <2>2, <2>4, <3>1
  <2> QED BY <2>3, <2>4
<1>19. Identified(d, u, o)
  <2>1. \A n \in Ids : IsListed(v, n) => IsListed(u, n)
    BY <1>9, <1>10 DEF IsListed
  <2>2. \A n \in Ids : IsListed(u, n) => IsListed(v, n) \/ \E r \in rs : r.d.vid = n
    BY <1>9, <1>10 DEF IsListed, BrokenEntry
  <2>3. \A n \in Ids : (\E r \in rs : r.d.vid = n) => IsListed(u, n) /\ u.svc[n] = "eof"
    <3> SUFFICES ASSUME NEW n \in Ids, NEW r \in rs, r.d.vid = n
                 PROVE  IsListed(u, n) /\ u.svc[n] = "eof"
      OBVIOUS
    <3>1. BrokenEntry(n) \in u.files /\ BrokenEntry(n).id = n
      BY <1>1, <1>10 DEF BrokenEntry
    <3> QED BY <1>9, <3>1 DEF IsListed
  <2>4. \A n \in Ids : n = d.vid \/ n \in o.vid \/ IsListed(u, n)
          => u.svc[n] \in {"open", "eof"}
    BY <1>5, <1>9, <1>11, <2>2 DEF Identified
  <2>5. Faithful(opt) =>
          \A n \in Ids : u.svc[n] \in {"open", "eof"} /\ u.res[n] = "none"
            => n = d.vid \/ n \in o.vid \/ IsListed(u, n)
    BY <1>5, <1>9, <1>16, <2>1, <2>3 DEF Identified
  <2> QED BY <2>4, <2>5 DEF Identified
<1>20. Kept(d, u, k, o)
  <2> SUFFICES ASSUME Keeping(opt), NEW n \in k
               PROVE  /\ n \in Ids
                      /\ \/ u.tfl[n] = "stored"
                         \/ u.tfl[n] = "open" /\
                              (\/ opt.always \/ n \in o.keep
                               \/ n = d.tfl /\ d.verdict = "Failure")
    BY DEF Kept
  <2>1. /\ n \in Ids
        /\ \/ v.tfl[n] = "stored"
           \/ v.tfl[n] = "open" /\
                (\/ opt.always \/ n \in o.keep
                 \/ n = d.tfl /\ d.verdict = "Failure")
    BY <1>5, <1>11 DEF Kept
  <2>2. CASE ~\E r \in rs : r.d.tfl = n
    BY <1>9, <2>1, <2>2
  <2>3. CASE \E r \in rs : r.d.tfl = n
    <3>1. n \notin o.own /\ n # d.own
      BY <1>12, <2>1, <2>3
    <3>2. n \notin o.keep /\ n # d.tfl
      BY <1>1, <1>5, <1>13, <2>1, <3>1 DEF Linked, Numbered
    <3>3. n \in a.tfl
      BY <1>1, <1>16, <2>1, <2>3
    <3>4. v.tfl[n] = "open"
      BY <1>5, <2>1, <3>3 DEF Recorded
    <3> QED BY <1>9, <2>1, <2>3, <3>2, <3>4
  <2> QED BY <2>2, <2>3
<1>21. Held(d, u, k, o)
  BY <1>5, <1>13, <1>14, <1>15, <1>17, <1>18, <1>19, <1>20 DEF Held
<1>22. Elsewhere(v, u, o)
  BY <1>9, <1>12, <1>13 DEF Elsewhere, Numbered
<1> QED BY <1>14, <1>21, <1>22 DEF o

(* The ranges of context c can be broken at any time. *)
LEMMA RangesBreakable ==
  ASSUME OwnInv, Living, phase # "closed", NEW c \in Sides, NEW b, Good(b, Others(c)),
         Elsewhere(valid, b.v, Others(c))
  PROVE  Services(b.v) /\ \A r \in ctx[c].ranges : IsLocked(r) /\ Breakable(r.d, b.v)
<1>1. Services(b.v)
  BY DEF Good, Owned, Held
<1>2. Ranges(ctx[c], valid) /\ IsContext(ctx[c])
  BY DEF OwnInv, Living
<1>3. \A r \in ctx[c].ranges : Linked(r.d) /\ r.d.own \in Others(c).own
  BY NumbersDiffer
<1>4. \A r \in ctx[c].ranges : r.d.vid # 0 => b.v.svc[r.d.vid] = valid.svc[r.d.vid]
  BY <1>3 DEF Linked, Elsewhere
<1> QED BY <1>1, <1>2, <1>4 DEF Ranges, IsContext, Breakable

LEMMA BreakLeaves ==
  ASSUME OwnInv, Living, phase # "closed", NEW c \in Sides, NEW b, Good(b, Others(c)),
         Elsewhere(valid, b.v, Others(c)), NEW rs, rs \subseteq ctx[c].ranges,
         NEW t, IsWork(t), t.c = c, t.d = b.d, t.s.keep = b.s.keep, b.c = c,
         t.x.st = b.x.st, t.x.ranges = ctx[c].ranges \ rs, Breaks(b.v, t.v, rs),
         c \notin opt.active => t.x.st = "Empty",
         opt.auth = {} => t.x.files = << >> /\ t.x.st = "Empty",
         Unlocked(opt) => t.x.lock # "HasLock"
  PROVE  Leaves(c, t)
<1> DEFINE p == Peer(c)
           q == data[p]
           R == ctx[c].ranges
           S == R \cup ctx[p].ranges
           o == Plus(OfRanges(S \ rs), q)
           P == Plus(OfRanges(ctx[p].ranges), q)
           d == b.d
           v == b.v
           u == t.v
           k == b.s.keep
<1>1. p \in Sides /\ p # c
  BY PeerFacts
<1>2. \A s \in R :
        /\ Linked(s.d) /\ s.d.own # 0 /\ s.d.own \in Others(c).own
        /\ s.d.own # q.own /\ \A z \in ctx[p].ranges : s.d.own # z.d.own
        /\ \A z \in R : s.d.own = z.d.own => s = z
  BY NumbersDiffer
<1>3. /\ Linked(q) /\ q.own \notin Others(p).own /\ Ranges(ctx[p], valid)
  BY <1>1 DEF OwnInv, Held
<1>4. Others(c) = Plus(OfRanges(S), q) /\ AllRanges = S
  BY OthersAre
<1>5. \A s \in AllRanges : s.d.own \in Others(p).own
  BY DEF Others, Plus, OfRanges
<1>6. P.own \subseteq Others(c).own /\ P.vid \subseteq Others(c).vid
  BY NumbersDiffer
<1>7. /\ Held(d, v, k, Plus(OfRanges(S), q)) /\ Settled(c, t.x.st, d, v)
  BY <1>4 DEF Good, Owned
<1>8. Ranges(ctx[c], valid)
      /\ (c \notin opt.active => R = {}) /\ (Unlocked(opt) => R = {})
  BY DEF OwnInv
<1>9. Distinct
  BY DEF OwnInv
<1>10. Numbers(S, q)
  <2>1. \A r \in S : Linked(r.d) /\ r.d.own # 0 /\ r.d.own # q.own
    BY <1>2, <1>3, <1>4, <1>5 DEF Ranges
  <2> QED BY <1>3, <2>1 DEF Numbers
<1>11. Separate(S)
  BY <1>4, <1>9 DEF Distinct, Separate
<1>12. rs \subseteq S /\ (Unlocked(opt) => rs = {})
  BY <1>8
<1>13. Breaks(v, u, rs)
  OBVIOUS
<1>14. S \ rs = t.x.ranges \cup ctx[p].ranges
  <2>1. R \cap ctx[p].ranges = {}
    BY <1>2
  <2> QED BY <2>1
<1> HIDE DEF S, q, d, v, u, k, p
<1>15. /\ Held(d, u, k, o) /\ Elsewhere(v, u, o)
       /\ (d.own # 0 => u.svc[d.own] = v.svc[d.own])
  BY <1>7, <1>10, <1>11, <1>12, <1>13, BreaksHeld
<1>16. Settled(c, t.x.st, d, u)
  <2>1. d.vid # 0 => u.svc[d.vid] = v.svc[d.vid]
    BY <1>7, <1>15 DEF Held, Linked
  <2>2. u.res = v.res
    BY <1>15 DEF Elsewhere
  <2> QED BY <1>7, <2>1, <2>2 DEF Settled
<1>17. o.own = {s.d.own : s \in S \ rs} \cup ({q.own} \ {0})
  BY DEF Plus, OfRanges
<1>18. \A n \in o.own : u.svc[n] = valid.svc[n]
  <2>1. o.own \subseteq Others(c).own
    BY <1>4, <1>17 DEF Plus, OfRanges
  <2> QED BY <1>15, <2>1 DEF Elsewhere, v
<1>19. u.res = valid.res
  BY <1>15 DEF Elsewhere, v
<1>20. Ranges(t.x, u)
  <2> SUFFICES ASSUME NEW s \in t.x.ranges
               PROVE  /\ Linked(s.d) /\ s.d.own # 0 /\ s.d.verdict = "Wait"
                      /\ s.d.sig = "Update"
                      /\ s.d.vid # 0 => u.svc[s.d.vid] = "open"
    BY DEF Ranges
  <2>1. /\ Linked(s.d) /\ s.d.own # 0 /\ s.d.verdict = "Wait" /\ s.d.sig = "Update"
        /\ s.d.vid # 0 => valid.svc[s.d.vid] = "open"
    BY <1>8 DEF Ranges
  <2>2. s.d.own \in o.own
    BY <1>14, <1>17
  <2> QED BY <1>18, <2>1, <2>2 DEF Linked
<1>21. P.own \subseteq o.own
  <2>1. P.own = {s.d.own : s \in ctx[p].ranges} \cup ({q.own} \ {0})
    BY DEF Plus, OfRanges
  <2> QED BY <1>14, <1>17, <2>1
<1>22. /\ \A n \in P.own : u.svc[n] = valid.svc[n]
       /\ Faithful(opt) => \A n \in P.vid : u.res[n] = valid.res[n]
       /\ \A n \in Ids : valid.res[n] = "accept" => u.res[n] = "accept"
  BY <1>18, <1>19, <1>21
<1>23. \A s \in t.x.ranges : /\ s.d.own # q.own
                             /\ \A z \in ctx[p].ranges : s.d.own # z.d.own
                             /\ \A z \in t.x.ranges : s.d.own = z.d.own => s = z
  BY <1>2
<1>24. Held(d, u, k, Plus(OfRanges(t.x.ranges \cup ctx[p].ranges), q))
  BY <1>14, <1>15
<1>25. c \notin opt.active \/ Unlocked(opt) => t.x.ranges = {}
  BY <1>8
<1> QED BY <1>16, <1>20, <1>22, <1>23, <1>24, <1>25 DEF Leaves, d, u, k, q, p

----------------------------------------------------------------------------
(* The lists of files that are locked. *)
LEMMA FirstLockFound ==
  ASSUME NEW S, NEW ls \in Seq(S), NEW l, HasLock(ls, l)
  PROVE  FirstLock(ls, l) \in 1 .. Len(ls) /\ ls[FirstLock(ls, l)].lock = l
<1> DEFINE T == {i \in 1 .. Len(ls) : ls[i].lock = l}
<1>1. DOMAIN ls = 1 .. Len(ls) /\ Len(ls) \in Nat
  BY LenProperties
<1>2. T # {} /\ T \subseteq Nat
  BY <1>1 DEF HasLock
<1>3. PICK i \in T : \A m \in T : i <= m
  BY <1>2, LeastNatural
<1>4. \A j \in 1 .. (i - 1) : ls[j].lock # l
  BY <1>1, <1>3
<1> QED BY <1>1, <1>3, <1>4 DEF FirstLock

LEMMA LastOrBefore ==
  ASSUME NEW m \in Nat, NEW j \in 1 .. m
  PROVE  j = m \/ j \in 1 .. (m - 1)
OBVIOUS

LEMMA ErasedLocks ==
  ASSUME NEW S, NEW ls \in Seq(S), NEW l
  PROVE  /\ EraseLock(ls, l) \in Seq(S)
         /\ \A k : k # l /\ HasLock(ls, k) => HasLock(EraseLock(ls, l), k)
<1>1. CASE ~HasLock(ls, l)
  BY <1>1 DEF EraseLock
<1>2. CASE HasLock(ls, l)
  <2> DEFINE i == FirstLock(ls, l)
             m == Len(ls)
             e == ls[m]
             t == [ls EXCEPT ![i] = e]
             u == SubSeq(t, 1, m - 1)
  <2>1. i \in 1 .. m /\ ls[i].lock = l
    BY <1>2, FirstLockFound
  <2>2. m \in Nat /\ DOMAIN ls = 1 .. m
    BY LenProperties
  <2>3. u = EraseLock(ls, l)
    BY <1>2 DEF EraseLock
  <2> HIDE DEF i
  <2>4. e \in S
    BY <2>1, <2>2, ElementOfSeq
  <2>5. t \in Seq(S)
    BY <2>4, StaysSequence
  <2>6. Len(t) = m /\ \A j \in 1 .. m : t[j] = IF j = i THEN e ELSE ls[j]
    <3>1. DOMAIN t = 1 .. m
      BY <2>2
    <3>2. Len(t) = m
      BY <2>2, <2>5, <3>1, LenProperties
    <3> QED BY <2>2, <3>2
  <2> HIDE DEF t
  <2>7. m - 1 \in 0 .. m
    BY <2>1, <2>2
  <2>8. u \in Seq(S) /\ Len(u) = m - 1 /\ \A j \in 1 .. (m - 1) : u[j] = t[j]
    BY <2>2, <2>5, <2>6, <2>7, SubSeqProperties
  <2>9. DOMAIN u = 1 .. (m - 1)
    BY SMTT(60), <2>8, LenProperties
  <2> HIDE DEF u
  <2>10. ASSUME NEW k, k # l, HasLock(ls, k)
         PROVE  HasLock(u, k)
    <3>1. PICK j \in 1 .. m : ls[j].lock = k
      BY <2>2, <2>10 DEF HasLock
    <3>2. j # i
      BY <2>1, <2>10, <3>1
    <3>3. CASE j \in 1 .. (m - 1)
      <4>1. j \in 1 .. (m - 1)
        BY <3>3
      <4>2. j \in 1 .. m
        BY <3>1
      <4>3. t[j] = ls[j]
        BY <2>6, <3>2, <4>2
      <4>4. u[j] = t[j]
        BY <2>8, <4>1
      <4>5. u[j].lock = k
        BY <3>1, <4>3, <4>4
      <4> QED BY <2>9, <4>1, <4>5 DEF HasLock
    <3>4. CASE j = m
      <4>1. i \in 1 .. (m - 1)
        BY <2>1, <2>2, <3>2, <3>4, LastOrBefore
      <4>2. t[i] = e
        BY <2>1, <2>6
      <4>3. u[i] = t[i]
        BY <2>8, <4>1
      <4>4. u[i].lock = k
        BY <3>1, <3>4, <4>2, <4>3
      <4> QED BY SMTT(60), <2>9, <4>1, <4>4 DEF HasLock
    <3> QED BY <2>2, <3>1, <3>3, <3>4, LastOrBefore
  <2> QED BY <2>3, <2>8, <2>10
<1> QED BY <1>1, <1>2

(* A change of the lists of a context, when its transfers stay. *)
SameCourse(x, y) ==
    /\ y.st = x.st /\ y.clen = x.clen /\ y.cpos = x.cpos /\ y.resp = x.resp
    /\ y.owed = x.owed /\ y.cut = x.cut /\ y.fmt = x.fmt /\ y.flist = x.flist
    /\ y.files = x.files /\ y.asked = x.asked

LEMMA TransferFit ==
  ASSUME NEW c \in Sides, NEW x, NEW y, SameCourse(x, y), NEW d, NEW left
  PROVE  /\ Naturals_(x, d) => Naturals_(y, d)
         /\ Buffered(x, d, left) => Buffered(y, d, left)
         /\ Answering(c, x, d) => Answering(c, y, d)
BY DEF SameCourse, Naturals_, Buffered, Answering

LEMMA TransferBetween ==
  ASSUME Owners, Living, Running, NEW c \in Sides, NEW u, Apply(u), u.c = c,
         u.x.st = ctx[c].st, u.x.fmt = ctx[c].fmt, u.x.flist = ctx[c].flist,
         u.d.own = data[c].own, msg' = msg,
         \A n \in Ids : valid.res[n] = "accept" => u.v.res[n] = "accept"
  PROVE  Between(c)' /\ Left(c)' = Left(c)
<1>1. Between(c)
  BY DEF Owners, RunInv, Running
<1>2. ctx'[c] = u.x /\ data'[c] = u.d /\ opt' = opt /\ valid' = u.v
  BY DEF Apply, Living
<1> QED BY <1>1, <1>2 DEF Between, Left, Faithful, Unlocked, VerifiesText

LEMMA UnlockOwners ==
  ASSUME Owners, ClipInv, NEW c \in Sides, NEW l \in Locks, unlock(c, l)
  PROVE  Owners'
<1> DEFINE w == Work(c)
           rs == {r \in w.x.ranges : r.lock = l}
           b == BreakRanges(w, rs)
           ls == EraseLock(b.x.locks, l)
           zs == {z \in b.x.sizes : z.lock # l}
           e == [w EXCEPT !.x.lock = "Enabled"]
           f == [b EXCEPT !.x.locks = ls, !.x.sizes = zs]
           g == IF w.x.lock \in {"HasLock", "LockIsUsed"} /\ w.x.lid = l THEN e ELSE f
           sl == IF g.x.slot.lock = l THEN NoSlot ELSE g.x.slot
           u == [g EXCEPT !.x.slot = sl]
<1>1. Running /\ can_lock /\ Apply(u) /\ can_lock' = can_lock /\ msg' = msg
      /\ c \in opt.active
  BY ZenonT(60) DEF unlock, Active
<1>2. Living
  BY ZenonT(60), <1>1 DEF ClipInv, Running
<1>3. OwnInv /\ RunInv /\ phase # "closed"
  BY ZenonT(60), <1>1 DEF Owners, Running
<1>4. /\ IsWork(w) /\ w.c = c /\ w.x = ctx[c] /\ w.d = data[c] /\ w.v = valid
      /\ w.s = seen /\ ~w.thrown
  BY <1>2, WorkIsWork
<1>5. /\ can_lock => ctx[c].lock # "Disabled" /\ ctx[Peer(c)].lock # "Disabled"
      /\ Unlocked(opt) => ~can_lock
      /\ opt.auth = {} => ctx[c].files = << >> /\ ctx[c].st = "Empty"
      /\ ctx[c].lock # "Disabled"
  BY <1>1, <1>3, PeerFacts DEF OwnInv
<1>6. Good(w, Others(c)) /\ Elsewhere(valid, w.v, Others(c))
  BY <1>3, <1>2, <1>4, WorkGood DEF Elsewhere
<1>7. rs \subseteq ctx[c].ranges
  BY <1>4
<1>8. Services(w.v) /\ \A r \in rs : IsLocked(r) /\ Breakable(r.d, w.v)
  BY <1>2, <1>3, <1>6, <1>7, RangesBreakable
<1> HIDE DEF w, rs
<1>9. /\ IsWork(b) /\ b.c = w.c /\ b.d = w.d /\ b.thrown = w.thrown
      /\ SameSeen(w, b) /\ Sound(w, b) /\ SameButRanges(w.x, b.x)
      /\ b.x.ranges = w.x.ranges \ rs /\ Breaks(w.v, b.v, rs)
  BY <1>4, <1>8, BreakFields
<1>10. LockList(ctx[c])
  BY <1>1, <1>3 DEF RunInv, Running
<1>11. b.x.locks = ctx[c].locks /\ b.x.sizes = ctx[c].sizes /\ b.x.slot = ctx[c].slot
       /\ b.x.lock = ctx[c].lock /\ b.x.lid = ctx[c].lid
  BY <1>4, <1>9 DEF SameButRanges
<1> HIDE DEF b
<1>12. ctx[c].locks \in Seq([lock : Locks, files : Seq(Nat)])
  BY <1>10 DEF LockList
<1>13. /\ ls \in Seq([lock : Locks, files : Seq(Nat)])
       /\ \A k : k # l /\ HasLock(ctx[c].locks, k) => HasLock(ls, k)
  BY <1>11, <1>12, ErasedLocks
<1>14. \A z \in zs : HasLock(ls, z.lock)
  BY <1>10, <1>11, <1>13 DEF LockList
<1> HIDE DEF ls, zs
<1>15. /\ IsWork(e) /\ e.c = w.c /\ e.d = w.d /\ e.v = w.v /\ e.s = w.s
       /\ e.thrown = w.thrown /\ SameCourse(w.x, e.x)
       /\ e.x.lock = "Enabled" /\ e.x.lid = w.x.lid /\ e.x.slot = w.x.slot
       /\ e.x.locks = w.x.locks /\ e.x.sizes = w.x.sizes /\ e.x.ranges = w.x.ranges
  BY <1>4 DEF IsWork, IsContext, SameCourse
<1>16. /\ IsWork(f) /\ f.c = b.c /\ f.d = b.d /\ f.v = b.v /\ f.s = b.s
       /\ f.thrown = b.thrown /\ SameCourse(b.x, f.x)
       /\ f.x.lock = b.x.lock /\ f.x.lid = b.x.lid /\ f.x.slot = b.x.slot
       /\ f.x.locks = ls /\ f.x.sizes = zs /\ f.x.ranges = b.x.ranges
  BY ZenonT(60), <1>9 DEF IsWork, IsContext, SameCourse
<1> HIDE DEF e, f
<1>17. SameCourse(ctx[c], f.x)
  BY <1>4, <1>9, <1>16 DEF SameCourse, SameButRanges
<1>18. LockList(e.x) /\ LockList(f.x)
  BY <1>4, <1>10, <1>11, <1>13, <1>14, <1>15, <1>16 DEF LockList
<1>19. g \in {e, f}
  OBVIOUS
<1>20. IsWork(g) /\ SameCourse(ctx[c], g.x) /\ LockList(g.x) /\ g.c = c /\ g.d = data[c]
       /\ ~g.thrown /\ g.x.lock # "Disabled" /\ (g = e \/ g = f)
  BY <1>4, <1>5, <1>9, <1>11, <1>15, <1>16, <1>17, <1>18, <1>19
<1> HIDE DEF g
<1>21. sl.len \in Nat /\ sl.size \in Nat
  BY <1>20 DEF LockList, NoSlot
<1> HIDE DEF sl
<1>22. /\ IsWork(u) /\ u.c = g.c /\ u.d = g.d /\ u.v = g.v /\ u.s = g.s
       /\ u.thrown = g.thrown /\ SameCourse(g.x, u.x)
       /\ u.x.lock = g.x.lock /\ u.x.lid = g.x.lid /\ u.x.slot = sl
       /\ u.x.locks = g.x.locks /\ u.x.sizes = g.x.sizes /\ u.x.ranges = g.x.ranges
  BY <1>20 DEF IsWork, IsContext, SameCourse
<1> HIDE DEF u
<1>23. LockList(u.x) /\ SameCourse(ctx[c], u.x)
  BY <1>20, <1>21, <1>22 DEF LockList, SameCourse
<1>24. Naturals_(u.x, data[c]) /\ Buffered(u.x, data[c], Left(c)) /\ Answering(c, u.x, data[c])
  <2>1. /\ Naturals_(ctx[c], data[c]) /\ Buffered(ctx[c], data[c], Left(c))
        /\ Answering(c, ctx[c], data[c])
    BY <1>1, <1>3 DEF RunInv, Running
  <2> QED BY <1>23, <2>1, TransferFit
<1>25. /\ u.x.files = ctx[c].files /\ u.x.st = ctx[c].st /\ u.x.fmt = ctx[c].fmt
       /\ u.x.flist = ctx[c].flist
  BY <1>23 DEF SameCourse
<1>26. ASSUME g = e
       PROVE  Handles(c, u, Left(c)) /\ u.v = valid
  <2>1. u.v = valid /\ u.s = seen /\ u.x.ranges = ctx[c].ranges
    BY <1>4, <1>15, <1>22, <1>26
  <2> QED BY <1>1, <1>2, <1>5, <1>20, <1>22, <1>23, <1>24, <1>25, <2>1, FieldHandles
<1>27. ASSUME g = f
       PROVE  Handles(c, u, Left(c)) /\ u.v.res = valid.res
  <2>1. /\ u.v = b.v /\ u.s = b.s /\ u.x.ranges = ctx[c].ranges \ rs /\ u.d = w.d
        /\ u.s.keep = w.s.keep
    BY <1>4, <1>9, <1>16, <1>22, <1>27 DEF SameSeen
  <2>2. Breaks(w.v, u.v, rs)
    BY <1>9, <2>1
  <2>3. Leaves(c, u)
    BY <1>1, <1>2, <1>3, <1>4, <1>5, <1>6, <1>7, <1>20, <1>22, <1>25, <2>1, <2>2, BreakLeaves
  <2>4. Fit(u, Left(c))
    BY <1>20, <1>22, <1>24 DEF Fit
  <2>5. u.s.text = seen.text /\ (~seen.assertion => ~u.s.assertion)
    BY <1>4, <1>9, <2>1 DEF SameSeen, Sound
  <2> QED BY <1>4, <1>23, <2>2, <2>3, <2>4, <2>5 DEF Handles, Breaks
<1>28. Handles(c, u, Left(c)) /\ u.v.res = valid.res
  BY <1>20, <1>26, <1>27
<1>29. Between(c)' /\ Left(c)' = Left(c)
  BY <1>1, <1>2, <1>20, <1>22, <1>25, <1>28, TransferBetween
<1> QED BY SMTT(60), <1>1, <1>2, <1>5, <1>20, <1>22, <1>28, <1>29, HandledOwners

(* The context of a side starts afresh. *)
LEMMA WorkStops ==
  ASSUME Owners, Living, Running, NEW c \in Sides
  PROVE  LET u == stop_nolock_data(Work(c))
         IN  /\ Good(u, Others(c)) /\ Elsewhere(valid, u.v, Others(c)) /\ u.c = c
             /\ u.x.st = "Empty" /\ Fit(u, Left(c)) /\ SameLists(ctx[c], u.x)
             /\ ~u.thrown /\ u.s.text = seen.text
             /\ ~seen.assertion => ~u.s.assertion
<1> DEFINE w == Work(c)
           u == stop_nolock_data(w)
           o == Others(c)
<1>1. OwnInv /\ RunInv /\ phase # "closed"
  BY DEF Owners, Running
<1>2. /\ IsWork(w) /\ w.c = c /\ w.x = ctx[c] /\ w.d = data[c] /\ w.v = valid
      /\ w.s = seen /\ ~w.thrown
  BY WorkIsWork
<1>3. Good(w, o)
  BY <1>1, WorkGood
<1> HIDE DEF w, o
<1>4. /\ Restarts(w, u, o) /\ Sound(w, u)
      /\ IF w.x.st \in Waiting THEN u.x.owed = FALSE /\ u.x.cut = FALSE
         ELSE SameOwed(w, u)
  BY <1>3, StopNolockRestarts
<1> HIDE DEF u
<1>5. Naturals_(w.x, w.d) /\ Answering(c, w.x, w.d)
  BY <1>1, <1>2 DEF RunInv, Running
<1>7. /\ ~Verifies(w.c) => ~u.x.owed
      /\ u.x.owed => u.x.cut \/ w.d.size > MaxFile
      /\ u.x.owed /\ w.x.fmt # "none" => u.x.cut
  BY <1>2, <1>4, <1>5 DEF Answering, SameOwed
<1>8. Fit(u, Left(c))
  BY <1>2, <1>4, <1>5, <1>7, RestartsFit
<1>9. Serves(w, u, o) /\ u.x.st = "Empty"
  BY <1>2, <1>4, RestartsServes
<1>10. u.s.text = w.s.text /\ ~u.thrown
  BY <1>2, <1>4 DEF Restarts, SameSeen
<1>11. /\ Good(u, o) /\ Elsewhere(valid, u.v, o) /\ u.c = c /\ SameLists(ctx[c], u.x)
       /\ ~seen.assertion => ~u.s.assertion
  BY <1>2, <1>4, <1>9 DEF Serves, Beside, Sound
<1> QED BY <1>2, <1>8, <1>9, <1>10, <1>11 DEF u, w, o

LEMMA CapsOwners ==
  ASSUME Owners, ClipInv, NEW c \in Sides, NEW lockable \in BOOLEAN, clip_caps(c, lockable)
  PROVE  Owners'
<1> DEFINE can == lockable /\ opt.vfile = {}
           lk == IF can THEN "Enabled" ELSE "Disabled"
           w == Work(c)
           s == stop_nolock_data(w)
           rs == w.x.ranges
           b == BreakRanges(s, rs)
           a == Asserted(b, b.x.st = "Empty")
           e == [a EXCEPT !.x.files = << >>, !.x.lock = "Disabled", !.x.locks = << >>,
                          !.x.sizes = {}, !.x.slot = NoSlot]
           u == [e EXCEPT !.x.lock = lk]
<1>1. /\ Running /\ Silent(c) /\ <<c, lockable>> \in opt.caps /\ msg' = msg
      /\ can_lock' = (c = "client" /\ can /\ ctx["server"].lock # "Disabled")
  BY DEF clip_caps
<1>2. Apply(u)
  BY DEF clip_caps, reset_clip
<1>3. Living
  BY <1>1 DEF ClipInv, Running
<1>4. OwnInv /\ RunInv /\ phase # "closed"
  BY <1>1 DEF Owners, Running
<1>5. w.x = ctx[c]
  BY <1>3, WorkIsWork
<1>6. /\ Good(s, Others(c)) /\ Elsewhere(valid, s.v, Others(c)) /\ s.c = c
      /\ s.x.st = "Empty" /\ Fit(s, Left(c)) /\ SameLists(ctx[c], s.x)
      /\ ~s.thrown /\ s.s.text = seen.text
      /\ ~seen.assertion => ~s.s.assertion
  BY <1>1, <1>3, WorkStops
<1>7. lk \in {"Enabled", "Disabled"} /\ (can => lk = "Enabled")
  OBVIOUS
<1>8. rs = ctx[c].ranges
  BY <1>5
<1> HIDE DEF w, s, lk, rs
<1>9. Services(s.v) /\ \A r \in rs : IsLocked(r) /\ Breakable(r.d, s.v)
  BY <1>3, <1>4, <1>6, <1>8, RangesBreakable
<1>10. IsWork(s)
  BY <1>6 DEF Good, Owned
<1>11. /\ IsWork(b) /\ b.c = s.c /\ b.d = s.d /\ b.thrown = s.thrown
       /\ SameSeen(s, b) /\ Sound(s, b) /\ SameButRanges(s.x, b.x)
       /\ b.x.ranges = s.x.ranges \ rs /\ Breaks(s.v, b.v, rs)
  BY <1>9, <1>10, BreakFields
<1> HIDE DEF b
<1>12. b.x.st = "Empty"
  BY <1>6, <1>11 DEF SameButRanges
<1>13. /\ IsWork(a) /\ a.c = b.c /\ a.x = b.x /\ a.d = b.d /\ a.v = b.v
       /\ a.s.keep = b.s.keep /\ a.s.text = b.s.text /\ a.thrown = b.thrown
       /\ ~b.s.assertion => ~a.s.assertion
  BY <1>11, <1>12 DEF Asserted, IsWork, IsSeen
<1> HIDE DEF a
<1>14. /\ IsWork(e) /\ e.c = a.c /\ e.d = a.d /\ e.v = a.v /\ e.s = a.s
       /\ e.thrown = a.thrown
       /\ e.x.st = a.x.st /\ e.x.clen = a.x.clen /\ e.x.cpos = a.x.cpos
       /\ e.x.resp = a.x.resp /\ e.x.owed = a.x.owed /\ e.x.cut = a.x.cut
       /\ e.x.fmt = a.x.fmt /\ e.x.files = << >> /\ e.x.slot = NoSlot
       /\ e.x.locks = << >> /\ e.x.sizes = {} /\ e.x.ranges = a.x.ranges
       /\ e.x.asked = a.x.asked
  BY ZenonT(60), <1>13 DEF IsWork, IsContext
<1> HIDE DEF e
<1>15. /\ IsWork(u) /\ u.c = e.c /\ u.d = e.d /\ u.v = e.v /\ u.s = e.s
       /\ u.thrown = e.thrown
       /\ u.x.st = e.x.st /\ u.x.clen = e.x.clen /\ u.x.cpos = e.x.cpos
       /\ u.x.resp = e.x.resp /\ u.x.owed = e.x.owed /\ u.x.cut = e.x.cut
       /\ u.x.fmt = e.x.fmt /\ u.x.files = e.x.files /\ u.x.slot = e.x.slot
       /\ u.x.locks = e.x.locks /\ u.x.sizes = e.x.sizes /\ u.x.ranges = e.x.ranges
       /\ u.x.asked = e.x.asked /\ u.x.lock = lk
  BY <1>14 DEF IsWork, IsContext
<1> HIDE DEF u
<1>16. /\ u.c = c /\ u.d = s.d /\ u.v = b.v /\ u.s.keep = s.s.keep /\ u.x.st = "Empty"
       /\ u.x.files = << >> /\ ~u.thrown /\ u.s.text = seen.text
       /\ ~seen.assertion => ~u.s.assertion
  BY <1>6, <1>11, <1>12, <1>13, <1>14, <1>15 DEF SameSeen, Sound
<1>17. u.x.ranges = ctx[c].ranges \ rs
  BY <1>6, <1>11, <1>13, <1>14, <1>15 DEF SameLists
<1>18. Breaks(s.v, u.v, rs)
  BY <1>11, <1>16
<1>19. Leaves(c, u)
  BY <1>3, <1>4, <1>6, <1>7, <1>8, <1>15, <1>16, <1>17, <1>18, BreakLeaves
<1>20. /\ u.x.clen = s.x.clen /\ u.x.cpos = s.x.cpos /\ u.x.resp = s.x.resp
       /\ u.x.owed = s.x.owed /\ u.x.cut = s.x.cut /\ u.x.fmt = s.x.fmt
       /\ u.x.asked = s.x.asked
  BY <1>11, <1>13, <1>14, <1>15 DEF SameButRanges
<1>21. Fit(u, Left(c))
  BY <1>6, <1>16, <1>20, EmptySeq DEF Fit, Naturals_, Buffered, Answering, Waiting
<1>22. LockList(u.x)
  BY <1>7, <1>14, <1>15, EmptySeq DEF LockList, NoSlot
<1>23. Handles(c, u, Left(c))
  BY <1>16, <1>19, <1>21, <1>22 DEF Handles
<1>24. Between(c)' /\ Left(c)' = Left(c)
  BY <1>1 DEF Between, Left, Silent
<1>25. can_lock' => u.x.lock # "Disabled" /\ ctx[Peer(c)].lock # "Disabled"
  BY <1>1, <1>7, <1>15 DEF Peer
<1>26. Unlocked(opt) => ~can_lock'
  <2>1. ASSUME \A z \in opt.caps : ~z[2] PROVE ~lockable
    <3>1. ~ <<c, lockable>>[2]
      BY <1>1, <2>1
    <3> QED BY <3>1
  <2> QED BY <1>1, <2>1 DEF Unlocked
<1> QED BY <1>1, <1>2, <1>3, <1>16, <1>23, <1>24, <1>25, <1>26, HandledOwners

----------------------------------------------------------------------------
(* A transfer of locked_data among the others. *)
LEMMA RangeHeld ==
  ASSUME OwnInv, Living, phase # "closed", NEW c \in Sides, NEW r \in ctx[c].ranges,
         NEW S, S = (ctx[c].ranges \ {r}) \cup ctx[Peer(c)].ranges,
         NEW o, o = Plus(Plus(OfRanges(S), data[Peer(c)]), data[c])
  PROVE  /\ Held(r.d, valid, seen.keep, o) /\ IsLocked(r) /\ r.d.own # 0
         /\ r.d.verdict = "Wait" /\ r.d.sig = "Update"
         /\ r.d.vid # 0 => valid.svc[r.d.vid] = "open"
<1> DEFINE p == Peer(c)
           q == data[p]
           d == data[c]
<1>1. p \in Sides /\ Peer(p) = c
  BY PeerFacts
<1>2. /\ Held(d, valid, seen.keep, Others(c)) /\ Held(q, valid, seen.keep, Others(p))
      /\ Ranges(ctx[c], valid)
  BY <1>1 DEF OwnInv
<1>3. IsLocked(r)
  BY DEF Living, IsContext
<1>4. /\ r.d.own # 0 /\ r.d.verdict = "Wait" /\ r.d.sig = "Update" /\ Linked(r.d)
      /\ r.d.vid # 0 => valid.svc[r.d.vid] = "open"
  BY <1>2 DEF Ranges
<1>5. Linked(q) /\ q.own \notin Others(p).own
  BY <1>2 DEF Held
<1>6. \A s \in ctx[p].ranges : Linked(s.d) /\ s.d.own # 0 /\ s.d.own \in Others(p).own
  BY <1>1, NumbersDiffer
<1>7. /\ \A s \in ctx[c].ranges : /\ Linked(s.d) /\ s.d.own # 0 /\ s.d.own # q.own
                                  /\ r.d.own = s.d.own => r = s
      /\ \A s \in ctx[p].ranges : r.d.own # s.d.own
  BY NumbersDiffer
<1>8. Numbers(S, q)
  BY <1>5, <1>6, <1>7 DEF Numbers
<1>9. \A s \in S : s.d.own # r.d.own
  BY <1>7
<1>10. S \cup {r} = ctx[c].ranges \cup ctx[p].ranges
  OBVIOUS
<1>11. Others(c) = Plus(OfRanges(S \cup {r}), q)
  BY <1>10, OthersAre
<1>12. r.d.own # q.own
  BY <1>7
<1>13. Held(d, valid, seen.keep, Plus(OfRanges(S \cup {r}), q))
  BY <1>2, <1>11
<1> HIDE DEF p, q, d
<1>14. Held(r.d, valid, seen.keep, Plus(Plus(OfRanges(S), q), d))
  BY <1>4, <1>8, <1>9, <1>12, <1>13, RangeOut
<1> QED BY <1>3, <1>4, <1>14 DEF p, q, d

(* The request of the next part of a locked file. *)
LEMMA LinkHeld ==
  ASSUME NEW d, NEW e, NEW v, NEW k, NEW o, Held(d, v, k, o), SameLink(d, e)
  PROVE  Held(e, v, k, o)
BY HeldSame DEF SameLink

LEMMA ContinuedLeaves ==
  ASSUME OwnInv, Living, phase # "closed", NEW c \in Sides, c \in opt.active,
         ~Unlocked(opt), NEW r \in ctx[c].ranges, NEW s, IsLocked(s), SameLink(r.d, s.d),
         NEW t, IsWork(t), t.c = c, t.d = data[c], t.s.keep = seen.keep, t.v = valid,
         t.x.st = ctx[c].st, t.x.files = ctx[c].files,
         t.x.ranges = (ctx[c].ranges \ {r}) \cup {s}
  PROVE  Leaves(c, t)
<1> DEFINE S == (ctx[c].ranges \ {r}) \cup ctx[Peer(c)].ranges
           o == Plus(Plus(OfRanges(S), data[Peer(c)]), data[c])
           e == s.d
           left == {s}
<1>1. /\ Held(r.d, valid, seen.keep, o) /\ r.d.own # 0
      /\ r.d.verdict = "Wait" /\ r.d.sig = "Update"
      /\ r.d.vid # 0 => valid.svc[r.d.vid] = "open"
  BY RangeHeld
<1> HIDE DEF o
<1>2. Held(e, t.v, t.s.keep, o)
  BY <1>1, LinkHeld
<1>3. Leftover(r, e, left, t.v)
  BY <1>1 DEF Leftover, SameLink
<1>4. Elsewhere(valid, t.v, o)
  BY DEF Elsewhere
<1>5. e.own # 0
  BY <1>1 DEF SameLink
<1> HIDE DEF S, e
<1> QED BY <1>2, <1>3, <1>4, <1>5, ChunkLeaves DEF S, o

(* A handler that has the context as it was, but for its lists and the requests
   that went on. *)
SameMoment(c, u) ==
    /\ u.x.st = ctx[c].st /\ u.x.fmt = ctx[c].fmt /\ u.x.flist = ctx[c].flist
    /\ u.x.clen = ctx[c].clen /\ u.x.cpos = ctx[c].cpos /\ u.x.resp = ctx[c].resp
    /\ u.x.owed = ctx[c].owed /\ u.x.files = ctx[c].files
    /\ u.d = data[c] /\ u.x.lock = ctx[c].lock /\ u.x.lid = ctx[c].lid

LEMMA LockedFit ==
  ASSUME Owners, Living, Running, can_lock, NEW c \in Sides, NEW u, IsWork(u), u.c = c,
         SameMoment(c, u), NEW left
  PROVE  Fit(u, left)
<1>1. Naturals_(ctx[c], data[c]) /\ Buffered(ctx[c], data[c], Left(c))
      /\ Answering(c, ctx[c], data[c])
  BY DEF Owners, RunInv, Running
<1>2. ~Verifies(c)
  BY DEF Living, Verifies
<1>3. Settled(c, ctx[c].st, data[c], valid)
  BY DEF Owners, OwnInv, Running
<1>4. ctx[c].st \notin Waiting \cup {"SyncRange", "RequestedSyncRange"}
  BY <1>2, <1>3 DEF Settled
<1>5. Naturals_(u.x, u.d) /\ Answering(u.c, u.x, u.d)
  BY <1>1, <1>2 DEF Naturals_, Answering, SameMoment
<1>6. Buffered(u.x, u.d, left)
  BY <1>1, <1>4 DEF Buffered, SameMoment, Waiting
<1> QED BY <1>5, <1>6 DEF Fit

LEMMA LockedHandles ==
  ASSUME Owners, Living, Running, can_lock, NEW c \in Sides, NEW u, IsWork(u), u.c = c,
         SameMoment(c, u), NEW left, Leaves(c, u), LockList(u.x) \/ u.thrown,
         u.s.text = seen.text, ~seen.assertion => ~u.s.assertion
  PROVE  Handles(c, u, left)
BY LockedFit DEF Handles

LEMMA LockedStays ==
  ASSUME Owners, Living, Running, can_lock, NEW c \in Sides, NEW u, IsWork(u), u.c = c,
         SameMoment(c, u), u.x.ranges = ctx[c].ranges, u.v = valid,
         u.s.keep = seen.keep, NEW left, LockList(u.x) \/ u.thrown,
         u.s.text = seen.text, ~seen.assertion => ~u.s.assertion
  PROVE  Handles(c, u, left)
<1>1. OwnInv /\ phase # "closed"
  BY DEF Owners, Running
<1>2. Held(data[c], valid, seen.keep, Others(c)) /\ Settled(c, ctx[c].st, data[c], valid)
      /\ (c \notin opt.active => ctx[c].st = "Empty")
      /\ (opt.auth = {} => ctx[c].files = << >> /\ ctx[c].st = "Empty")
      /\ (Unlocked(opt) => ctx[c].lock # "HasLock")
  BY <1>1 DEF OwnInv
<1>3. Good(u, Others(c))
  BY <1>2 DEF Good, Owned, SameMoment
<1>4. Elsewhere(valid, u.v, Others(c))
  BY DEF Elsewhere
<1>5. u.x.st = ctx[c].st /\ u.x.files = ctx[c].files /\ u.x.lock = ctx[c].lock
  BY DEF SameMoment
<1>6. Leaves(c, u)
  BY <1>1, <1>2, <1>3, <1>4, <1>5, StaysLeaves
<1> QED BY <1>6, LockedHandles

LEMMA LockedRequestHandles ==
  ASSUME Owners, Living, Running, can_lock, NEW c \in Sides, c \in opt.active,
         NEW w, IsWork(w), w.c = c, SameMoment(c, w), w.x.ranges = ctx[c].ranges,
         w.v = valid, w.s = seen, ~w.thrown, LockList(w.x), NEW q, Requested(q),
         q.lock \in Locks
  PROVE  LET u == LockedRequest(w, q)
         IN  Handles(c, u, Left(c)) /\ SameMoment(c, u) /\ u.v = valid /\ u.c = c
<1> DEFINE u == LockedRequest(w, q)
           x == w.x
           files == x.locks[FirstLock(x.locks, q.lock)].files
           goOn == {r \in x.ranges : /\ r.lock = q.lock /\ r.st = "WaitingRequest"
                                     /\ r.d.file = q.file /\ r.d.off = q.pos}
<1>1. OwnInv /\ phase # "closed" /\ ~Unlocked(opt)
  BY DEF Owners, Running, OwnInv
<1>2. CASE u = w
  BY <1>2, LockedStays
<1>3. CASE u = Throw(w)
  <2> DEFINE t == Throw(w)
  <2>1. /\ IsWork(t) /\ t.c = w.c /\ t.x = w.x /\ t.d = w.d /\ t.v = w.v /\ t.s = w.s
        /\ t.thrown
    BY DEF Throw, IsWork
  <2> HIDE DEF t
  <2>2. SameMoment(c, t) /\ t.x.ranges = ctx[c].ranges
    BY <2>1 DEF SameMoment
  <2>3. Handles(c, t, Left(c))
    BY <2>1, <2>2, LockedStays
  <2> QED BY <1>3, <2>1, <2>2, <2>3 DEF t
<1>4. CASE HasLock(x.locks, q.lock) /\ ~UsesStream(x, q.sid) /\ q.range /\ goOn # {}
  <2> DEFINE r == CHOOSE r \in goOn : TRUE
             rd == r.d
             a == [w EXCEPT !.d = rd]
             b == update_continuation_range(a, q)
             bd == b.d
             s == [r EXCEPT !.d = bd, !.st = "WaitingResponse"]
             R == (b.x.ranges \ {r}) \cup {s}
             wd == w.d
             t == [b EXCEPT !.d = wd, !.x.ranges = R]
  <2>1. u = t
    BY ZenonT(60), <1>4 DEF LockedRequest
  <2>2. r \in goOn
    BY <1>4
  <2>3. r \in ctx[c].ranges /\ IsLocked(r)
    BY <2>2 DEF Living, IsContext
  <2> HIDE DEF r, u
  <2>4. IsRange(rd)
    BY <2>3 DEF IsLocked
  <2> HIDE DEF rd
  <2>5. IsWork(a) /\ SameRest(w, a) /\ a.d = rd /\ a.x = w.x /\ a.s = w.s
    BY <2>4 DEF IsWork, SameRest
  <2> HIDE DEF a
  <2>6. /\ IsWork(b) /\ SameRest(a, b) /\ b.s = a.s
        /\ SameLink(a.d, b.d) /\ SameContext(a.x, b.x) /\ b.x.st = a.x.st
    BY <2>5, ContinuationFields
  <2> HIDE DEF b
  <2>7. IsRange(bd)
    BY <2>6 DEF IsWork
  <2> HIDE DEF bd
  <2>8. IsLocked(s) /\ s.d = bd
    BY <2>3, <2>7 DEF IsLocked
  <2> HIDE DEF s
  <2>9. SameLink(r.d, s.d)
    BY <2>5, <2>6, <2>8 DEF bd, rd
  <2>10. \A z \in R : IsLocked(z)
    BY <2>6, <2>8 DEF IsWork, IsContext
  <2>11. IsRange(wd)
    BY DEF IsWork
  <2> HIDE DEF R, wd
  <2>12. /\ IsWork(t) /\ t.c = b.c /\ t.d = wd /\ t.v = b.v /\ t.s = b.s
         /\ t.thrown = b.thrown /\ t.x.ranges = R /\ SameButRanges(b.x, t.x)
    BY ZenonT(60), <2>6, <2>10, <2>11 DEF IsWork, IsContext, SameButRanges
  <2> HIDE DEF t
  <2>13. /\ t.c = c /\ t.d = w.d /\ t.v = valid /\ t.s = seen /\ ~t.thrown
    BY <2>5, <2>6, <2>12 DEF SameRest, wd
  <2>14. t.x.ranges = (ctx[c].ranges \ {r}) \cup {s}
    BY <2>5, <2>6, <2>12 DEF R, SameContext, SameLists
  <2>15. SameMoment(c, t)
    BY <2>5, <2>6, <2>12, <2>13 DEF SameMoment, SameContext, SameLists, SameButRanges
  <2>16. LockList(t.x)
    BY <2>5, <2>6, <2>12 DEF LockList, SameContext, SameLists, SameButRanges
  <2>17. t.d = data[c] /\ t.x.st = ctx[c].st /\ t.x.files = ctx[c].files
    BY <2>15 DEF SameMoment
  <2>18. Leaves(c, t)
    BY <1>1, <2>3, <2>8, <2>9, <2>12, <2>13, <2>14, <2>17, ContinuedLeaves
  <2>19. Handles(c, t, Left(c))
    BY <2>12, <2>13, <2>15, <2>16, <2>18, LockedHandles
  <2> QED BY SMTT(60), <2>1, <2>13, <2>15, <2>19 DEF u
<1>5. CASE HasLock(x.locks, q.lock) /\ q.file \in DOMAIN files /\ q.range
           /\ ~UsesStream(x, q.sid) /\ goOn = {}
  <2> DEFINE sl == [lock |-> q.lock, sid |-> q.sid, file |-> q.file, len |-> q.len,
                    size |-> files[q.file]]
             a == [w EXCEPT !.x.slot = sl]
             t == Asked(a, q.sid, TRUE, q.len)
  <2>1. u = t
    BY ZenonT(60), <1>5 DEF LockedRequest
  <2> HIDE DEF u
  <2>2. x.locks \in Seq([lock : Locks, files : Seq(Nat)])
    BY DEF LockList
  <2>3. FirstLock(x.locks, q.lock) \in 1 .. Len(x.locks)
    BY <1>5, <2>2, FirstLockFound
  <2>4. files \in Seq(Nat)
    <3> DEFINE ls == x.locks
               i == FirstLock(ls, q.lock)
               T == [lock : Locks, files : Seq(Nat)]
    <3>1. ls \in Seq(T) /\ i \in 1 .. Len(ls)
      BY <2>2, <2>3
    <3> HIDE DEF ls, i, T
    <3>2. ls[i] \in T
      BY <3>1, ElementOfSeq
    <3>3. ls[i].files \in Seq(Nat)
      BY <3>2 DEF T
    <3> QED BY <3>3 DEF ls, i
  <2>5. files[q.file] \in Nat
    BY SMTT(60), <1>5, <2>4, ElementOfSeq, LenProperties
  <2>6. sl.len \in Nat /\ sl.size \in Nat
    BY <2>5 DEF Requested
  <2> HIDE DEF sl
  <2>7. /\ IsWork(a) /\ SameRest(w, a) /\ a.s = w.s /\ a.d = w.d
        /\ SameCourse(w.x, a.x) /\ a.x.slot = sl /\ a.x.locks = w.x.locks
        /\ a.x.sizes = w.x.sizes /\ a.x.ranges = w.x.ranges /\ a.x.lock = w.x.lock
        /\ a.x.lid = w.x.lid
    BY DEF IsWork, IsContext, SameRest, SameCourse
  <2> HIDE DEF a
  <2>8. /\ IsWork(t) /\ SameRest(a, t) /\ t.d = a.d /\ t.s = a.s
        /\ SameContext(a.x, t.x) /\ t.x.st = a.x.st
    BY ZenonT(60), <2>7 DEF Asked, IsWork, IsContext, SameRest, SameContext, SameLists
  <2> HIDE DEF t
  <2>9. LockList(t.x)
    BY <2>6, <2>7, <2>8 DEF LockList, SameContext, SameLists
  <2>10. SameMoment(c, t) /\ t.x.ranges = ctx[c].ranges
    BY <2>7, <2>8 DEF SameMoment, SameContext, SameLists, SameCourse
  <2>11. t.c = c /\ t.v = valid /\ t.s = seen
    BY <2>7, <2>8 DEF SameRest
  <2>12. Handles(c, t, Left(c))
    BY <2>8, <2>9, <2>10, <2>11, LockedStays
  <2> QED BY SMTT(60), <2>1, <2>10, <2>11, <2>12 DEF u
<1>6. CASE HasLock(x.locks, q.lock) /\ q.file \in DOMAIN files /\ ~q.range
           /\ ~UsesStream(x, q.sid)
  <2> DEFINE zs == x.sizes \cup {[lock |-> q.lock, sid |-> q.sid, file |-> q.file]}
             a == [w EXCEPT !.x.sizes = zs]
             t == Asked(a, q.sid, FALSE, 0)
  <2>1. u = t
    BY <1>6 DEF LockedRequest
  <2> HIDE DEF u
  <2>6. \A z \in zs : HasLock(x.locks, z.lock)
    BY <1>6 DEF LockList
  <2> HIDE DEF zs
  <2>7. /\ IsWork(a) /\ SameRest(w, a) /\ a.s = w.s /\ a.d = w.d
        /\ SameCourse(w.x, a.x) /\ a.x.slot = w.x.slot /\ a.x.locks = w.x.locks
        /\ a.x.sizes = zs /\ a.x.ranges = w.x.ranges /\ a.x.lock = w.x.lock
        /\ a.x.lid = w.x.lid
    BY DEF IsWork, IsContext, SameRest, SameCourse
  <2> HIDE DEF a
  <2>8. /\ IsWork(t) /\ SameRest(a, t) /\ t.d = a.d /\ t.s = a.s
        /\ SameContext(a.x, t.x) /\ t.x.st = a.x.st
    BY SMTT(60), <2>7 DEF Asked, IsWork, IsContext, SameRest, SameContext, SameLists
  <2> HIDE DEF t
  <2>9. LockList(t.x)
    BY <2>6, <2>7, <2>8 DEF LockList, SameContext, SameLists
  <2>10. SameMoment(c, t) /\ t.x.ranges = ctx[c].ranges
    BY <2>7, <2>8 DEF SameMoment, SameContext, SameLists, SameCourse
  <2>11. t.c = c /\ t.v = valid /\ t.s = seen
    BY <2>7, <2>8 DEF SameRest
  <2>12. Handles(c, t, Left(c))
    BY <2>8, <2>9, <2>10, <2>11, LockedStays
  <2> QED BY <2>1, <2>10, <2>11, <2>12 DEF u
<1>7. CASE ~HasLock(x.locks, q.lock)
  BY SMTT(60), <1>2, <1>7 DEF LockedRequest
<1>8. CASE HasLock(x.locks, q.lock) /\ UsesStream(x, q.sid)
  BY SMTT(60), <1>3, <1>8 DEF LockedRequest
<1>9. CASE HasLock(x.locks, q.lock) /\ ~UsesStream(x, q.sid)
           /\ ~(q.range /\ goOn # {}) /\ q.file \notin DOMAIN files
  BY ZenonT(60), <1>2, <1>9 DEF LockedRequest
<1> HIDE DEF u, goOn, files
<1> QED BY <1>4, <1>5, <1>6, <1>7, <1>8, <1>9 DEF u

LEMMA RequestOwners ==
  ASSUME Owners, ClipInv, opt \in Options, NEW c \in Sides, NEW q \in Requests,
         filecontents_request(c, q)
  PROVE  Owners'
<1> DEFINE w0 == Work(c)
           cut == w0.x.cut \/ ctx[c].owed \/ ctx[c].fmt # "none"
           w == [w0 EXCEPT !.x.cut = cut]
           u == IF ~can_lock THEN NoLockRequest(w, q)
                ELSE IF q.lock = 0 THEN w ELSE LockedRequest(w, q)
           o == Others(c)
<1>1. /\ Running /\ c \in opt.active /\ (ctx[c].fmt = "none" \/ opt.overlap)
      /\ \A a \in ctx[c].asked : a.sid # q.sid
      /\ msg' = msg /\ can_lock' = can_lock
  BY DEF filecontents_request, Active
<1>2. Apply(u)
  BY DEF filecontents_request
<1>3. Living
  BY <1>1 DEF ClipInv, Running
<1>4. OwnInv /\ RunInv /\ phase # "closed"
  BY <1>1 DEF Owners, Running
<1>5. /\ IsWork(w0) /\ w0.c = c /\ w0.x = ctx[c] /\ w0.d = data[c] /\ w0.v = valid
      /\ w0.s = seen /\ ~w0.thrown
  BY <1>3, WorkIsWork
<1>6. Good(w0, o) /\ Fit(w0, Left(c)) /\ LockList(w0.x)
  BY <1>1, <1>3, <1>4, WorkGood, WorkFit
<1>7. /\ can_lock => ctx[c].lock # "Disabled" /\ ctx[Peer(c)].lock # "Disabled"
      /\ Unlocked(opt) => ~can_lock /\ ctx[c].lock # "HasLock"
      /\ opt.auth = {} => ctx[c].files = << >> /\ ctx[c].st = "Empty"
      /\ c \notin opt.active => ctx[c].st = "Empty"
  BY <1>4, PeerFacts DEF OwnInv
<1>8. Requested(q) /\ (q.lock # 0 => q.lock \in Locks)
  <2>1. q.len \in opt.lens /\ q.pos \in 0 .. MaxFile /\ q.lock \in Locks \cup {0}
    BY DEF Requests
  <2> QED BY <2>1, OptionsAssumption DEF Requested
<1>10. ctx[c].owed \/ ctx[c].fmt # "none" => cut
  OBVIOUS
<1>11. w0.x.cut => cut
  OBVIOUS
<1> HIDE DEF w0, o, cut
<1>12. /\ IsWork(w) /\ w.c = w0.c /\ w.d = w0.d /\ w.v = w0.v /\ w.s = w0.s
       /\ w.thrown = w0.thrown
       /\ w.x.st = w0.x.st /\ w.x.clen = w0.x.clen /\ w.x.cpos = w0.x.cpos
       /\ w.x.resp = w0.x.resp /\ w.x.owed = w0.x.owed /\ w.x.cut = cut
       /\ w.x.fmt = w0.x.fmt /\ w.x.files = w0.x.files /\ w.x.flist = w0.x.flist
       /\ w.x.lock = w0.x.lock /\ w.x.lid = w0.x.lid /\ w.x.slot = w0.x.slot
       /\ w.x.locks = w0.x.locks /\ w.x.sizes = w0.x.sizes /\ w.x.ranges = w0.x.ranges
       /\ w.x.asked = w0.x.asked
  BY <1>5 DEF IsWork, IsContext
<1> HIDE DEF w
<1>13. Good(w, o)
  BY <1>6, <1>12 DEF Good, Owned
<1>14. Fit(w, Left(c)) /\ LockList(w.x)
  BY <1>6, <1>11, <1>12 DEF Fit, Naturals_, Buffered, Answering, LockList
<1>15. Cut(w)
  <2>1. Answering(c, ctx[c], data[c])
    BY <1>1, <1>4 DEF RunInv, Running
  <2> QED BY <1>5, <1>10, <1>12, <2>1 DEF Cut, Answering
<1>16. NewStream(w.x, q)
  BY <1>1, <1>5, <1>12 DEF NewStream
<1>17. SameMoment(c, w)
  BY <1>5, <1>12 DEF SameMoment
<1>18. Between(c) /\ Left(c)' = Left(c)
  BY <1>1, <1>4 DEF RunInv, Running, Left
<1>19. CASE can_lock
  <2>1. Handles(c, u, Left(c)) /\ SameMoment(c, u) /\ u.v = valid /\ u.c = c
    <3>1. CASE q.lock = 0
      <4>1. u = w
        BY <1>19, <3>1
      <4> HIDE DEF u
      <4> QED BY <1>1, <1>3, <1>5, <1>12, <1>14, <1>17, <1>19, <4>1, LockedStays
    <3>2. CASE q.lock # 0
      <4>1. u = LockedRequest(w, q)
        BY <1>19, <3>2
      <4> HIDE DEF u
      <4> QED BY <1>1, <1>3, <1>5, <1>8, <1>12, <1>14, <1>17, <1>19, <3>2, <4>1,
                 LockedRequestHandles
    <3> QED BY <3>1, <3>2
  <2> HIDE DEF u
  <2>2. u.x.st = ctx[c].st /\ u.x.fmt = ctx[c].fmt /\ u.x.flist = ctx[c].flist
        /\ u.d.own = data[c].own /\ u.x.lock = ctx[c].lock
    BY <2>1 DEF SameMoment
  <2>3. Between(c)'
    BY <1>1, <1>2, <1>3, <2>1, <2>2, TransferBetween
  <2> QED BY <1>1, <1>2, <1>3, <1>7, <1>18, <2>1, <2>2, <2>3, HandledOwners
<1>20. CASE ~can_lock
  <2>1. u = NoLockRequest(w, q)
    BY <1>20
  <2> HIDE DEF u
  <2>2. /\ Asks(w, u, o, Left(c))
        /\ w.x.st \in {"Text", "TextAccumulate", "RejectedText", "Size",
                       "RequestedRange"} => u.thrown
        /\ w.x.st = "Empty" => /\ u.x.st \in {"Empty", "Size", "RequestedRange"}
                               /\ u.d.own = w.d.own
    BY <1>5, <1>8, <1>12, <1>13, <1>14, <1>15, <1>16, <2>1, NoLockRequestAsks
  <2>3. /\ Good(u, o) /\ u.c = c /\ Elsewhere(valid, u.v, o) /\ SameLists(ctx[c], u.x)
    <3>1. /\ Good(u, o) /\ u.c = w.c /\ Elsewhere(valid, u.v, o) /\ SameLists(w.x, u.x)
      BY <1>5, <1>12, <2>2 DEF Asks, Serves, Beside
    <3> QED BY <1>5, <1>12, <3>1 DEF SameLists
  <2>4. u.x.files = ctx[c].files /\ u.x.ranges = ctx[c].ranges /\ u.x.lock = ctx[c].lock
    BY <1>5, <1>12, <2>2, <2>3 DEF Asks, SameLists
  <2>10. ASSUME opt.auth = {} PROVE u.x.st = "Empty"
    <3>1. w.x.st = "Empty" /\ w.x.files = << >>
      BY <1>5, <1>7, <1>12, <2>10
    <3>2. NoLockRequest(w, q) = init_contents(w, q)
      BY <3>1 DEF NoLockRequest
    <3>3. q.file \notin DOMAIN w.x.files
      BY <3>1
    <3>4. init_contents(w, q) = w
      BY <3>3 DEF init_contents, init_contents_range, init_contents_size
    <3> QED BY <2>1, <3>1, <3>2, <3>4
  <2>5. Leaves(c, u)
    BY <1>1, <1>4, <1>7, <2>3, <2>4, <2>10, StaysLeaves DEF o
  <2>6. u.thrown \/ (Fit(u, Left(c)) /\ LockList(u.x))
    <3>1. SameLists(w.x, u.x) /\ (u.thrown \/ Fit(u, Left(c)))
      BY <2>2 DEF Asks, Serves, Beside
    <3>2. LockList(u.x)
      BY <1>14, <3>1 DEF LockList, SameLists
    <3> QED BY <3>1, <3>2
  <2>7. Handles(c, u, Left(c))
    BY <1>5, <1>12, <2>2, <2>5, <2>6 DEF Handles, Asks, Sound
  <2>8. /\ ctx'[c] = u.x /\ data'[c] = u.d /\ opt' = opt /\ valid' = u.v
    BY <1>2, <1>3, <2>3 DEF Apply, Living
  <2>9. ~u.thrown => Between(c)'
    <3>1. u.x.fmt = ctx[c].fmt /\ u.x.flist = ctx[c].flist /\ u.v.res = valid.res
      BY <2>3 DEF SameLists, Elsewhere
    <3>2. w.x.st = ctx[c].st /\ w.d.own = data[c].own
      BY <1>5, <1>12
    <3> QED BY <1>1, <1>18, <2>2, <2>8, <3>1, <3>2
               DEF Between, Faithful, Unlocked, VerifiesText
  <2> QED BY <1>1, <1>2, <1>3, <1>7, <1>18, <1>20, <2>7, <2>9, HandledOwners
<1> QED BY <1>19, <1>20

----------------------------------------------------------------------------
(* The answers to the requests of locked files. *)
Locked(c, u, left) ==
    Handles(c, u, left) /\ SameMoment(c, u) /\ u.v.res = valid.res /\ u.c = c

LEMMA ChunkHandles ==
  ASSUME Owners, Living, Running, can_lock, NEW c \in Sides, c \in opt.active,
         NEW m, IsWork(m), m.c = c, SameMoment(c, m), m.x.ranges = ctx[c].ranges,
         LockList(m.x), m.s.keep = seen.keep, m.s.text = seen.text, ~m.thrown,
         ~seen.assertion => ~m.s.assertion,
         NEW r, IsLocked(r), r.d.own # 0, r.d.verdict = "Wait", r.d.sig = "Update",
         r.d.vid # 0 => m.v.svc[r.d.vid] = "open",
         NEW S, S = (ctx[c].ranges \ {r}) \cup ctx[Peer(c)].ranges,
         NEW o, o = Plus(Plus(OfRanges(S), data[Peer(c)]), data[c]),
         Held(r.d, m.v, m.s.keep, o), Elsewhere(valid, m.v, o),
         NEW n, NEW last \in BOOLEAN, NEW left
  PROVE  Locked(c, LockedChunk(m, r, n, last), left)
<1> DEFINE t == LockedChunk(m, r, n, last)
<1>1. OwnInv /\ phase # "closed" /\ ~Unlocked(opt)
  BY DEF Owners, Running, OwnInv
<1>2. /\ IsWork(t) /\ t.c = m.c /\ t.d = m.d /\ t.thrown = m.thrown
      /\ t.s.keep = m.s.keep /\ t.s.text = m.s.text /\ Sound(m, t)
      /\ SameButRanges(m.x, t.x) /\ Elsewhere(m.v, t.v, o)
      /\ ChunkRest(m, r, t, o)
  BY LockedChunkSteps
<1> HIDE DEF t
<1>3. PICK e, rest : /\ t.x.ranges = (m.x.ranges \ {r}) \cup rest
                     /\ Held(e, t.v, t.s.keep, o) /\ Leftover(r, e, rest, t.v)
  BY <1>2 DEF ChunkRest
<1>4. e.own # 0
  BY <1>3 DEF Leftover
<1>5. Elsewhere(valid, t.v, o)
  BY <1>2, ElsewhereInTurn
<1>6. SameMoment(c, t)
  BY <1>2 DEF SameMoment, SameButRanges
<1>7. t.d = data[c] /\ t.x.st = ctx[c].st /\ t.x.files = ctx[c].files
  BY <1>6 DEF SameMoment
<1>8. t.x.ranges = (ctx[c].ranges \ {r}) \cup rest
  BY <1>3
<1>9. t.c = c /\ t.s.keep = seen.keep
  BY <1>2
<1>10. Leaves(c, t)
  BY ZenonT(60), <1>1, <1>2, <1>3, <1>4, <1>5, <1>7, <1>8, <1>9, ChunkLeaves
<1>11. LockList(t.x)
  BY <1>2 DEF LockList, SameButRanges
<1>12. t.s.text = seen.text /\ (~seen.assertion => ~t.s.assertion)
  BY <1>2 DEF Sound
<1>13. Handles(c, t, left)
  BY <1>2, <1>6, <1>9, <1>10, <1>11, <1>12, LockedHandles
<1>14. t.v.res = valid.res
  BY <1>5 DEF Elsewhere
<1> QED BY <1>6, <1>9, <1>13, <1>14 DEF Locked, t

LEMMA BrokenHandles ==
  ASSUME Owners, Living, Running, can_lock, NEW c \in Sides, c \in opt.active,
         NEW m, IsWork(m), m.c = c, SameMoment(c, m), m.x.ranges = ctx[c].ranges,
         LockList(m.x), m.v = valid, m.s.keep = seen.keep, m.s.text = seen.text,
         ~m.thrown, ~seen.assertion => ~m.s.assertion,
         NEW rs, rs \subseteq ctx[c].ranges, NEW left
  PROVE  Locked(c, BreakRanges(m, rs), left)
<1> DEFINE t == BreakRanges(m, rs)
<1>1. OwnInv /\ phase # "closed" /\ ~Unlocked(opt)
      /\ (opt.auth = {} => ctx[c].files = << >> /\ ctx[c].st = "Empty")
  BY DEF Owners, Running, OwnInv
<1>2. Held(data[c], valid, seen.keep, Others(c)) /\ Settled(c, ctx[c].st, data[c], valid)
  BY <1>1 DEF OwnInv
<1>3. Good(m, Others(c)) /\ Elsewhere(valid, m.v, Others(c))
  BY <1>2 DEF Good, Owned, SameMoment, Elsewhere
<1>4. Services(m.v) /\ \A r \in rs : IsLocked(r) /\ Breakable(r.d, m.v)
  BY <1>1, <1>3, RangesBreakable
<1>5. /\ IsWork(t) /\ t.c = m.c /\ t.d = m.d /\ t.thrown = m.thrown
      /\ SameSeen(m, t) /\ Sound(m, t) /\ SameButRanges(m.x, t.x)
      /\ t.x.ranges = m.x.ranges \ rs /\ Breaks(m.v, t.v, rs)
  BY <1>4, BreakFields
<1> HIDE DEF t
<1>6. SameMoment(c, t)
  BY <1>5 DEF SameMoment, SameButRanges
<1>7. t.x.st = m.x.st /\ t.x.files = ctx[c].files /\ t.x.st = ctx[c].st
  BY <1>6 DEF SameMoment
<1>8. t.x.ranges = ctx[c].ranges \ rs /\ t.s.keep = m.s.keep /\ t.c = c
  BY <1>5 DEF SameSeen
<1>9. Leaves(c, t)
  BY <1>1, <1>3, <1>5, <1>7, <1>8, BreakLeaves
<1>10. LockList(t.x)
  BY <1>5 DEF LockList, SameButRanges
<1>11. t.s.text = seen.text /\ (~seen.assertion => ~t.s.assertion)
  BY <1>5 DEF Sound, SameSeen
<1>12. Handles(c, t, left)
  BY <1>5, <1>6, <1>8, <1>9, <1>10, <1>11, LockedHandles
<1>13. t.v.res = valid.res
  BY <1>5 DEF Breaks
<1> QED BY <1>6, <1>8, <1>12, <1>13 DEF Locked, t

(* The size of a locked file is known. *)
LEMMA SizeInList ==
  ASSUME NEW ls \in Seq([lock : Locks, files : Seq(Nat)]), NEW l, HasLock(ls, l),
         NEW file, NEW total \in Nat
  PROVE  LET i == FirstLock(ls, l)
             t == [ls EXCEPT ![i].files[file] = total]
         IN  /\ t \in Seq([lock : Locks, files : Seq(Nat)])
             /\ \A k : HasLock(ls, k) => HasLock(t, k)
<1> DEFINE T == [lock : Locks, files : Seq(Nat)]
           i == FirstLock(ls, l)
           f == [ls[i].files EXCEPT ![file] = total]
           e == [ls[i] EXCEPT !.files = f]
           t == [ls EXCEPT ![i] = e]
<1>1. i \in 1 .. Len(ls)
  BY FirstLockFound
<1>2. ls[i] \in T
  BY <1>1, ElementOfSeq
<1>3. ls[i].files \in Seq(Nat)
  BY <1>2
<1>4. f \in Seq(Nat)
  BY <1>3, StaysSequence
<1>5. t = [ls EXCEPT ![i].files[file] = total]
  OBVIOUS
<1> HIDE DEF f
<1>6. e \in T /\ e.lock = ls[i].lock
  BY <1>2, <1>4
<1> HIDE DEF T, e, i
<1>7. ls \in Seq(T)
  BY DEF T
<1>8. t \in Seq(T)
  BY <1>6, <1>7, StaysSequence
<1>9. DOMAIN t = DOMAIN ls /\ \A j \in DOMAIN ls : t[j].lock = ls[j].lock
  BY <1>6
<1>10. \A k : HasLock(ls, k) => HasLock(t, k)
  BY <1>9 DEF HasLock
<1> QED BY <1>5, <1>8, <1>10 DEF T, i

(* A new range of a locked file. *)
Begun(w, u, q) ==
    /\ IsWork(u) /\ u.c = w.c /\ u.x = w.x /\ u.s = w.s /\ u.thrown = w.thrown
    /\ Held(u.d, u.v, u.s.keep, q) /\ Elsewhere(w.v, u.v, q)
    /\ u.d.own \in Ids /\ w.v.svc[u.d.own] = "free"
    /\ u.d.verdict = "Wait" /\ u.d.sig = "Update"
    /\ u.d.vid # 0 => u.v.svc[u.d.vid] = "open"

LEMMA NewBegun ==
  ASSUME NEW w, IsWork(w), NEW q, NEW d, IsRange(d),
         NEW e, Held(e, w.v, w.s.keep, q), e.tfl = 0, e.vid = 0, Fresh(w.v) # {}
  PROVE  Begun(w, NewTransfer(w, d), q)
<1> DEFINE u == NewTransfer(w, d)
<1>1. /\ IsWork(u) /\ u.c = w.c /\ u.x = w.x /\ u.s = w.s /\ u.thrown = w.thrown
      /\ Held(u.d, u.v, u.s.keep, q) /\ Elsewhere(w.v, u.v, q)
      /\ u.d.own \in Ids /\ w.v.svc[u.d.own] = "free"
      /\ u.d.verdict = "Wait" /\ u.d.sig = "Update"
      /\ u.d.vid # 0 => u.v.svc[u.d.vid] = "open" /\ u.v.res[u.d.vid] = "none"
  BY SMTT(60), NewTransferFields
<1> HIDE DEF u
<1>2. Begun(w, u, q)
  BY <1>1 DEF Begun
<1> QED BY <1>2 DEF u

LEMMA BegunHandles ==
  ASSUME Owners, Living, Running, can_lock, NEW c \in Sides, c \in opt.active,
         NEW a, IsWork(a), a.c = c, SameMoment(c, a), a.x.ranges = ctx[c].ranges,
         LockList(a.x), a.v = valid, a.s.keep = seen.keep, a.s.text = seen.text,
         ~a.thrown, ~seen.assertion => ~a.s.assertion, Fresh(valid) # {},
         NEW dd, IsRange(dd), NEW l, NEW n, NEW last \in BOOLEAN, NEW left
  PROVE  LET new == NewTransfer(a, dd)
             r == [lock |-> l, st |-> "WaitingResponse", d |-> new.d]
             m == [new EXCEPT !.d = a.d, !.x.slot = NoSlot]
         IN  Locked(c, LockedChunk(m, r, n, last), left)
<1> DEFINE new == NewTransfer(a, dd)
           nd == new.d
           r == [lock |-> l, st |-> "WaitingResponse", d |-> nd]
           ad == a.d
           m == [new EXCEPT !.d = ad, !.x.slot = NoSlot]
           S == (ctx[c].ranges \ {r}) \cup ctx[Peer(c)].ranges
           o == Plus(Plus(OfRanges(S), data[Peer(c)]), data[c])
           q == Plus(Others(c), data[c])
           e == NoRange
<1>1. OwnInv /\ phase # "closed"
  BY DEF Owners, Running
<1>2. Held(data[c], valid, seen.keep, Others(c))
  BY <1>1 DEF OwnInv
<1>3. Held(e, a.v, a.s.keep, q) /\ e.tfl = 0 /\ e.vid = 0 /\ Fresh(a.v) # {}
  BY <1>2, NothingHeld DEF NoRange
<1> HIDE DEF q, e
<1>4. /\ IsWork(new) /\ new.c = a.c /\ new.x = a.x /\ new.s = a.s
      /\ new.thrown = a.thrown
      /\ Held(new.d, new.v, new.s.keep, q) /\ Elsewhere(a.v, new.v, q)
      /\ new.d.own \in Ids /\ a.v.svc[new.d.own] = "free"
      /\ new.d.verdict = "Wait" /\ new.d.sig = "Update"
      /\ new.d.vid # 0 => new.v.svc[new.d.vid] = "open"
  <2>1. Begun(a, new, q)
    BY <1>3, NewBegun
  <2> HIDE DEF new
  <2> QED BY <2>1 DEF Begun
<1> HIDE DEF new
<1>5. IsRange(nd) /\ IsRange(ad)
  BY <1>4 DEF IsWork
<1> HIDE DEF ad
<1>6. /\ IsWork(m) /\ m.c = new.c /\ m.d = ad /\ m.v = new.v /\ m.s = new.s
      /\ m.thrown = new.thrown /\ SameCourse(new.x, m.x) /\ m.x.ranges = new.x.ranges
      /\ m.x.slot = NoSlot /\ m.x.locks = new.x.locks /\ m.x.sizes = new.x.sizes
      /\ m.x.lock = new.x.lock /\ m.x.lid = new.x.lid
  BY ZenonT(60), <1>4, <1>5 DEF IsWork, IsContext, SameCourse
<1> HIDE DEF m
<1>7. IsLocked(r) /\ r.d = nd
  BY <1>5 DEF IsLocked
<1> HIDE DEF r
<1>8. nd.own # 0
  BY <1>4 DEF Ids
<1>9. r \notin ctx[c].ranges
  <2>1. ASSUME r \in ctx[c].ranges PROVE FALSE
    <3>1. r.d.own \in Others(c).own
      BY <1>1, <2>1, NumbersDiffer
    <3>2. valid.svc[r.d.own] # "free"
      BY <1>2, <3>1 DEF Held, Numbered
    <3> QED BY <1>4, <1>7, <3>2 DEF nd
  <2> QED BY <2>1
<1>10. S = ctx[c].ranges \cup ctx[Peer(c)].ranges
  BY <1>9
<1>11. o = q
  BY <1>10, OthersAre DEF q
<1> HIDE DEF o
<1>12. SameMoment(c, m) /\ LockList(m.x)
  BY <1>4, <1>6 DEF SameMoment, SameCourse, LockList, NoSlot, ad
<1>13. Held(r.d, m.v, m.s.keep, o) /\ Elsewhere(valid, m.v, o)
  BY <1>4, <1>6, <1>7, <1>11 DEF nd
<1>14. /\ r.d.own # 0 /\ r.d.verdict = "Wait" /\ r.d.sig = "Update"
       /\ r.d.vid # 0 => m.v.svc[r.d.vid] = "open"
  BY <1>4, <1>6, <1>7, <1>8 DEF nd
<1>15. /\ m.c = c /\ m.x.ranges = ctx[c].ranges /\ m.s.keep = seen.keep
       /\ m.s.text = seen.text /\ ~m.thrown /\ (~seen.assertion => ~m.s.assertion)
  BY <1>4, <1>6
<1> HIDE DEF S
<1>16. Locked(c, LockedChunk(m, r, n, last), left)
  BY <1>6, <1>7, <1>12, <1>13, <1>14, <1>15, ChunkHandles DEF S, o
<1> QED BY <1>16 DEF m, r, nd, ad, new

LEMMA LockedResponseHandles ==
  ASSUME Owners, Living, Running, can_lock, NEW c \in Sides, c \in opt.active,
         NEW w, IsWork(w), w.c = c, SameMoment(c, w), w.x.ranges = ctx[c].ranges,
         w.v = valid, w.s = seen, ~w.thrown, LockList(w.x), NEW sid,
         w.x.slot.lock # 0 /\ w.x.slot.sid = sid => Fresh(valid) # {},
         NEW ok \in BOOLEAN, NEW n, NEW last \in BOOLEAN, NEW total \in Nat, NEW left
  PROVE  Locked(c, LockedResponse(w, sid, ok, n, last, total), left)
<1> DEFINE u == LockedResponse(w, sid, ok, n, last, total)
           x == w.x
           rs == {r \in x.ranges : r.d.sid = sid /\ r.st = "WaitingResponse"}
           zs == {z \in x.sizes : z.sid = sid}
           slot == x.slot.lock # 0 /\ x.slot.sid = sid
           a == Asserted(w, ~Verifies(w.c))
<1>1. OwnInv /\ phase # "closed" /\ ~Verifies(c)
  BY DEF Owners, Running, Living, Verifies
<1>2. /\ IsWork(a) /\ a.c = w.c /\ a.x = w.x /\ a.d = w.d /\ a.v = w.v
      /\ a.s.keep = w.s.keep /\ a.s.text = w.s.text /\ a.thrown = w.thrown
      /\ ~w.s.assertion => ~a.s.assertion
  BY <1>1 DEF Asserted, IsWork, IsSeen
<1> HIDE DEF a
<1>3. /\ a.c = c /\ SameMoment(c, a) /\ a.x.ranges = ctx[c].ranges /\ LockList(a.x)
      /\ a.v = valid /\ a.s.keep = seen.keep /\ a.s.text = seen.text /\ ~a.thrown
      /\ ~seen.assertion => ~a.s.assertion
  BY <1>2 DEF SameMoment
<1>4. CASE slot /\ ok
  <2> DEFINE dd == [NoRange EXCEPT !.sid = sid, !.file = x.slot.file,
                                   !.first = x.slot.len, !.size = x.slot.size]
             l == x.slot.lock
             new == NewTransfer(a, dd)
             r == [lock |-> l, st |-> "WaitingResponse", d |-> new.d]
             m == [new EXCEPT !.d = a.d, !.x.slot = NoSlot]
  <2>1. u = LockedChunk(m, r, n, last)
    BY ZenonT(60), <1>2, <1>4 DEF LockedResponse, a
  <2>2. IsRange(dd)
    BY DEF IsRange, NoRange
  <2> HIDE DEF u, dd, l
  <2>3. Locked(c, LockedChunk(m, r, n, last), left)
    BY <1>2, <1>3, <1>4, <2>2, BegunHandles
  <2> HIDE DEF m, r
  <2> QED BY SMTT(60), <2>1, <2>3 DEF u
<1>5. CASE slot /\ ~ok
  <2> DEFINE t == [a EXCEPT !.x.slot = NoSlot]
  <2>1. u = t
    BY ZenonT(60), <1>5 DEF LockedResponse, a
  <2>2. /\ IsWork(t) /\ SameRest(a, t) /\ t.s = a.s /\ t.d = a.d
        /\ SameCourse(a.x, t.x) /\ t.x.slot = NoSlot /\ t.x.locks = a.x.locks
        /\ t.x.sizes = a.x.sizes /\ t.x.ranges = a.x.ranges /\ t.x.lock = a.x.lock
        /\ t.x.lid = a.x.lid
    BY <1>2 DEF IsWork, IsContext, SameRest, SameCourse
  <2> HIDE DEF t, u
  <2>3. SameMoment(c, t) /\ LockList(t.x)
    BY <1>3, <2>2 DEF SameMoment, SameCourse, LockList, NoSlot
  <2>4. t.c = c /\ t.x.ranges = ctx[c].ranges /\ t.v = valid
    BY <1>3, <2>2 DEF SameRest
  <2>5. Handles(c, t, left)
    BY <1>3, <2>2, <2>3, <2>4, LockedStays
  <2> QED BY SMTT(60), <2>1, <2>3, <2>4, <2>5 DEF Locked, u
<1>6. CASE ~slot /\ rs # {}
  <2> DEFINE r == CHOOSE r \in rs : TRUE
             S == (ctx[c].ranges \ {r}) \cup ctx[Peer(c)].ranges
             o == Plus(Plus(OfRanges(S), data[Peer(c)]), data[c])
  <2>1. u = IF ok THEN LockedChunk(a, r, n, last) ELSE BreakRanges(a, {r})
    BY ZenonT(60), <1>6 DEF LockedResponse, a
  <2>2. r \in ctx[c].ranges
    BY <1>6
  <2> HIDE DEF r, u
  <2>3. /\ Held(r.d, valid, seen.keep, o) /\ IsLocked(r) /\ r.d.own # 0
        /\ r.d.verdict = "Wait" /\ r.d.sig = "Update"
        /\ r.d.vid # 0 => valid.svc[r.d.vid] = "open"
    BY <1>1, <2>2, RangeHeld
  <2>4. Elsewhere(valid, a.v, o)
    BY <1>3 DEF Elsewhere
  <2>5. Held(r.d, a.v, a.s.keep, o)
    BY <1>3, <2>3
  <2> HIDE DEF S, o
  <2>6. Locked(c, LockedChunk(a, r, n, last), left)
    BY <1>2, <1>3, <2>3, <2>4, <2>5, ChunkHandles DEF S, o
  <2>7. {r} \subseteq ctx[c].ranges
    BY <2>2
  <2>8. Locked(c, BreakRanges(a, {r}), left)
    BY <1>2, <1>3, <2>7, BrokenHandles
  <2> QED BY SMTT(60), <2>1, <2>6, <2>8 DEF u
<1>7. CASE ~slot /\ rs = {} /\ zs # {}
  <2> DEFINE z == CHOOSE z \in zs : TRUE
             b == Asserted(a, ok => HasLock(x.locks, z.lock))
             sz == b.x.sizes \ {z}
             g == [b EXCEPT !.x.sizes = sz]
             ls == [g.x.locks EXCEPT ![FirstLock(x.locks, z.lock)].files[z.file] = total]
             t == [g EXCEPT !.x.locks = ls]
  <2>1. u = IF ok /\ HasLock(x.locks, z.lock) THEN t ELSE g
    BY ZenonT(60), <1>7 DEF LockedResponse, a
  <2>2. z \in x.sizes
    BY <1>7
  <2> HIDE DEF z, u
  <2>3. HasLock(x.locks, z.lock) /\ x.locks \in Seq([lock : Locks, files : Seq(Nat)])
    BY <2>2 DEF LockList
  <2>4. /\ IsWork(b) /\ SameRest(a, b) /\ b.x = a.x /\ b.d = a.d
        /\ b.s.keep = a.s.keep /\ b.s.text = a.s.text
        /\ ~a.s.assertion => ~b.s.assertion
    BY <1>2, <2>3 DEF Asserted, IsWork, IsSeen, SameRest
  <2>5. sz \subseteq x.sizes
    BY <1>2, <2>4
  <2> HIDE DEF b, sz
  <2>6. /\ IsWork(g) /\ SameRest(b, g) /\ g.s = b.s /\ g.d = b.d
        /\ SameCourse(b.x, g.x) /\ g.x.slot = b.x.slot /\ g.x.locks = b.x.locks
        /\ g.x.sizes = sz /\ g.x.ranges = b.x.ranges /\ g.x.lock = b.x.lock
        /\ g.x.lid = b.x.lid
    BY <2>4 DEF IsWork, IsContext, SameRest, SameCourse
  <2> HIDE DEF g
  <2>7. g.x.locks = x.locks
    BY <1>2, <2>4, <2>6
  <2>8. /\ ls \in Seq([lock : Locks, files : Seq(Nat)])
        /\ \A k : HasLock(x.locks, k) => HasLock(ls, k)
    BY <2>3, <2>7, SizeInList
  <2> HIDE DEF ls
  <2>9. /\ IsWork(t) /\ SameRest(g, t) /\ t.s = g.s /\ t.d = g.d
        /\ SameCourse(g.x, t.x) /\ t.x.slot = g.x.slot /\ t.x.locks = ls
        /\ t.x.sizes = g.x.sizes /\ t.x.ranges = g.x.ranges /\ t.x.lock = g.x.lock
        /\ t.x.lid = g.x.lid
    BY <2>6 DEF IsWork, IsContext, SameRest, SameCourse
  <2> HIDE DEF t
  <2>10. SameMoment(c, g) /\ SameMoment(c, t)
    BY <1>3, <2>4, <2>6, <2>9 DEF SameMoment, SameCourse
  <2>11. LockList(g.x) /\ LockList(t.x)
    BY <1>2, <1>3, <2>4, <2>5, <2>6, <2>7, <2>8, <2>9 DEF LockList
  <2>12. /\ g.c = c /\ g.x.ranges = ctx[c].ranges /\ g.v = valid
         /\ t.c = c /\ t.x.ranges = ctx[c].ranges /\ t.v = valid
    BY <1>3, <2>4, <2>6, <2>9 DEF SameRest
  <2>13. /\ g.s.keep = seen.keep /\ g.s.text = seen.text
         /\ ~seen.assertion => ~g.s.assertion
    BY <1>3, <2>4, <2>6
  <2>14. Handles(c, g, left)
    BY <2>6, <2>10, <2>11, <2>12, <2>13, LockedStays
  <2>15. Handles(c, t, left)
    BY <2>9, <2>10, <2>11, <2>12, <2>13, LockedStays
  <2> QED BY <2>1, <2>10, <2>12, <2>14, <2>15 DEF Locked, u
<1>8. CASE ~slot /\ rs = {} /\ zs = {}
  <2> DEFINE t == Throw(a)
  <2>1. u = t
    BY ZenonT(60), <1>8 DEF LockedResponse, a
  <2>2. /\ IsWork(t) /\ t.c = a.c /\ t.x = a.x /\ t.d = a.d /\ t.v = a.v /\ t.s = a.s
        /\ t.thrown
    BY <1>2 DEF Throw, IsWork
  <2> HIDE DEF t, u
  <2>3. SameMoment(c, t) /\ t.x.ranges = ctx[c].ranges
    BY <1>3, <2>2 DEF SameMoment
  <2>4. Handles(c, t, left)
    BY <1>3, <2>2, <2>3, LockedStays
  <2> QED BY SMTT(60), <1>3, <2>1, <2>2, <2>3, <2>4 DEF Locked, u
<1> HIDE DEF u, slot, rs, zs
<1> QED BY <1>4, <1>5, <1>6, <1>7, <1>8 DEF u

(* What is left of a response decides how much of it must still come. *)
LEMMA MoreLeft ==
  ASSUME NEW resp \in Nat, NEW clen \in Nat, NEW req \in Nat, NEW total \in Nat,
         resp <= clen + MinOf(0, req)
  PROVE  resp <= clen + MinOf(total, req)
BY DEF MinOf

LEMMA BufferedMore ==
  ASSUME NEW x, NEW d, Naturals_(x, d), Buffered(x, d, 0), NEW total \in Nat
  PROVE  Buffered(x, d, total)
<1>1. x.resp \in Nat /\ x.clen \in Nat /\ d.req \in Nat
  BY DEF Naturals_
<1>2. x.st = "GetRange" => x.resp <= x.clen + MinOf(total, d.req)
  <2>1. x.st = "GetRange" => x.resp <= x.clen + MinOf(0, d.req)
    BY DEF Buffered
  <2> QED BY <1>1, <2>1, MoreLeft
<1> QED BY <1>2 DEF Buffered

LEMMA ResponseOwners ==
  ASSUME Owners, ClipInv, opt \in Options, NEW c \in Sides, NEW q \in ctx[c].asked,
         NEW ok \in BOOLEAN, NEW n \in Nat, NEW last \in BOOLEAN, NEW total \in Nat,
         filecontents_response(c, q, ok, n, last, total)
  PROVE  Owners'
<1> DEFINE w0 == Work(c)
           as == IF last THEN w0.x.asked \ {q} ELSE w0.x.asked
           w == [w0 EXCEPT !.x.asked = as]
           u == IF can_lock THEN LockedResponse(w, q.sid, ok, n, last, total)
                ELSE IF ok THEN NoLockResponse(w, q.sid, n, last, total)
                ELSE NoLockFail(w)
           o == Others(c)
           m == IF last THEN NoMsg
                ELSE [kind |-> "file", left |-> total - n, sid |-> q.sid]
           left == IF last THEN 0 ELSE total - n
<1>1. /\ Running /\ c \in opt.active
      /\ Silent(c) \/ (msg[c].kind = "file" /\ total = msg[c].left)
      /\ q.range => n <= total /\ last = (n = total)
      /\ Begins(c, q.sid) => Fresh(valid) # {}
      /\ can_lock' = can_lock
  BY DEF filecontents_response, Active
<1>2. Apply(u) /\ msg' = [msg EXCEPT ![c] = m]
  BY DEF filecontents_response
<1>3. Living
  BY <1>1 DEF ClipInv, Running
<1>4. OwnInv /\ RunInv /\ phase # "closed"
  BY <1>1 DEF Owners, Running
<1>5. /\ IsWork(w0) /\ w0.c = c /\ w0.x = ctx[c] /\ w0.d = data[c] /\ w0.v = valid
      /\ w0.s = seen /\ ~w0.thrown
  BY <1>3, WorkIsWork
<1>6. Good(w0, o) /\ Fit(w0, Left(c)) /\ LockList(w0.x)
  BY <1>1, <1>3, <1>4, WorkGood, WorkFit
<1>7. /\ can_lock => ctx[c].lock # "Disabled" /\ ctx[Peer(c)].lock # "Disabled"
      /\ Unlocked(opt) => ~can_lock /\ ctx[c].lock # "HasLock"
      /\ opt.auth = {} => ctx[c].files = << >> /\ ctx[c].st = "Empty"
      /\ c \notin opt.active => ctx[c].st = "Empty"
  BY <1>4, PeerFacts DEF OwnInv
<1>8. as \subseteq ctx[c].asked
  BY <1>5
<1>9. m.kind # "fmt" /\ left = IF m.kind = "file" THEN m.left ELSE 0
  BY DEF NoMsg
<1>10. msg'[c] = m
  BY <1>2 DEF Owners, Spoken
<1> HIDE DEF w0, o, as, m
<1>11. Left(c)' = left
  BY <1>9, <1>10 DEF Left
<1>12. Between(c)'
  BY <1>9, <1>10 DEF Between
<1>13. \E mm : msg' = [msg EXCEPT ![c] = mm]
  BY <1>2
<1>14. /\ IsWork(w) /\ w.c = w0.c /\ w.d = w0.d /\ w.v = w0.v /\ w.s = w0.s
       /\ w.thrown = w0.thrown
       /\ w.x.st = w0.x.st /\ w.x.clen = w0.x.clen /\ w.x.cpos = w0.x.cpos
       /\ w.x.resp = w0.x.resp /\ w.x.owed = w0.x.owed /\ w.x.cut = w0.x.cut
       /\ w.x.fmt = w0.x.fmt /\ w.x.files = w0.x.files /\ w.x.flist = w0.x.flist
       /\ w.x.lock = w0.x.lock /\ w.x.lid = w0.x.lid /\ w.x.slot = w0.x.slot
       /\ w.x.locks = w0.x.locks /\ w.x.sizes = w0.x.sizes /\ w.x.ranges = w0.x.ranges
       /\ w.x.asked = as
  BY <1>5 DEF IsWork, IsContext
<1> HIDE DEF w
<1>15. SameMoment(c, w) /\ LockList(w.x)
  BY <1>5, <1>6, <1>14 DEF SameMoment, LockList
<1>16. CASE can_lock
  <2>1. u = LockedResponse(w, q.sid, ok, n, last, total)
    BY <1>16
  <2>2. w.x.slot.lock # 0 /\ w.x.slot.sid = q.sid => Fresh(valid) # {}
    BY <1>1, <1>5, <1>14, <1>16 DEF Begins
  <2> HIDE DEF u, left
  <2>3. Locked(c, u, left)
    <3> DEFINE sid == q.sid
    <3>1. w.x.slot.lock # 0 /\ w.x.slot.sid = sid => Fresh(valid) # {}
      BY <2>2
    <3>2. w.c = c /\ w.x.ranges = ctx[c].ranges /\ w.v = valid /\ w.s = seen /\ ~w.thrown
      BY <1>5, <1>14
    <3>3. u = LockedResponse(w, sid, ok, n, last, total)
      BY <2>1
    <3> HIDE DEF sid
    <3> QED BY <1>1, <1>3, <1>14, <1>15, <1>16, <3>1, <3>2, <3>3, LockedResponseHandles
  <2>4. Handles(c, u, left) /\ u.x.lock = ctx[c].lock
    BY <2>3 DEF Locked, SameMoment
  <2> QED BY <1>1, <1>2, <1>3, <1>7, <1>11, <1>12, <1>13, <2>4, HandledOwners
<1>17. CASE ~can_lock
  <2>1. Good(w, o)
    BY <1>6, <1>14 DEF Good, Owned
  <2>2. Ready(w, total)
    <3>1. Naturals_(w0.x, w0.d) /\ Buffered(w0.x, w0.d, Left(c)) /\ Answering(w0.c, w0.x, w0.d)
      BY <1>6 DEF Fit
    <3>2. Buffered(w0.x, w0.d, total)
      <4>1. CASE Silent(c)
        <5>1. Left(c) = 0
          BY <4>1 DEF Silent, Left
        <5> QED BY <3>1, <5>1, BufferedMore
      <4>2. CASE msg[c].kind = "file" /\ total = msg[c].left
        <5>1. Left(c) = total
          BY <4>2 DEF Left
        <5> QED BY <3>1, <5>1
      <4> QED BY <1>1, <4>1, <4>2
    <3>3. Naturals_(w.x, w.d) /\ Buffered(w.x, w.d, total)
      BY <1>14, <3>1, <3>2 DEF Naturals_, Buffered
    <3>4. Owing(w.c, w.x, w.d)
      BY <1>5, <1>8, <1>14, <3>1 DEF Owing, Answering
    <3> QED BY <3>3, <3>4 DEF Ready
  <2>3. w.x.st = "RequestedRange" => Fresh(w.v) # {}
    BY <1>1, <1>5, <1>14, <1>17 DEF Begins
  <2>4. w.x.st \in {"RequestedRange", "GetRange"} /\ Verifies(w.c) /\ q.sid = w.d.sid
          => n <= total /\ last = (n = total)
    <3>1. Answering(c, ctx[c], data[c])
      BY <1>1, <1>4 DEF RunInv, Running
    <3> QED BY <1>1, <1>5, <1>14, <3>1 DEF Answering
  <2>5. u = IF ok THEN NoLockResponse(w, q.sid, n, last, total) ELSE NoLockFail(w)
    BY <1>17
  <2>6. Replies(w, u, o, left)
    <3>1. CASE ok
      <4> DEFINE sid == q.sid
      <4>1. u = NoLockResponse(w, sid, n, last, total)
        BY <2>5, <3>1
      <4>2. w.x.st \in {"RequestedRange", "GetRange"} /\ Verifies(w.c) /\ sid = w.d.sid
              => n <= total /\ last = (n = total)
        BY <2>4
      <4>3. ~w.thrown
        BY <1>5, <1>14
      <4> HIDE DEF sid, u
      <4> QED BY <2>1, <2>2, <2>3, <4>1, <4>2, <4>3, NoLockResponseReplies
    <3>2. CASE ~ok
      <4>1. u = NoLockFail(w)
        BY <2>5, <3>2
      <4> HIDE DEF u, left
      <4> QED BY <2>1, <2>2, <4>1, NoLockFailReplies
    <3> QED BY <3>1, <3>2
  <2>7. ASSUME opt.auth = {} PROVE u.x.files = << >> /\ u.x.st = "Empty"
    <3>1. w.x.st = "Empty" /\ w.x.files = << >>
      BY <1>5, <1>7, <1>14, <2>7
    <3>2. u = Throw(w)
      BY <2>5, <3>1 DEF NoLockResponse, NoLockFail
    <3>3. Throw(w).x = w.x
      BY <1>14 DEF Throw, IsWork
    <3> QED BY <3>1, <3>2, <3>3
  <2> HIDE DEF u, left
  <2>8. Good(u, o) /\ Beside(w, u, o)
    BY <2>6 DEF Replies, Serves
  <2>9. /\ u.c = c /\ Elsewhere(valid, u.v, o) /\ u.x.ranges = ctx[c].ranges
        /\ u.x.lock = ctx[c].lock
    BY <1>5, <1>14, <2>8 DEF Beside, SameLists
  <2>10. LockList(u.x)
    BY <1>15, <2>8 DEF Beside, SameLists, LockList
  <2>11. Leaves(c, u)
    BY <1>1, <1>4, <1>7, <2>7, <2>8, <2>9, StaysLeaves DEF o
  <2>12. Handles(c, u, left)
    BY <1>5, <1>14, <2>6, <2>10, <2>11 DEF Handles, Replies, Sound
  <2> QED BY <1>1, <1>2, <1>3, <1>7, <1>11, <1>12, <1>13, <1>17, <2>12, HandledOwners
<1> QED BY <1>16, <1>17

----------------------------------------------------------------------------
(* The verdict of the service.  Its answer on n, as the service keeps it. *)
Answers(v, u, n, ok) ==
    /\ u.svc = v.svc /\ u.tfl = v.tfl /\ u.files = v.files /\ u.texts = v.texts
    /\ \A m \in Ids \ {n} : u.res[m] = v.res[m]
    /\ u.res[n] = IF ok THEN "accept" ELSE "reject"

LEMMA AnswerAnswers ==
  ASSUME Living, NEW n \in Ids, NEW ok \in BOOLEAN
  PROVE  IsService(Answer(valid, n, ok)) /\ Answers(valid, Answer(valid, n, ok), n, ok)
BY DEF Living, IsService, Answer, Answers

LEMMA AnswerHeld ==
  ASSUME NEW d, NEW v, NEW u, NEW k, NEW o, NEW n \in Ids, NEW ok \in BOOLEAN,
         Held(d, v, k, o), v.svc[n] # "free", Answers(v, u, n, ok)
  PROVE  Held(d, u, k, o)
<1>1. /\ u.svc = v.svc /\ u.tfl = v.tfl /\ u.files = v.files /\ u.texts = v.texts
      /\ \A m \in Ids : m = n \/ u.res[m] = v.res[m]
      /\ u.res[n] # "none"
  BY DEF Answers
<1>2. Numbered(o, u) /\ Listing(d, u, o) /\ Recorded(d, u, o) /\ Kept(d, u, k, o)
  BY <1>1 DEF Held, Numbered, Listing, Recorded, Kept
<1>3. Services(u)
  BY <1>1 DEF Held, Services
<1>4. Identified(d, u, o)
  BY <1>1 DEF Held, Identified, IsListed
<1> QED BY <1>1, <1>2, <1>3, <1>4 DEF Held

(* The recording of a rejected file has to be kept. *)
LEMMA KeepHeld ==
  ASSUME NEW d, NEW v, NEW k, NEW o, NEW n \in Ids, Held(d, v, k, o),
         Keeping(opt) => v.tfl[n] = "open" /\ opt.always
  PROVE  Held(d, v, k \cup {n}, o)
<1>1. Kept(d, v, k \cup {n}, o)
  BY DEF Held, Kept
<1> QED BY <1>1 DEF Held

LEMMA OwnRecording ==
  ASSUME NEW d, NEW v, NEW k, NEW o, Held(d, v, k, o), d.vid # 0, v.tfl[d.vid] = "open"
  PROVE  d.tfl = d.vid
<1>1. d.vid \in Ids /\ d.vid = d.own /\ d.own \notin o.own /\ o.tfl \subseteq o.own
  BY DEF Held, Linked, Numbered
<1>2. \A e \in v.files : e.tfl = d.vid => e.id = d.vid
  BY <1>1 DEF Held, Listing, Ids
<1> QED BY <1>1, <1>2 DEF Held, Recorded, Listing

LEMMA VerdictHeld ==
  ASSUME NEW d, NEW e, NEW v, NEW k, NEW j, NEW o, Held(d, v, k, o), d.vid # 0,
         v.res[d.vid] # "none", e.own = d.own, e.tfl = d.tfl, e.vid = 0,
         \/ j = k
         \/ /\ j = k \cup {d.vid} /\ v.tfl[d.vid] = "open"
            /\ Keeping(opt) => opt.always \/ e.verdict = "Failure"
  PROVE  Held(e, v, j, o)
<1>1. d.vid \in Ids /\ d.verdict = "Wait" /\ 0 \notin Ids
  BY DEF Held, Linked, Ids
<1>2. Linked(e) /\ Recorded(e, v, o)
  BY DEF Held, Linked, Recorded
<1>3. Listing(e, v, o)
  BY <1>1 DEF Held, Listing
<1>4. Identified(e, v, o)
  BY <1>1 DEF Held, Identified
<1>5. Kept(e, v, k, o)
  BY <1>1 DEF Held, Kept
<1>6. Kept(e, v, j, o)
  <2>1. CASE j = k
    BY <1>5, <2>1
  <2>2. CASE /\ j = k \cup {d.vid} /\ v.tfl[d.vid] = "open"
             /\ Keeping(opt) => opt.always \/ e.verdict = "Failure"
    <3>1. e.tfl = d.vid
      BY <2>2, OwnRecording
    <3> QED BY <1>1, <1>5, <2>2, <3>1 DEF Kept
  <2> QED BY <2>1, <2>2
<1> QED BY <1>2, <1>3, <1>4, <1>6 DEF Held

(* A verdict on a transfer that is over: its entry leaves the list. *)
Unlists(v, u, x, ok) ==
    /\ u.files = v.files \ {x} /\ u.texts = v.texts /\ u.svc = v.svc /\ u.res = v.res
    /\ u.tfl = [m \in Ids |-> u.tfl[m]]
    /\ \A m \in Ids : m # x.tfl => u.tfl[m] = v.tfl[m]
    /\ x.tfl # 0 => u.tfl[x.tfl] = IF opt.always \/ ~ok THEN "stored" ELSE "cancelled"

Noted(k, v, n, ok) ==
    IF ~ok /\ v.tfl[n] = "open" /\ (opt.always \/ ~RangeWaits(n)) THEN k \cup {n} ELSE k

LEMMA ListedVerdictHeld ==
  ASSUME NEW d, NEW v, NEW u, NEW k, NEW o, NEW n, n \in Ids, NEW ok,
         Held(d, v, k, o), NEW x, x \in v.files, x.id = n, v.res[n] # "none",
         Unlists(v, u, x, ok)
  PROVE  Held(d, u, Noted(k, v, n, ok), o)
<1> DEFINE j == Noted(k, v, n, ok)
<1>0. /\ u.files = v.files \ {x} /\ u.texts = v.texts /\ u.svc = v.svc /\ u.res = v.res
      /\ u.tfl = [m \in Ids |-> u.tfl[m]]
      /\ \A m \in Ids : m # x.tfl => u.tfl[m] = v.tfl[m]
      /\ x.tfl # 0 => u.tfl[x.tfl] = IF opt.always \/ ~ok THEN "stored" ELSE "cancelled"
      /\ j = k \/ (j = k \cup {n} /\ ~ok /\ v.tfl[n] = "open")
  BY DEF Unlists, Noted
<1> HIDE DEF j
<1>1. /\ x.tfl \in {0, n} /\ n # d.vid /\ n # d.tfl /\ n \notin o.vid /\ n \notin o.tfl
      /\ n \notin v.texts /\ o.keep \subseteq o.tfl /\ 0 \notin Ids
      /\ \A e \in v.files : e.tfl = n => e = x
  BY <1>0 DEF Held, Listing, Numbered, Ids
<1>2. v.tfl[n] = "open" <=> x.tfl = n
  BY <1>0, <1>1 DEF Held, Recorded
<1>3. \A m \in Ids : m # n => u.tfl[m] = v.tfl[m]
  BY <1>0, <1>1
<1>4. u.tfl[n] # "open" /\ (v.tfl[n] # "open" => u.tfl[n] = v.tfl[n])
  BY <1>0, <1>1, <1>2
<1>5. Numbered(o, u) /\ Services(u)
  BY <1>0 DEF Held, Numbered, Services
<1>6. Listing(d, u, o)
  BY <1>0, <1>1, <1>3, <1>4 DEF Held, Listing
<1>7. Recorded(d, u, o)
  <2> SUFFICES ASSUME NEW m \in Ids
               PROVE  u.tfl[m] = "open" <=>
                        m = d.tfl \/ m \in o.tfl \/ \E e \in u.files : e.tfl = m
    BY <1>0 DEF Recorded
  <2>1. v.tfl[m] = "open" <=> m = d.tfl \/ m \in o.tfl \/ \E e \in v.files : e.tfl = m
    BY <1>0 DEF Held, Recorded
  <2>2. CASE m = n
    BY <1>0, <1>1, <1>4, <2>2
  <2>3. CASE m # n
    <3>1. x.tfl # m
      BY <1>0, <1>1, <2>3
    <3> QED BY <1>0, <1>3, <2>1, <2>3, <3>1
  <2> QED BY <1>0, <2>2, <2>3
<1>8. Identified(d, u, o)
  <2>1. \A m \in Ids : IsListed(u, m) => IsListed(v, m)
    BY <1>0 DEF IsListed
  <2>2. \A m \in Ids : IsListed(v, m) => IsListed(u, m) \/ m = n
    BY <1>0 DEF IsListed
  <2> QED BY <1>0, <2>1, <2>2 DEF Held, Identified
<1>9. Kept(d, u, j, o)
  <2>1. Kept(d, v, k, o)
    BY <1>0 DEF Held
  <2> SUFFICES ASSUME Keeping(opt)
               PROVE  /\ j \subseteq Ids
                      /\ \A m \in j : \/ u.tfl[m] = "stored"
                                      \/ u.tfl[m] = "open" /\
                                           (\/ opt.always \/ m \in o.keep
                                            \/ m = d.tfl /\ d.verdict = "Failure")
    BY <1>0 DEF Kept
  <2>2. \A m \in k : \/ v.tfl[m] = "stored"
                     \/ v.tfl[m] = "open" /\
                          (\/ opt.always \/ m \in o.keep
                           \/ m = d.tfl /\ d.verdict = "Failure")
    BY <1>0, <2>1 DEF Kept
  <2>3. k \subseteq Ids /\ j \subseteq Ids
    BY <1>0, <2>1 DEF Kept
  <2>4. ASSUME NEW m \in j
        PROVE  \/ u.tfl[m] = "stored"
               \/ u.tfl[m] = "open" /\
                    (\/ opt.always \/ m \in o.keep
                     \/ m = d.tfl /\ d.verdict = "Failure")
    <3>1. CASE m # n
      BY <1>0, <1>3, <2>2, <2>3, <2>4, <3>1
    <3>2. CASE m = n /\ v.tfl[n] # "open"
      BY <1>0, <1>4, <2>2, <2>4, <3>2
    <3>3. CASE m = n /\ v.tfl[n] = "open" /\ ~ok
      BY <1>0, <1>1, <1>2, <3>3
    <3>4. CASE m = n /\ v.tfl[n] = "open" /\ ok
      BY <1>0, <1>1, <1>2, <2>2, <2>4, <3>4
    <3> QED BY <1>0, <3>1, <3>2, <3>3, <3>4
  <2> QED BY <1>0, <2>3, <2>4
<1> QED BY <1>5, <1>6, <1>7, <1>8, <1>9, <1>0 DEF Held, j

LEMMA ListedTextHeld ==
  ASSUME NEW d, NEW v, NEW u, NEW k, NEW o, NEW n \in v.texts, Held(d, v, k, o),
         u.files = v.files, u.texts = v.texts \ {n}, u.svc = v.svc, u.res = v.res,
         u.tfl = v.tfl, v.res[n] # "none"
  PROVE  Held(d, u, k, o)
<1>1. Numbered(o, u) /\ Services(u) /\ Listing(d, u, o) /\ Recorded(d, u, o)
      /\ Kept(d, u, k, o)
  BY SMTT(60) DEF Held, Numbered, Services, Listing, Recorded, Kept
<1>2. Identified(d, u, o)
  BY DEF Held, Identified, IsListed
<1> QED BY <1>1, <1>2 DEF Held

(* The handler of a verdict, for the context that it serves. *)
LEMMA VerdictHandles ==
  ASSUME Owners, Living, Running, NEW c \in Sides, NEW u, Good(u, Others(c)), u.c = c,
         SameLists(ctx[c], u.x), u.x.files = ctx[c].files,
         u.x.st = ctx[c].st \/ ctx[c].st # "Empty",
         Away(valid, u.v, Others(c)), Fit(u, Left(c)), ~u.thrown,
         ~seen.assertion => ~u.s.assertion, Faithful(opt) /\ ~seen.text => ~u.s.text
  PROVE  Handles(c, u, Left(c))
<1>1. OwnInv /\ RunInv /\ phase # "closed"
  BY DEF Owners, Running
<1>2. /\ c \notin opt.active => ctx[c].st = "Empty"
      /\ opt.auth = {} => ctx[c].files = << >> /\ ctx[c].st = "Empty"
      /\ Unlocked(opt) => ctx[c].lock # "HasLock"
  BY <1>1 DEF OwnInv
<1>3. /\ c \notin opt.active => u.x.st = "Empty"
      /\ opt.auth = {} => u.x.files = << >> /\ u.x.st = "Empty"
      /\ Unlocked(opt) => u.x.lock # "HasLock"
      /\ u.x.ranges = ctx[c].ranges
  BY <1>2 DEF SameLists
<1>4. Leaves(c, u)
  BY <1>1, <1>3, AwayLeaves
<1>5. LockList(ctx[c])
  BY <1>1 DEF RunInv, Running
<1>6. LockList(u.x)
  BY <1>5 DEF LockList, SameLists
<1> QED BY <1>4, <1>6 DEF Handles

(* What is between two chunks of an answer: a text may be over, accepted. *)
LEMMA VerdictBetween ==
  ASSUME Owners, Living, Running, NEW c \in Sides, NEW u, Apply(u), u.c = c,
         SameLists(ctx[c], u.x), msg' = msg,
         u.x.st = ctx[c].st \/ ctx[c].st # "Empty",
         \/ u.x.st = ctx[c].st /\ u.d.own = data[c].own
         \/ ctx[c].st \notin {"Text", "TextAccumulate", "RejectedText", "Empty", "Size",
                              "RequestedRange"}
         \/ u.x.st = "RejectedText"
         \/ u.x.st = "Empty" /\ (Faithful(opt) /\ VerifiesText(c) =>
                                   u.d.own \in Ids /\ u.v.res[u.d.own] = "accept"),
         \A n \in Ids : valid.res[n] = "accept" => u.v.res[n] = "accept"
  PROVE  Between(c)' /\ Left(c)' = Left(c)
<1>1. Between(c)
  BY DEF Owners, RunInv, Running
<1>2. ctx'[c] = u.x /\ data'[c] = u.d /\ opt' = opt /\ valid' = u.v
  BY DEF Apply, Living
<1>3. u.x.fmt = ctx[c].fmt /\ u.x.flist = ctx[c].flist
  BY DEF SameLists
<1>4. Left(c)' = Left(c)
  BY DEF Left
<1>5. Faithful(opt)' = Faithful(opt) /\ VerifiesText(c)' = VerifiesText(c)
  BY <1>2 DEF Faithful, Unlocked, VerifiesText
<1> SUFFICES ASSUME msg[c].kind = "fmt"
             PROVE  (/\ c \in opt.auth /\ ctx[c].fmt # "none"
                     /\ ctx[c].fmt = "text" /\ c \in opt.text =>
                          /\ ctx[c].st \in {"Text", "TextAccumulate", "RejectedText", "Empty",
                                             "Size", "RequestedRange"}
                          /\ ~opt.overlap => ctx[c].st \notin {"Size", "RequestedRange"}
                          /\ Faithful(opt) /\ VerifiesText(c)
                             /\ ctx[c].st \in {"Empty", "Size", "RequestedRange"} =>
                               data[c].own \in Ids /\ valid.res[data[c].own] = "accept"
                     /\ ctx[c].fmt = "files" /\ ctx[c].flist /\ ~opt.overlap
                          => ctx[c].st = "Empty")'
  BY <1>4 DEF Between
<1>6. /\ c \in opt.auth /\ ctx[c].fmt # "none"
      /\ ctx[c].fmt = "text" /\ c \in opt.text =>
           /\ ctx[c].st \in {"Text", "TextAccumulate", "RejectedText", "Empty",
                              "Size", "RequestedRange"}
           /\ ~opt.overlap => ctx[c].st \notin {"Size", "RequestedRange"}
           /\ Faithful(opt) /\ VerifiesText(c)
              /\ ctx[c].st \in {"Empty", "Size", "RequestedRange"} =>
                data[c].own \in Ids /\ valid.res[data[c].own] = "accept"
      /\ ctx[c].fmt = "files" /\ ctx[c].flist /\ ~opt.overlap => ctx[c].st = "Empty"
  BY <1>1 DEF Between
<1>7. ctx[c].fmt = "text" /\ c \in opt.text =>
        /\ u.x.st \in {"Text", "TextAccumulate", "RejectedText", "Empty",
                        "Size", "RequestedRange"}
        /\ ~opt.overlap => u.x.st \notin {"Size", "RequestedRange"}
        /\ Faithful(opt) /\ VerifiesText(c)
           /\ u.x.st \in {"Empty", "Size", "RequestedRange"} =>
             u.d.own \in Ids /\ u.v.res[u.d.own] = "accept"
  BY <1>6
<1>8. ctx[c].fmt = "files" /\ ctx[c].flist /\ ~opt.overlap => u.x.st = "Empty"
  BY <1>6
<1> QED BY <1>2, <1>3, <1>5, <1>6, <1>7, <1>8

LEMMA VerdictOwners ==
  ASSUME Owners, Living, Running, NEW c \in Sides, NEW u, Apply(u), u.c = c,
         Handles(c, u, Left(c)), Between(c)' /\ Left(c)' = Left(c),
         u.x.lock = ctx[c].lock, msg' = msg, can_lock' = can_lock
  PROVE  Owners'
<1>1. OwnInv /\ phase # "closed" /\ Peer(c) \in Sides
  BY PeerFacts DEF Owners, Running
<1>2. /\ can_lock => ctx[c].lock # "Disabled" /\ ctx[Peer(c)].lock # "Disabled"
      /\ Unlocked(opt) => ~can_lock
  BY <1>1 DEF OwnInv
<1> QED BY <1>2, HandledOwners

(* A verdict that no context waits for. *)
LEMMA AsideOwners ==
  ASSUME Owners, Living, Running, NEW c \in Sides, NEW vv, IsService(vv), NEW ss, IsSeen(ss),
         valid' = vv, seen' = ss, UNCHANGED <<opt, ctx, data, phase, can_lock, msg>>,
         Held(data[c], vv, ss.keep, Others(c)), vv.svc = valid.svc,
         ss.text = seen.text, ss.assertion = seen.assertion, NEW n \in Ids,
         \A m \in Ids \ {n} : vv.res[m] = valid.res[m], valid.res[n] = "none",
         Faithful(opt) => n # data[c].vid /\ n \notin Others(c).vid
  PROVE  Owners'
<1> DEFINE w == Work(c)
           u == [w EXCEPT !.v = vv, !.s = ss]
<1>1. OwnInv /\ RunInv /\ phase # "closed"
  BY DEF Owners, Running
<1>2. /\ IsWork(w) /\ w.c = c /\ w.x = ctx[c] /\ w.d = data[c] /\ ~w.thrown
  BY WorkIsWork
<1> HIDE DEF w
<1>3. /\ IsWork(u) /\ u.c = c /\ u.x = ctx[c] /\ u.d = data[c] /\ ~u.thrown
      /\ u.v = vv /\ u.s = ss
  BY <1>2 DEF IsWork
<1> HIDE DEF u
<1>4. Apply(u)
  <2>1. ctx' = [ctx EXCEPT ![c] = ctx[c]] /\ data' = [data EXCEPT ![c] = data[c]]
    BY DEF Living
  <2> QED BY <1>3, <2>1 DEF Apply
<1>5. /\ Held(data[c], valid, seen.keep, Others(c)) /\ Settled(c, ctx[c].st, data[c], valid)
  BY <1>1 DEF OwnInv
<1>6. Numbered(Others(c), valid) /\ Linked(data[c])
  BY <1>5 DEF Held
<1>7. Settled(c, ctx[c].st, data[c], vv)
  <2>1. Faithful(opt) /\ data[c].vid # 0 => vv.res[data[c].vid] = valid.res[data[c].vid]
    BY <1>6 DEF Linked
  <2> QED BY <1>5, <2>1 DEF Settled
<1>8. Good(u, Others(c))
  BY <1>3, <1>7 DEF Good, Owned
<1>9. Away(valid, vv, Others(c))
  <2>1. Others(c).vid \subseteq Ids
    BY <1>6 DEF Numbered
  <2> QED BY <2>1 DEF Away
<1>10. Fit(Work(c), Left(c)) /\ LockList(Work(c).x)
  BY <1>1, WorkFit
<1>11. Fit(u, Left(c)) /\ LockList(u.x)
  BY <1>2, <1>3, <1>10 DEF Fit, w
<1>12. Handles(c, u, Left(c))
  <2>1. SameLists(ctx[c], u.x) /\ u.x.files = ctx[c].files /\ u.x.st = ctx[c].st
    BY <1>3 DEF SameLists
  <2> QED BY <1>3, <1>8, <1>9, <1>11, <2>1, VerdictHandles
<1>13. Between(c)' /\ Left(c)' = Left(c)
  <2>1. /\ u.x.st = ctx[c].st /\ u.x.fmt = ctx[c].fmt /\ u.x.flist = ctx[c].flist
        /\ u.d.own = data[c].own /\ msg' = msg
    BY <1>3
  <2>2. \A m \in Ids : valid.res[m] = "accept" => u.v.res[m] = "accept"
    BY <1>3, <1>9 DEF Away
  <2> QED BY <1>3, <1>4, <2>1, <2>2, TransferBetween
<1> QED BY <1>3, <1>4, <1>12, <1>13, VerdictOwners

Awaited(n) == /\ n \in Ids /\ valid.svc[n] # "free" /\ valid.res[n] = "none"

LEMMA ListedOwners ==
  ASSUME Owners, Living, Running, NEW n, Awaited(n), NEW ok \in BOOLEAN,
         NEW v, v = Answer(valid, n, ok), n \in v.texts \/ \E e \in v.files : e.id = n,
         valid' = IF n \in v.texts THEN [v EXCEPT !.texts = @ \ {n}]
                  ELSE process_listed(v, n, ok),
         seen' = Rejected(seen, n, ok), UNCHANGED <<opt, ctx, data, phase, can_lock, msg>>
  PROVE  Owners'
<1> DEFINE c == "client"
           o == Others(c)
           k == Rejected(seen, n, ok).keep
<1>1. c \in Sides /\ n \in Ids
  BY DEF Sides, Awaited
<1>2. OwnInv /\ phase # "closed"
  BY DEF Owners, Running
<1>3. IsService(v) /\ Answers(valid, v, n, ok)
  BY <1>1, AnswerAnswers
<1>4. Held(data[c], valid, seen.keep, o)
  BY <1>1, <1>2 DEF OwnInv
<1>5. Held(data[c], v, seen.keep, o)
  BY <1>1, <1>3, <1>4, AnswerHeld DEF Awaited
<1>6. /\ v.svc = valid.svc /\ v.tfl = valid.tfl /\ v.files = valid.files
      /\ v.texts = valid.texts /\ v.res[n] # "none"
      /\ \A m \in Ids \ {n} : v.res[m] = valid.res[m]
  BY <1>3 DEF Answers
<1>7. n # data[c].vid /\ n \notin o.vid
  BY <1>1, <1>5 DEF Held, Listing
<1>8. /\ IsSeen(Rejected(seen, n, ok)) /\ Rejected(seen, n, ok).text = seen.text
      /\ Rejected(seen, n, ok).assertion = seen.assertion
      /\ k = IF ~ok /\ v.tfl[n] = "open" /\ (opt.always \/ ~RangeWaits(n))
             THEN seen.keep \cup {n} ELSE seen.keep
  BY <1>6 DEF Rejected, IsSeen, Living
<1>9. CASE n \in v.texts
  <2> DEFINE vv == [v EXCEPT !.texts = @ \ {n}]
  <2>1. /\ IsService(vv) /\ vv.svc = v.svc /\ vv.res = v.res /\ vv.tfl = v.tfl
        /\ vv.files = v.files /\ vv.texts = v.texts \ {n}
    BY <1>3 DEF IsService
  <2> HIDE DEF vv
  <2>2. Held(data[c], vv, seen.keep, o)
    BY <1>5, <1>6, <1>9, <2>1, ListedTextHeld
  <2>3. v.tfl[n] # "open"
    BY <1>5, <1>9 DEF Held, Listing
  <2>4. Held(data[c], vv, Rejected(seen, n, ok).keep, o)
    BY <1>8, <2>2, <2>3
  <2>5. valid' = vv
    BY <1>9 DEF vv
  <2>6. /\ vv.svc = valid.svc /\ (\A m \in Ids \ {n} : vv.res[m] = valid.res[m])
        /\ valid.res[n] = "none"
    BY <1>6, <2>1 DEF Awaited
  <2> HIDE DEF c, k
  <2> QED BY <1>1, <1>7, <1>8, <2>1, <2>4, <2>5, <2>6, AsideOwners
<1>10. CASE n \notin v.texts
  <2> DEFINE x == CHOOSE e \in v.files : e.id = n
             vv == process_listed(v, n, ok)
  <2>1. x \in v.files /\ x.id = n
    BY <1>10
  <2>2. x.tfl \in {0, n}
    BY <1>5, <2>1 DEF Held, Listing
  <2>3. v.tfl = [m \in Ids |-> v.tfl[m]]
    BY <1>5 DEF Held, Services
  <2>4. vv = [v EXCEPT !.files = @ \ {x}, !.tfl = IF x.tfl = 0 THEN @
                   ELSE [@ EXCEPT ![x.tfl] =
                           IF opt.always \/ ~ok THEN "stored" ELSE "cancelled"]]
    BY DEF process_listed
  <2> HIDE DEF x, vv
  <2>5. /\ IsService(vv) /\ vv.svc = v.svc /\ vv.res = v.res /\ vv.texts = v.texts
        /\ vv.files = v.files \ {x}
        /\ vv.tfl = IF x.tfl = 0 THEN v.tfl
                    ELSE [v.tfl EXCEPT ![x.tfl] =
                           IF opt.always \/ ~ok THEN "stored" ELSE "cancelled"]
    BY <1>3, <2>4 DEF IsService
  <2>6. /\ vv.tfl = [m \in Ids |-> vv.tfl[m]]
        /\ \A m \in Ids : m # x.tfl => vv.tfl[m] = v.tfl[m]
        /\ x.tfl # 0 => vv.tfl[x.tfl] = IF opt.always \/ ~ok THEN "stored" ELSE "cancelled"
    BY <1>1, <2>2, <2>3, <2>5
  <2>7. Held(data[c], vv, k, o)
    <3>1. k = Noted(seen.keep, v, n, ok)
      BY <1>8 DEF Noted
    <3>2. Unlists(v, vv, x, ok)
      BY <2>5, <2>6 DEF Unlists
    <3> HIDE DEF c, o, k
    <3> QED BY <1>1, <1>5, <1>6, <2>1, <3>1, <3>2, ListedVerdictHeld
  <2>8. valid' = vv
    BY <1>10 DEF vv
  <2>9. /\ vv.svc = valid.svc /\ (\A m \in Ids \ {n} : vv.res[m] = valid.res[m])
        /\ valid.res[n] = "none"
    BY <1>6, <2>5 DEF Awaited
  <2> HIDE DEF c
  <2> QED BY <1>1, <1>7, <1>8, <2>5, <2>7, <2>8, <2>9, AsideOwners
<1> QED BY <1>9, <1>10

(* No context waits for n: it is not theirs. *)
LEMMA NotConcerned ==
  ASSUME OwnInv, Running, NEW c \in Sides, NEW n, Awaited(n), ~Concerns(c, n), Faithful(opt)
  PROVE  n # data[c].vid /\ \A r \in ctx[c].ranges : r.d.vid # n
<1>1. Settled(c, ctx[c].st, data[c], valid)
  BY DEF OwnInv, Running
<1>2. n # 0
  BY DEF Awaited, Ids
<1>3. \A r \in ctx[c].ranges : r.d.vid # n
  BY DEF Concerns
<1>4. ASSUME n = data[c].vid PROVE FALSE
  <2>1. ctx[c].st \in Validating \cup {"RejectedText"}
    BY <1>1, <1>2, <1>4 DEF Settled
  <2>2. ctx[c].st = "RejectedText"
    BY <1>4, <2>1 DEF Validating, Concerns
  <2> QED BY <1>1, <1>2, <1>4, <2>2 DEF Settled, Awaited
<1> QED BY <1>3, <1>4

LEMMA UnknownOwners ==
  ASSUME Owners, Living, Running, NEW n, Awaited(n), NEW ok \in BOOLEAN,
         \A c \in Sides : ~Concerns(c, n), valid' = Answer(valid, n, ok),
         UNCHANGED <<opt, ctx, data, phase, seen, can_lock, msg>>
  PROVE  Owners'
<1> DEFINE c == "client"
           p == "server"
           v == Answer(valid, n, ok)
<1>1. c \in Sides /\ p \in Sides /\ n \in Ids /\ Peer(c) = p
  BY DEF Sides, Awaited, Peer
<1>2. OwnInv /\ phase # "closed"
  BY DEF Owners, Running
<1>3. IsService(v) /\ Answers(valid, v, n, ok)
  BY <1>1, AnswerAnswers
<1>4. Held(data[c], valid, seen.keep, Others(c))
  BY <1>1, <1>2 DEF OwnInv
<1> HIDE DEF v
<1>5. Held(data[c], v, seen.keep, Others(c))
  BY <1>1, <1>3, <1>4, AnswerHeld DEF Awaited
<1>6. v.svc = valid.svc /\ (\A m \in Ids \ {n} : v.res[m] = valid.res[m])
      /\ valid.res[n] = "none"
  BY <1>3 DEF Answers, Awaited
<1>7. ASSUME Faithful(opt)
      PROVE  n # data[c].vid /\ n \notin Others(c).vid
  <2>1. /\ n # data[c].vid /\ \A r \in ctx[c].ranges : r.d.vid # n
        /\ n # data[p].vid /\ \A r \in ctx[p].ranges : r.d.vid # n
    BY <1>1, <1>2, <1>7, NotConcerned
  <2> DEFINE S == ctx[c].ranges \cup ctx[p].ranges
  <2>2. Others(c) = Plus(OfRanges(S), data[p])
    BY <1>1, OthersAre
  <2>3. \A r \in S : r.d.vid # n
    BY <2>1
  <2> HIDE DEF S
  <2>4. Plus(OfRanges(S), data[p]).vid = ({r.d.vid : r \in S} \ {0}) \cup ({data[p].vid} \ {0})
    BY DEF Plus, OfRanges
  <2> QED BY <2>1, <2>2, <2>3, <2>4
<1>8. IsSeen(seen) /\ valid' = v /\ seen' = seen
  BY DEF Living, v
<1> HIDE DEF c
<1> QED BY <1>1, <1>3, <1>5, <1>6, <1>7, <1>8, AsideOwners

(* The verdict n, for a context c that waits for it: w is what c begins with. *)
Judged(c, w, n, ok) ==
    /\ IsWork(w) /\ w.c = c /\ w.x = ctx[c] /\ w.d = data[c] /\ ~w.thrown
    /\ Answers(valid, w.v, n, ok)
    /\ w.s.text = seen.text /\ w.s.assertion = seen.assertion
    /\ w.s.keep = Noted(seen.keep, valid, n, ok)

Unlisted(n) == n \notin valid.texts /\ \A e \in valid.files : e.id # n

LEMMA JudgedWork ==
  ASSUME Living, NEW c \in Sides, NEW n, n \in Ids, NEW ok \in BOOLEAN
  PROVE  Judged(c, [Work(c) EXCEPT !.v = Answer(valid, n, ok), !.s = Rejected(seen, n, ok)],
                n, ok)
<1> DEFINE w == Work(c)
           v == Answer(valid, n, ok)
           s == Rejected(seen, n, ok)
           u == [w EXCEPT !.v = v, !.s = s]
<1>1. IsService(v) /\ Answers(valid, v, n, ok)
  BY AnswerAnswers
<1>2. IsSeen(s) /\ s.text = seen.text /\ s.assertion = seen.assertion
      /\ s.keep = Noted(seen.keep, valid, n, ok)
  BY DEF Rejected, Noted, Living, IsSeen
<1>3. /\ IsWork(w) /\ w.c = c /\ w.x = ctx[c] /\ w.d = data[c] /\ ~w.thrown
  BY WorkIsWork
<1> HIDE DEF w, v, s
<1>4. /\ IsWork(u) /\ u.c = c /\ u.x = ctx[c] /\ u.d = data[c] /\ ~u.thrown
      /\ u.v = v /\ u.s = s
  BY <1>1, <1>2, <1>3 DEF IsWork
<1> HIDE DEF u
<1>5. Judged(c, u, n, ok)
  BY <1>1, <1>2, <1>4 DEF Judged
<1> QED BY <1>5 DEF u, w, v, s

LEMMA JudgedHeld ==
  ASSUME Owners, Living, Running, NEW c \in Sides, NEW n, Awaited(n), NEW ok \in BOOLEAN,
         NEW w, Judged(c, w, n, ok)
  PROVE  /\ Held(data[c], valid, seen.keep, Others(c))
         /\ Held(data[c], w.v, seen.keep, Others(c))
         /\ Settled(c, ctx[c].st, data[c], valid)
         /\ Naturals_(ctx[c], data[c]) /\ Buffered(ctx[c], data[c], Left(c))
         /\ Answering(c, ctx[c], data[c]) /\ LockList(ctx[c])
         /\ w.v.res[n] # "none" /\ n \in Ids /\ w.v.svc = valid.svc /\ w.v.tfl = valid.tfl
<1>1. Held(data[c], valid, seen.keep, Others(c)) /\ Settled(c, ctx[c].st, data[c], valid)
  BY DEF Owners, OwnInv, Running
<1>2. Naturals_(ctx[c], data[c]) /\ Buffered(ctx[c], data[c], Left(c))
      /\ Answering(c, ctx[c], data[c]) /\ LockList(ctx[c])
  BY DEF Owners, RunInv, Running
<1>3. Answers(valid, w.v, n, ok) /\ n \in Ids /\ valid.svc[n] # "free"
  BY DEF Judged, Awaited
<1>4. Held(data[c], w.v, seen.keep, Others(c))
  BY <1>1, <1>3, AnswerHeld
<1> QED BY <1>1, <1>2, <1>3, <1>4 DEF Answers

LEMMA JudgedAway ==
  ASSUME NEW d, NEW v, NEW u, NEW k, NEW o, NEW n, n \in Ids, NEW ok, Held(d, v, k, o),
         Answers(v, u, n, ok), v.res[n] = "none", Faithful(opt) => n = d.vid
  PROVE  Away(v, u, o)
<1>1. /\ u.svc = v.svc /\ \A m \in Ids \ {n} : u.res[m] = v.res[m]
  BY DEF Answers
<1>2. o.vid \subseteq Ids
  BY DEF Held, Numbered
<1>3. ASSUME Faithful(opt) PROVE n \notin o.vid
  <2>1. n = d.own
    BY <1>3 DEF Held, Linked, Ids
  <2> QED BY <2>1 DEF Held, Numbered
<1> QED BY <1>1, <1>2, <1>3 DEF Away

LEMMA AwayElsewhere ==
  ASSUME NEW v, NEW u, NEW t, NEW o, Away(v, u, o), Elsewhere(u, t, o)
  PROVE  Away(v, t, o)
BY DEF Away, Elsewhere

(* The recording of a text: there is none. *)
LEMMA NotedHeld ==
  ASSUME NEW d, NEW v, NEW k, NEW o, Held(d, v, k, o), d.tfl = 0, NEW n, n \in Ids, NEW ok,
         n = d.vid \/ opt.always \/ ~Keeping(opt)
  PROVE  Held(d, v, Noted(k, v, n, ok), o)
<1>1. CASE Noted(k, v, n, ok) = k
  BY <1>1
<1>2. CASE Noted(k, v, n, ok) = k \cup {n} /\ v.tfl[n] = "open"
  <2>1. n # d.vid
    <3> SUFFICES ASSUME n = d.vid PROVE FALSE
      OBVIOUS
    <3>1. n # 0
      BY DEF Ids
    <3> QED BY <1>2, <3>1, OwnRecording
  <2>2. Keeping(opt) => v.tfl[n] = "open" /\ opt.always
    BY <1>2, <2>1
  <2> QED BY <1>2, <2>2, KeepHeld
<1> QED BY <1>1, <1>2 DEF Noted

(* With verdicts that are given to the text they are for, a text waits for n. *)
LEMMA TextAwaits ==
  ASSUME Owners, Living, Running, NEW c \in Sides, NEW n, Awaited(n), Unlisted(n),
         valid.svc[n] \in {"open", "eof"} \cup (IF opt.late THEN {"abort"} ELSE {}),
         ctx[c].st \in {"TextAccumulate", "WaitingTextValidator"}, Faithful(opt)
  PROVE  n = data[c].vid
<1> DEFINE p == Peer(c)
<1>1. OwnInv /\ phase # "closed" /\ p \in Sides /\ p # c /\ \A k \in Sides : k = c \/ k = p
  BY PeerFacts DEF Owners, Running
<1>2. /\ Held(data[c], valid, seen.keep, Others(c)) /\ Settled(c, ctx[c].st, data[c], valid)
      /\ Settled(p, ctx[p].st, data[p], valid)
      /\ c \notin opt.active => ctx[c].st = "Empty"
      /\ p \notin opt.active => ctx[p].st = "Empty" /\ ctx[p].ranges = {}
      /\ Unlocked(opt) => ctx[c].ranges = {} /\ ctx[p].ranges = {}
  BY <1>1 DEF OwnInv
<1>3. VerifiesText(c) /\ c \in opt.active
  BY <1>2 DEF Settled, Texts
<1>4. Unlocked(opt) /\ ~opt.late /\ p \notin opt.active
  BY <1>1, <1>3 DEF Faithful, VerifiesText
<1>5. ctx[p].st = "Empty" /\ data[p].vid = 0 /\ ctx[c].ranges \cup ctx[p].ranges = {}
  BY <1>2, <1>4 DEF Settled, Validating
<1>6. Others(c) = Plus(OfRanges(ctx[c].ranges \cup ctx[p].ranges), data[p])
  BY OthersAre
<1>7. Others(c).vid = {}
  BY <1>5, <1>6 DEF Plus, OfRanges
<1>8. valid.svc[n] \in {"open", "eof"} /\ valid.res[n] = "none" /\ n \in Ids
  BY <1>4 DEF Awaited
<1>9. ~IsListed(valid, n)
  BY DEF IsListed, Unlisted
<1> QED BY <1>2, <1>7, <1>8, <1>9 DEF Held, Identified

(* What the handler of a verdict leaves of context c, whatever it waited for. *)
Verdicted(c, u) ==
    /\ Good(u, Others(c)) /\ u.c = c /\ SameLists(ctx[c], u.x)
    /\ u.x.files = ctx[c].files /\ ctx[c].st # "Empty"
    /\ Away(valid, u.v, Others(c)) /\ Fit(u, Left(c)) /\ ~u.thrown
    /\ ~seen.assertion => ~u.s.assertion
    /\ Faithful(opt) /\ ~seen.text => ~u.s.text
    /\ \/ ctx[c].st \notin {"Text", "TextAccumulate", "RejectedText", "Empty", "Size",
                            "RequestedRange"}
       \/ u.x.st = "RejectedText"
       \/ u.x.st = "Empty" /\ (Faithful(opt) /\ VerifiesText(c) =>
                                 u.d.own \in Ids /\ u.v.res[u.d.own] = "accept")

LEMMA VerdictedOwners ==
  ASSUME Owners, Living, Running, NEW c \in Sides, NEW u, Verdicted(c, u), Apply(u),
         UNCHANGED <<can_lock, msg>>
  PROVE  Owners'
<1>1. Handles(c, u, Left(c))
  BY VerdictHandles DEF Verdicted
<1>2. \A n \in Ids : valid.res[n] = "accept" => u.v.res[n] = "accept"
  BY DEF Verdicted, Away
<1>3. u.c = c /\ u.x.lock = ctx[c].lock /\ SameLists(ctx[c], u.x)
  BY DEF Verdicted, SameLists
<1>4. Between(c)' /\ Left(c)' = Left(c)
  BY <1>2, <1>3, VerdictBetween DEF Verdicted
<1> QED BY <1>1, <1>3, <1>4, VerdictOwners

(* A text that its verdict ends. *)
Ended(c, w, u) ==
    /\ Good(u, Others(c)) /\ u.c = c /\ SameLists(ctx[c], u.x)
    /\ u.x.files = ctx[c].files /\ ctx[c].st # "Empty"
    /\ Away(valid, u.v, Others(c)) /\ Fit(u, Left(c)) /\ ~u.thrown
    /\ ~seen.assertion => ~u.s.assertion
    /\ Faithful(opt) /\ ~seen.text => ~u.s.text
    /\ u.x.st = "Empty"
    /\ VerifiesText(c) => u.d.own = data[c].vid /\ u.d.own \in Ids
    /\ u.v.res = w.v.res

LEMMA TextOver ==
  ASSUME Owners, Living, Running, NEW c \in Sides, NEW w, IsWork(w), w.c = c,
         w.d = data[c], ~w.thrown, SameLists(ctx[c], w.x), w.x.st = ctx[c].st,
         w.x.owed = ctx[c].owed, w.x.cut = ctx[c].cut, w.x.files = ctx[c].files,
         Naturals_(w.x, w.d),
         Held(w.d, w.v, w.s.keep, Others(c)), Away(valid, w.v, Others(c)),
         ctx[c].st \in Texts, Settled(c, ctx[c].st, data[c], valid),
         Faithful(opt) => w.v.res[data[c].vid] # "none",
         ~seen.assertion => ~w.s.assertion,
         Faithful(opt) /\ ~seen.text => ~w.s.text
  PROVE  Ended(c, w, InitEmpty(w))
<1> DEFINE u == InitEmpty(w)
           o == Others(c)
<1>1. data[c].vid # 0 /\ data[c].tfl = 0 /\ data[c].own = data[c].vid /\ data[c].vid \in Ids
  BY DEF Settled, Texts, Holding, Held, Linked
<1>2. Owned(w, o)
  BY DEF Owned
<1>3. Restarts(w, u, o) /\ SameOwed(w, u) /\ Sound(w, u)
  BY <1>1, <1>2, InitEmptyRestarts
<1> HIDE DEF u, o
<1>4. Serves(w, u, o) /\ u.x.st = "Empty" /\ u.x.files = w.x.files
  BY <1>3, RestartsServes
<1>5. Good(u, o) /\ u.c = c /\ SameLists(w.x, u.x) /\ Elsewhere(w.v, u.v, o)
  BY <1>4 DEF Serves, Beside
<1>6. SameLists(ctx[c], u.x)
  BY <1>5 DEF SameLists
<1>7. Away(valid, u.v, o)
  BY <1>5, AwayElsewhere DEF o
<1>8. Answering(c, ctx[c], data[c])
  BY DEF Owners, RunInv, Running
<1>9. Fit(u, Left(c))
  <2>1. /\ ~Verifies(c) => ~u.x.owed
        /\ u.x.owed => u.x.cut
    BY <1>3, <1>8 DEF Answering, SameOwed, Texts, Waiting
  <2> HIDE DEF u, o
  <2> QED BY <1>3, <2>1, RestartsFit
<1>10. /\ u.s.text = w.s.text /\ (VerifiesText(c) => u.d.own = w.d.own)
       /\ u.thrown = w.thrown /\ u.v.res = w.v.res
  BY <1>3, <1>5 DEF Restarts, SameSeen, Elsewhere
<1>11. ~seen.assertion => ~u.s.assertion
  BY <1>3 DEF Sound
<1>12. ctx[c].st # "Empty"
  BY DEF Texts
<1>13. Ended(c, w, u)
  BY <1>1, <1>4, <1>5, <1>6, <1>7, <1>9, <1>10, <1>11, <1>12 DEF o, Ended
<1> QED BY <1>13 DEF u

LEMMA RejectVerdicted ==
  ASSUME Owners, Living, Running, NEW c \in Sides, NEW n, Awaited(n), NEW ok \in BOOLEAN,
         NEW w, Judged(c, w, n, ok), ~ok, ctx[c].st = "TextAccumulate",
         Held(data[c], w.v, w.s.keep, Others(c)), Away(valid, w.v, Others(c)),
         Faithful(opt) => n = data[c].vid
  PROVE  Verdicted(c, RejectText(w))
<1> DEFINE u == SetState(w, {"TextAccumulate"}, "RejectedText")
<1>1. IsWork(w) /\ w.c = c /\ w.x = ctx[c] /\ w.d = data[c] /\ ~w.thrown
      /\ w.s.text = seen.text /\ w.s.assertion = seen.assertion
      /\ Answers(valid, w.v, n, ok)
  BY DEF Judged
<1>2. /\ Settled(c, ctx[c].st, data[c], valid)
      /\ Naturals_(ctx[c], data[c]) /\ Buffered(ctx[c], data[c], Left(c))
      /\ Answering(c, ctx[c], data[c]) /\ w.v.res[n] # "none" /\ w.v.svc = valid.svc
  BY JudgedHeld
<1>3. /\ IsWork(u) /\ SameRest(w, u) /\ u.d = w.d
      /\ SameContext(w.x, u.x) /\ u.x.st = "RejectedText" /\ u.x.asked = w.x.asked
      /\ SameSeen(w, u) /\ Sound(w, u)
  BY <1>1, SetStateFields
<1> HIDE DEF u
<1>4. u.v = w.v /\ u.c = c /\ u.thrown = w.thrown
  BY <1>1, <1>3 DEF SameRest
<1>5. Settled(c, "RejectedText", data[c], w.v)
  BY <1>2 DEF Settled, Holding, Texts, Signing, Waiting
<1>6. Good(u, Others(c))
  BY <1>1, <1>3, <1>4, <1>5 DEF Good, Owned, SameSeen
<1>7. Naturals_(u.x, data[c]) /\ Buffered(u.x, data[c], Left(c)) /\ Answering(c, u.x, data[c])
  BY <1>1, <1>2, <1>3 DEF SameContext, SameLists, Naturals_, Buffered, Answering, Waiting
<1>8. SameLists(ctx[c], u.x) /\ u.x.files = ctx[c].files
  BY <1>1, <1>3 DEF SameContext
<1>9. u.s.text = seen.text /\ (~seen.assertion => ~u.s.assertion)
  BY <1>1, <1>3 DEF SameSeen, Sound
<1>10. Fit(u, Left(c))
  BY <1>1, <1>3, <1>4, <1>7 DEF Fit
<1>11. Verdicted(c, u)
  BY <1>1, <1>3, <1>4, <1>6, <1>8, <1>9, <1>10 DEF Verdicted
<1> QED BY <1>11 DEF u, RejectText

LEMMA EndedVerdicted ==
  ASSUME NEW c \in Sides, NEW w, NEW u, Ended(c, w, u),
         Faithful(opt) /\ VerifiesText(c) /\ ctx[c].st # "WaitingTextValidator"
           => w.v.res[data[c].vid] = "accept",
         ctx[c].st \in Texts
  PROVE  Verdicted(c, u)
BY DEF Ended, Verdicted, Texts

(* A verdict that a verified text takes for its own. *)
LEMMA TextVerdict ==
  ASSUME Owners, Living, Running, NEW c \in Sides, NEW n, Awaited(n), Unlisted(n),
         NEW ok \in BOOLEAN,
         valid.svc[n] \in {"open", "eof"} \cup (IF opt.late THEN {"abort"} ELSE {}),
         NEW w, Judged(c, w, n, ok),
         ctx[c].st \in {"TextAccumulate", "WaitingTextValidator"}
  PROVE  Verdicted(c, process_clip(w, n, ok))
<1>1. /\ IsWork(w) /\ w.c = c /\ w.x = ctx[c] /\ w.d = data[c] /\ ~w.thrown
      /\ w.s.text = seen.text /\ w.s.assertion = seen.assertion
      /\ w.s.keep = Noted(seen.keep, valid, n, ok)
      /\ Answers(valid, w.v, n, ok)
  BY DEF Judged
<1>2. /\ Settled(c, ctx[c].st, data[c], valid)
      /\ Held(data[c], valid, seen.keep, Others(c))
      /\ Held(data[c], w.v, seen.keep, Others(c))
      /\ Naturals_(ctx[c], data[c]) /\ Buffered(ctx[c], data[c], Left(c))
      /\ Answering(c, ctx[c], data[c]) /\ w.v.res[n] # "none"
      /\ n \in Ids /\ w.v.tfl = valid.tfl /\ w.v.svc = valid.svc
  BY JudgedHeld
<1>3. /\ data[c].vid # 0 /\ data[c].tfl = 0 /\ data[c].own = data[c].vid /\ VerifiesText(c)
      /\ ctx[c].st \in Texts
  BY <1>2 DEF Settled, Texts, Holding, Held, Linked
<1>4. Faithful(opt) => n = data[c].vid
  BY TextAwaits
<1>5. Held(data[c], w.v, w.s.keep, Others(c))
  <2>1. n = data[c].vid \/ opt.always \/ ~Keeping(opt)
    BY <1>4 DEF Keeping
  <2>2. Held(data[c], w.v, Noted(seen.keep, w.v, n, ok), Others(c))
    BY <1>2, <1>3, <2>1, NotedHeld
  <2> QED BY <1>1, <1>2, <2>2 DEF Noted
<1>6. Away(valid, w.v, Others(c))
  BY <1>1, <1>2, <1>4, JudgedAway DEF Awaited
<1>7. ASSUME ok PROVE Verdicted(c, ReleaseText(w))
  <2> DEFINE y == [w EXCEPT !.x.clen = 0]
             t == PassText(y)
             u == InitEmpty(t)
  <2>1. /\ IsWork(y) /\ y.c = c /\ y.d = w.d /\ y.v = w.v /\ y.s = w.s /\ ~y.thrown
        /\ SameLists(ctx[c], y.x) /\ y.x.st = ctx[c].st /\ y.x.owed = ctx[c].owed
        /\ y.x.cut = ctx[c].cut /\ y.x.files = ctx[c].files /\ y.x.clen = 0
        /\ y.x.cpos = ctx[c].cpos /\ y.x.resp = ctx[c].resp
    BY <1>1 DEF IsWork, IsContext, SameLists
  <2> HIDE DEF y
  <2>2. /\ IsWork(t) /\ t.c = c /\ t.d = w.d /\ t.v = w.v /\ ~t.thrown /\ t.x = y.x
        /\ t.s.keep = w.s.keep /\ t.s.assertion = w.s.assertion
        /\ t.s.text = (w.s.text \/ (VerifiesText(c) /\ w.v.res[w.d.own] # "accept"))
    BY <2>1 DEF PassText, IsWork, IsSeen
  <2> HIDE DEF t
  <2>3. Faithful(opt) => w.v.res[data[c].vid] = "accept"
    BY <1>1, <1>4, <1>7 DEF Answers
  <2>4. Naturals_(t.x, t.d)
    BY <1>1, <1>2, <2>1, <2>2 DEF Naturals_
  <2>5. Faithful(opt) /\ ~seen.text => ~t.s.text
    BY <1>1, <1>3, <2>2, <2>3
  <2>6. Held(t.d, t.v, t.s.keep, Others(c)) /\ Away(valid, t.v, Others(c))
    BY <1>1, <1>5, <1>6, <2>2
  <2>7. /\ t.d = data[c] /\ SameLists(ctx[c], t.x) /\ t.x.st = ctx[c].st
        /\ t.x.owed = ctx[c].owed /\ t.x.cut = ctx[c].cut /\ t.x.files = ctx[c].files
        /\ ~seen.assertion => ~t.s.assertion
        /\ Faithful(opt) => t.v.res[data[c].vid] # "none"
    BY <1>1, <2>1, <2>2, <2>3
  <2>8. Ended(c, t, u)
    BY <1>2, <1>3, <2>2, <2>4, <2>5, <2>6, <2>7, TextOver
  <2> HIDE DEF u
  <2>9. Verdicted(c, u)
    BY <1>3, <2>2, <2>3, <2>8, EndedVerdicted
  <2> QED BY <2>9 DEF u, t, y, ReleaseText
<1>8. ASSUME ~ok, ctx[c].st = "TextAccumulate" PROVE Verdicted(c, RejectText(w))
  BY <1>4, <1>5, <1>6, <1>8, RejectVerdicted
<1>9. ASSUME ~ok, ctx[c].st = "WaitingTextValidator" PROVE Verdicted(c, InitEmpty(w))
  <2>1. SameLists(ctx[c], w.x)
    BY <1>1 DEF SameLists
  <2>2. Faithful(opt) => w.v.res[data[c].vid] # "none"
    BY <1>2, <1>4
  <2>3. Ended(c, w, InitEmpty(w))
    BY <1>1, <1>2, <1>3, <1>5, <1>6, <2>1, <2>2, TextOver
  <2> QED BY <1>3, <1>9, <2>3, EndedVerdicted
<1>10. w.x.st = ctx[c].st
  BY <1>1
<1>11. CASE ctx[c].st = "TextAccumulate"
  <2>1. process_clip(w, n, ok) = IF ok THEN ReleaseText(w) ELSE RejectText(w)
    BY <1>10, <1>11 DEF process_clip
  <2> QED BY <1>7, <1>8, <1>11, <2>1
<1>12. CASE ctx[c].st = "WaitingTextValidator"
  <2>1. process_clip(w, n, ok) = IF ok THEN ReleaseText(w) ELSE InitEmpty(w)
    BY <1>10, <1>12 DEF process_clip
  <2> QED BY <1>7, <1>9, <1>12, <2>1
<1> QED BY <1>11, <1>12

LEMMA PlainTextVerdict ==
  ASSUME Owners, Living, Running, NEW c \in Sides, NEW n, Awaited(n), NEW ok \in BOOLEAN,
         NEW w, Judged(c, w, n, ok), ctx[c].st = "Text", data[c].vid = n
  PROVE  Verdicted(c, process_clip(w, n, ok))
<1>1. /\ IsWork(w) /\ w.c = c /\ w.x = ctx[c] /\ w.d = data[c] /\ ~w.thrown
      /\ w.s.text = seen.text /\ w.s.assertion = seen.assertion
      /\ w.s.keep = Noted(seen.keep, valid, n, ok)
      /\ Answers(valid, w.v, n, ok)
  BY DEF Judged
<1>2. /\ Settled(c, ctx[c].st, data[c], valid)
      /\ Held(data[c], valid, seen.keep, Others(c))
      /\ Held(data[c], w.v, seen.keep, Others(c))
      /\ Naturals_(ctx[c], data[c]) /\ w.v.res[n] # "none"
      /\ n \in Ids /\ w.v.tfl = valid.tfl /\ w.v.svc = valid.svc
  BY JudgedHeld
<1>3. data[c].tfl = 0 /\ ~VerifiesText(c) /\ ctx[c].st \in Texts
  BY <1>2 DEF Settled, Texts, Holding
<1>4. Held(data[c], w.v, w.s.keep, Others(c))
  <2>1. Held(data[c], w.v, Noted(seen.keep, w.v, n, ok), Others(c))
    BY <1>2, <1>3, NotedHeld
  <2> QED BY <1>1, <1>2, <2>1 DEF Noted
<1>5. Away(valid, w.v, Others(c))
  BY <1>1, <1>2, JudgedAway DEF Awaited
<1>6. SameLists(ctx[c], w.x)
  BY <1>1 DEF SameLists
<1>7. Ended(c, w, InitEmpty(w))
  BY <1>1, <1>2, <1>3, <1>4, <1>5, <1>6, TextOver
<1>8. Verdicted(c, InitEmpty(w))
  BY <1>3, <1>7, EndedVerdicted
<1>9. process_clip(w, n, ok) = InitEmpty(w)
  BY <1>1 DEF process_clip
<1> QED BY <1>8, <1>9

(* A verdict on the file at hand: its identifier is given back. *)
LEMMA DlpUpdates ==
  ASSUME Owners, Living, Running, NEW c \in Sides, NEW n, Awaited(n), NEW ok \in BOOLEAN,
         NEW w, Judged(c, w, n, ok), data[c].vid = n
  PROVE  LET u == dlp_update_file_rng(w, ok)
         IN  /\ Owned(u, Others(c)) /\ u.c = c /\ u.x = ctx[c] /\ u.v = w.v /\ ~u.thrown
             /\ u.s.text = seen.text /\ u.s.assertion = seen.assertion
             /\ u.d.own = data[c].own /\ u.d.tfl = data[c].tfl /\ u.d.vid = 0
             /\ u.d.verdict = (IF ok THEN "Success" ELSE "Failure")
             /\ u.d.off = data[c].off /\ u.d.req = data[c].req /\ u.d.size = data[c].size
             /\ u.d.first = data[c].first /\ u.d.sid = data[c].sid
             /\ u.d.file = data[c].file /\ u.d.sig = data[c].sig
             /\ Away(valid, u.v, Others(c))
<1> DEFINE u == dlp_update_file_rng(w, ok)
<1>1. /\ IsWork(w) /\ w.c = c /\ w.x = ctx[c] /\ w.d = data[c] /\ ~w.thrown
      /\ w.s.text = seen.text /\ w.s.assertion = seen.assertion
      /\ w.s.keep = Noted(seen.keep, valid, n, ok)
      /\ Answers(valid, w.v, n, ok)
  BY DEF Judged
<1>2. /\ Held(data[c], valid, seen.keep, Others(c))
      /\ Held(data[c], w.v, seen.keep, Others(c)) /\ w.v.res[n] # "none"
      /\ n \in Ids /\ w.v.tfl = valid.tfl
  BY JudgedHeld
<1>3. /\ IsWork(u) /\ u.c = c /\ u.x = ctx[c] /\ u.v = w.v /\ ~u.thrown /\ u.s = w.s
      /\ u.d.own = data[c].own /\ u.d.tfl = data[c].tfl /\ u.d.vid = 0
      /\ u.d.verdict = (IF ok THEN "Success" ELSE "Failure")
      /\ u.d.off = data[c].off /\ u.d.req = data[c].req /\ u.d.size = data[c].size
      /\ u.d.first = data[c].first /\ u.d.sid = data[c].sid
      /\ u.d.file = data[c].file /\ u.d.sig = data[c].sig
  BY <1>1 DEF dlp_update_file_rng, IsWork, IsRange
<1> HIDE DEF u
<1>4. \/ w.s.keep = seen.keep
      \/ /\ w.s.keep = seen.keep \cup {data[c].vid} /\ w.v.tfl[data[c].vid] = "open"
         /\ Keeping(opt) => opt.always \/ u.d.verdict = "Failure"
  BY <1>1, <1>2, <1>3 DEF Noted
<1>5. data[c].vid # 0
  BY <1>2 DEF Ids
<1>6. Held(u.d, w.v, w.s.keep, Others(c))
  BY <1>2, <1>3, <1>4, <1>5, VerdictHeld
<1>7. Away(valid, w.v, Others(c))
  BY <1>1, <1>2, JudgedAway DEF Awaited
<1>8. Owned(u, Others(c))
  BY <1>3, <1>6 DEF Owned
<1> QED BY <1>1, <1>3, <1>7, <1>8 DEF u

LEMMA GoingVerdict ==
  ASSUME Owners, Living, Running, NEW c \in Sides, NEW n, Awaited(n), NEW ok \in BOOLEAN,
         NEW w, Judged(c, w, n, ok), data[c].vid = n,
         ctx[c].st \in {"GetRange", "Range", "WaitingContinuationRange"}
  PROVE  Verdicted(c, process_clip(w, n, ok))
<1> DEFINE u == dlp_update_file_rng(w, ok)
<1>1. w.x = ctx[c] /\ w.d = data[c]
  BY DEF Judged
<1>2. /\ Settled(c, ctx[c].st, data[c], valid)
      /\ Naturals_(ctx[c], data[c]) /\ Buffered(ctx[c], data[c], Left(c))
      /\ Answering(c, ctx[c], data[c])
  BY JudgedHeld
<1>3. /\ Owned(u, Others(c)) /\ u.c = c /\ u.x = ctx[c] /\ u.v = w.v /\ ~u.thrown
      /\ u.s.text = seen.text /\ u.s.assertion = seen.assertion
      /\ u.d.own = data[c].own /\ u.d.tfl = data[c].tfl /\ u.d.vid = 0
      /\ u.d.verdict = (IF ok THEN "Success" ELSE "Failure")
      /\ u.d.off = data[c].off /\ u.d.req = data[c].req /\ u.d.size = data[c].size
      /\ u.d.first = data[c].first /\ u.d.sid = data[c].sid
      /\ u.d.file = data[c].file /\ u.d.sig = data[c].sig
      /\ Away(valid, u.v, Others(c))
  BY DlpUpdates
<1> HIDE DEF u
<1>4. Settled(c, ctx[c].st, u.d, u.v)
  <2>1. /\ ctx[c].st \in Holding /\ ctx[c].st \notin Texts \cup {"WaitingFileValidator"}
        /\ u.d.verdict \in {"Success", "Failure"}
    BY <1>3 DEF Holding, Texts
  <2> QED BY <1>2, <1>3, <2>1 DEF Settled, Texts
<1>5. Good(u, Others(c))
  BY <1>3, <1>4 DEF Good
<1>6. Naturals_(ctx[c], u.d) /\ Buffered(ctx[c], u.d, Left(c)) /\ Answering(c, ctx[c], u.d)
  BY <1>2, <1>3 DEF Naturals_, Buffered, Answering
<1>7. Fit(u, Left(c)) /\ SameLists(ctx[c], u.x)
  BY <1>3, <1>6 DEF Fit, SameLists
<1>8. Verdicted(c, u)
  BY <1>3, <1>5, <1>7 DEF Verdicted
<1>9. process_clip(w, n, ok) = u
  BY <1>1 DEF process_clip, u
<1> QED BY <1>8, <1>9

LEMMA WaitedVerdict ==
  ASSUME Owners, Living, Running, NEW c \in Sides, NEW n, Awaited(n), NEW ok \in BOOLEAN,
         NEW w, Judged(c, w, n, ok), data[c].vid = n, ctx[c].st = "WaitingFileValidator"
  PROVE  Verdicted(c, process_clip(w, n, ok))
<1> DEFINE g == dlp_update_file_rng(w, ok)
           f == close_file_rng_tfl(g)
           o == Others(c)
           z == ZeroData(f)
           a == SetState(filecontents_response_data(f), {"WaitingFileValidator"}, "SyncRange")
           b == InitEmpty(z)
<1>1. w.x = ctx[c] /\ w.d = data[c]
  BY DEF Judged
<1>2. /\ Settled(c, ctx[c].st, data[c], valid)
      /\ Naturals_(ctx[c], data[c]) /\ Buffered(ctx[c], data[c], Left(c))
      /\ Answering(c, ctx[c], data[c])
  BY JudgedHeld
<1>3. /\ Owned(g, o) /\ g.c = c /\ g.x = ctx[c] /\ g.v = w.v /\ ~g.thrown
      /\ g.s.text = seen.text /\ g.s.assertion = seen.assertion
      /\ g.d.vid = 0
      /\ g.d.off = data[c].off /\ g.d.req = data[c].req /\ g.d.size = data[c].size
      /\ g.d.first = data[c].first /\ g.d.sig = data[c].sig
      /\ Away(valid, g.v, o)
  BY DlpUpdates
<1> HIDE DEF g
<1>4. Verifies(c) /\ data[c].sig = "Final"
  BY <1>2 DEF Settled, Waiting
<1>5. /\ Moves(g, f, o) /\ f.d.tfl = 0 /\ f.d.vid = g.d.vid
      /\ f.d.sig = g.d.sig /\ Sound(g, f)
  BY <1>3, <1>4, CloseTflMoves
<1> HIDE DEF f, o
<1>6. /\ Owned(f, o) /\ f.c = c /\ f.x = ctx[c] /\ ~f.thrown /\ SameSeen(g, f)
      /\ Elsewhere(g.v, f.v, o) /\ f.d.off = data[c].off /\ f.d.req = data[c].req
      /\ f.d.size = data[c].size /\ f.d.first = data[c].first
  BY <1>3, <1>5 DEF Moves, SameFile
<1>7. Away(valid, f.v, o)
  BY <1>3, <1>6, AwayElsewhere
<1>8. Naturals_(f.x, f.d)
  BY <1>2, <1>6 DEF Naturals_
<1>9. f.s.text = seen.text /\ (~seen.assertion => ~f.s.assertion)
  BY <1>3, <1>5, <1>6 DEF SameSeen, Sound
<1>10. Verdicted(c, a)
  <2>1. /\ f.x.cpos = 0 /\ f.d.off = f.x.clen /\ f.x.resp <= f.x.clen
    BY <1>2, <1>6 DEF Buffered, Waiting
  <2>2. f.x.st = "WaitingFileValidator" /\ "WaitingFileValidator" \in Waiting /\ f.d.vid = 0
        /\ f.c \in Sides /\ Verifies(f.c) /\ (f.d.sig = "Update" => ~Complete(f.d))
    BY <1>3, <1>4, <1>5, <1>6 DEF Waiting
  <2>3. Good(a, o) /\ Beside(f, a, o) /\ Sound(f, a) /\ a.s.text = f.s.text
        /\ Fit(a, Left(c))
    BY <1>6, <1>8, <2>1, <2>2, AcceptedFit
  <2>4. a.x.files = f.x.files /\ a.thrown = f.thrown
    <3>1. IsWork(f)
      BY <1>6 DEF Owned
    <3> DEFINE k == filecontents_response_data(f)
    <3>2. IsWork(k) /\ k.x.files = f.x.files /\ k.thrown = f.thrown
      <4> DEFINE q == PassFile(Asserted(f, f.x.cpos = 0 /\ f.x.resp <= f.x.clen))
                 r == [q EXCEPT !.x.cpos = f.x.resp, !.x.owed = FALSE, !.x.cut = FALSE]
      <4>1. IsWork(q) /\ q.x = f.x /\ q.thrown = f.thrown
        BY <3>1 DEF PassFile, Asserted, IsWork, IsSeen
      <4> HIDE DEF q
      <4>2. IsWork(r) /\ r.x.files = f.x.files /\ r.thrown = f.thrown
        BY ZenonT(60), <4>1 DEF IsWork, IsContext
      <4>3. k = r
        BY DEF filecontents_response_data, q
      <4> HIDE DEF k, r
      <4> QED BY <4>2, <4>3
    <3> HIDE DEF k
    <3>3. SameContext(k.x, a.x) /\ SameRest(k, a)
      BY <3>2, SetStateFields DEF k
    <3> QED BY <3>2, <3>3 DEF SameContext, SameRest
  <2> HIDE DEF a
  <2>5. a.c = c /\ SameLists(ctx[c], a.x) /\ Elsewhere(f.v, a.v, o)
    BY <1>6, <2>3 DEF Beside
  <2>6. Away(valid, a.v, o)
    BY <1>7, <2>5, AwayElsewhere
  <2>7. a.s.text = seen.text /\ (~seen.assertion => ~a.s.assertion)
    BY <1>9, <2>3 DEF Sound
  <2> QED BY <1>6, <2>3, <2>4, <2>5, <2>6, <2>7 DEF Verdicted, o
<1>11. Verdicted(c, b)
  <2>1. /\ Owned(z, o) /\ z.c = f.c /\ z.d = f.d /\ z.v = f.v
        /\ z.s = f.s /\ z.thrown = f.thrown
        /\ z.x = [f.x EXCEPT !.owed = FALSE, !.cut = FALSE]
        /\ z.x.owed = FALSE /\ z.x.cut = FALSE /\ z.x.st = f.x.st
    BY <1>6, ZeroOwned
  <2> HIDE DEF z
  <2>2. Restarts(z, b, o) /\ SameOwed(z, b) /\ Sound(z, b)
    BY <1>3, <1>5, <2>1, InitEmptyRestarts
  <2> HIDE DEF b
  <2>3. Restarts(f, b, o) /\ b.x.owed = FALSE /\ b.x.cut = FALSE
    BY <1>6, <2>2, ZeroRestarts DEF z
  <2>4. IsWork(f) /\ f.c \in Sides
    BY <1>6 DEF Owned
  <2>5. Serves(f, b, o) /\ b.x.st = "Empty" /\ b.x.files = f.x.files
    BY <2>3, <2>4, RestartsServes
  <2>6. Fit(b, Left(c))
    BY <1>8, <2>3, <2>4, RestartsFit
  <2>7. Good(b, o) /\ b.c = c /\ SameLists(ctx[c], b.x) /\ Elsewhere(f.v, b.v, o)
    BY <1>6, <2>5 DEF Serves, Beside
  <2>8. Away(valid, b.v, o)
    BY <1>7, <2>7, AwayElsewhere
  <2>9. b.s.text = seen.text /\ (~seen.assertion => ~b.s.assertion) /\ b.thrown = f.thrown
    BY <1>9, <2>1, <2>2, <2>3 DEF Restarts, SameSeen, Sound
  <2> QED BY <1>6, <2>5, <2>6, <2>7, <2>8, <2>9 DEF Verdicted, o
<1>12. process_clip(w, n, ok) = IF ok THEN a ELSE b
  BY <1>1 DEF process_clip, f, g
<1> HIDE DEF a, b
<1> QED BY <1>10, <1>11, <1>12

(* A verdict on a transfer of locked_data. *)
JudgeRanges(w, n) ==
    [w EXCEPT !.x.ranges = {IF q.d.vid = n THEN [q EXCEPT !.d.vid = 0] ELSE q : q \in @}]

LEMMA LockedVerdict ==
  ASSUME Owners, Living, Running, NEW c \in Sides, NEW n, Awaited(n), NEW ok \in BOOLEAN,
         NEW w, Judged(c, w, n, ok), NEW r, r \in ctx[c].ranges, r.d.vid = n,
         NEW u, u = JudgeRanges(w, n),
         Apply(u), UNCHANGED <<can_lock, msg>>
  PROVE  Owners'
<1> DEFINE s == [r EXCEPT !.d.vid = 0]
           S == (ctx[c].ranges \ {r}) \cup ctx[Peer(c)].ranges
           o == Plus(Plus(OfRanges(S), data[Peer(c)]), data[c])
           rs == {IF q.d.vid = n THEN [q EXCEPT !.d.vid = 0] ELSE q : q \in ctx[c].ranges}
<1>1. /\ IsWork(w) /\ w.c = c /\ w.x = ctx[c] /\ w.d = data[c] /\ ~w.thrown
      /\ w.s.text = seen.text /\ w.s.assertion = seen.assertion
      /\ w.s.keep = Noted(seen.keep, valid, n, ok)
      /\ Answers(valid, w.v, n, ok)
  BY DEF Judged
<1>2. /\ Naturals_(ctx[c], data[c]) /\ Buffered(ctx[c], data[c], Left(c))
      /\ Answering(c, ctx[c], data[c]) /\ w.v.res[n] # "none" /\ LockList(ctx[c])
      /\ n \in Ids /\ w.v.tfl = valid.tfl /\ w.v.svc = valid.svc
  BY JudgedHeld
<1>3. OwnInv /\ phase # "closed"
  BY DEF Owners, Running
<1>4. /\ Held(r.d, valid, seen.keep, o) /\ IsLocked(r) /\ r.d.own # 0
      /\ r.d.verdict = "Wait" /\ r.d.sig = "Update"
  BY <1>3, RangeHeld
<1>5. c \in opt.active /\ ~Unlocked(opt)
  BY <1>3 DEF OwnInv
<1>6. \A q \in ctx[c].ranges : q.d.vid = n => q = r
  <2>1. \A q \in ctx[c].ranges : Linked(q.d) /\ (r.d.own = q.d.own => r = q)
    BY <1>3, NumbersDiffer
  <2>2. n # 0
    BY <1>2 DEF Ids
  <2> QED BY <2>1, <2>2 DEF Linked
<1>7. /\ IsLocked(s) /\ s.d.own = r.d.own /\ s.d.tfl = r.d.tfl /\ s.d.vid = 0
      /\ s.d.verdict = "Wait" /\ s.d.sig = "Update"
  BY <1>4 DEF IsLocked, IsRange
<1>8. rs = (ctx[c].ranges \ {r}) \cup {s}
  BY <1>6
<1>81. /\ S = (ctx[c].ranges \ {r}) \cup ctx[Peer(c)].ranges
       /\ o = Plus(Plus(OfRanges(S), data[Peer(c)]), data[c])
  OBVIOUS
<1> HIDE DEF s, S, o, rs
<1>9. IsContext([ctx[c] EXCEPT !.ranges = rs])
  <2>1. IsContext(ctx[c]) /\ \A q \in rs : IsLocked(q)
    BY <1>7, <1>8 DEF Living, IsContext
  <2> QED BY <2>1 DEF IsContext
<1>10. /\ IsWork(u) /\ u.c = c /\ u.d = data[c] /\ u.v = w.v /\ u.s = w.s /\ ~u.thrown
       /\ u.x = [ctx[c] EXCEPT !.ranges = rs]
  <2> DEFINE x == [ctx[c] EXCEPT !.ranges = rs]
  <2>1. u = [w EXCEPT !.x = x]
    BY <1>1 DEF rs, IsWork, JudgeRanges
  <2>2. IsContext(x)
    BY <1>9
  <2> HIDE DEF x
  <2>3. /\ IsWork(u) /\ u.c = c /\ u.d = data[c] /\ u.v = w.v /\ u.s = w.s /\ ~u.thrown
        /\ u.x = x
    BY <1>1, <2>1, <2>2 DEF IsWork
  <2> QED BY <2>3 DEF x
<1>11. /\ u.x.ranges = rs /\ SameCourse(ctx[c], u.x) /\ u.x.locks = ctx[c].locks
       /\ u.x.sizes = ctx[c].sizes /\ u.x.slot = ctx[c].slot /\ u.x.lock = ctx[c].lock
       /\ u.x.lid = ctx[c].lid
  <2>1. IsContext(ctx[c])
    BY DEF Living
  <2> QED BY <1>10, <2>1 DEF SameCourse, IsContext
<1>12. Held(r.d, w.v, seen.keep, o)
  <2> DEFINE d == r.d
             k == seen.keep
             v == w.v
  <2>1. valid.svc[n] # "free" /\ n \in Ids
    BY DEF Awaited
  <2>2. Held(d, valid, k, o) /\ Answers(valid, v, n, ok)
    BY <1>1, <1>4
  <2> HIDE DEF d, k, v
  <2>3. ok \in BOOLEAN
    OBVIOUS
  <2>4. Held(d, v, k, o)
    BY ONLY <2>1, <2>2, <2>3, AnswerHeld
  <2> QED BY <2>4 DEF d, k, v
<1>13. \/ w.s.keep = seen.keep
       \/ /\ w.s.keep = seen.keep \cup {r.d.vid} /\ w.v.tfl[r.d.vid] = "open"
          /\ Keeping(opt) => opt.always \/ s.d.verdict = "Failure"
  BY <1>1, <1>2 DEF Noted, RangeWaits
<1>14. Held(s.d, w.v, w.s.keep, o)
  <2>1. r.d.vid # 0 /\ w.v.res[r.d.vid] # "none"
    BY <1>2 DEF Ids
  <2> QED BY <1>7, <1>12, <1>13, <2>1, VerdictHeld
<1>15. Away(valid, u.v, o)
  BY <1>1, <1>2, <1>4, <1>10, JudgedAway DEF Awaited
<1>16. Leftover(r, s.d, {s}, u.v)
  BY <1>7 DEF Leftover
<1>17. Leaves(c, u)
  <2>1. u.x.st = ctx[c].st /\ u.x.files = ctx[c].files
    BY <1>11 DEF SameCourse
  <2>2. u.x.ranges = (ctx[c].ranges \ {r}) \cup {s}
    BY <1>8, <1>11
  <2>3. Held(s.d, u.v, u.s.keep, o) /\ s.d.own # 0
    BY <1>4, <1>7, <1>10, <1>14
  <2> DEFINE left == {s}
             e == s.d
  <2>4. Leftover(r, e, left, u.v) /\ u.x.ranges = (ctx[c].ranges \ {r}) \cup left
        /\ Held(e, u.v, u.s.keep, o) /\ e.own # 0
    BY <1>16, <2>2, <2>3
  <2> HIDE DEF left, e
  <2>5. IsWork(u) /\ u.c = c /\ u.d = data[c] /\ c \in Sides
    BY <1>10
  <2> QED BY ONLY <1>3, <1>5, <1>81, <1>15, <2>1, <2>4, <2>5, AwayChunkLeaves
<1>18. Fit(u, Left(c))
  <2>1. Naturals_(u.x, data[c]) /\ Buffered(u.x, data[c], Left(c)) /\ Answering(c, u.x, data[c])
    BY <1>2, <1>11, TransferFit
  <2> QED BY <1>10, <2>1 DEF Fit
<1>19. LockList(u.x)
  BY <1>2, <1>11 DEF LockList
<1>20. Handles(c, u, Left(c))
  BY <1>1, <1>10, <1>17, <1>18, <1>19 DEF Handles
<1>21. Between(c)' /\ Left(c)' = Left(c)
  <2>1. /\ u.x.st = ctx[c].st /\ u.x.fmt = ctx[c].fmt /\ u.x.flist = ctx[c].flist
        /\ u.d.own = data[c].own
    BY <1>10, <1>11 DEF SameCourse
  <2>2. \A m \in Ids : valid.res[m] = "accept" => u.v.res[m] = "accept"
    BY <1>15 DEF Away
  <2>3. msg' = msg
    OBVIOUS
  <2> QED BY <1>10, <2>1, <2>2, <2>3, TransferBetween
<1> QED BY <1>10, <1>11, <1>20, <1>21, VerdictOwners

(* DLP_antivirus_check_channels_files. *)
LEMMA VerdictArrives ==
  ASSUME Owners, ClipInv, NEW n \in Ids, NEW ok \in BOOLEAN,
         DLP_antivirus_check_channels_files(n, ok)
  PROVE  Owners'
<1> DEFINE v == Answer(valid, n, ok)
           with == {c \in Sides : Concerns(c, n)}
<1>1. /\ Running /\ valid.res[n] = "none" /\ UNCHANGED <<can_lock, msg>>
      /\ valid.svc[n] \in {"open", "eof"} \cup (IF opt.late THEN {"abort"} ELSE {})
  BY DEF DLP_antivirus_check_channels_files
<1>2. Living
  BY <1>1 DEF ClipInv, Running
<1>3. Awaited(n)
  BY <1>1 DEF Awaited
<1>4. ASSUME n \in v.texts \/ \E e \in v.files : e.id = n
      PROVE  Owners'
  <2>1. /\ valid' = IF n \in v.texts THEN [v EXCEPT !.texts = @ \ {n}]
                    ELSE process_listed(v, n, ok)
        /\ seen' = Rejected(seen, n, ok)
        /\ UNCHANGED <<opt, ctx, data, phase>>
    BY <1>4 DEF DLP_antivirus_check_channels_files
  <2>2. PICK y : y = v
    OBVIOUS
  <2>3. /\ y = Answer(valid, n, ok) /\ (n \in y.texts \/ \E e \in y.files : e.id = n)
        /\ valid' = IF n \in y.texts THEN [y EXCEPT !.texts = @ \ {n}]
                    ELSE process_listed(y, n, ok)
    BY <1>4, <2>1, <2>2
  <2> QED BY <1>1, <1>2, <1>3, <2>1, <2>3, ListedOwners
<1>5. ASSUME ~(n \in v.texts \/ \E e \in v.files : e.id = n), with = {}
      PROVE  Owners'
  <2>1. valid' = v /\ UNCHANGED <<opt, ctx, data, phase, seen>>
    BY <1>5 DEF DLP_antivirus_check_channels_files
  <2>2. \A c \in Sides : ~Concerns(c, n)
    BY <1>5
  <2> QED BY <1>1, <1>2, <1>3, <2>1, <2>2, UnknownOwners
<1>6. ASSUME ~(n \in v.texts \/ \E e \in v.files : e.id = n), with # {}
      PROVE  Owners'
  <2> DEFINE c == IF "client" \in with THEN "client" ELSE "server"
             w == [Work(c) EXCEPT !.v = v, !.s = Rejected(seen, n, ok)]
  <2>1. Apply(process_clip(w, n, ok))
    BY <1>6 DEF DLP_antivirus_check_channels_files
  <2>2. c \in Sides /\ Concerns(c, n)
    BY <1>6 DEF Sides
  <2> HIDE DEF c
  <2>3. Judged(c, w, n, ok)
    BY <1>2, <2>2, JudgedWork
  <2>4. Unlisted(n)
    BY <1>2, <1>6 DEF Unlisted, Answer, Living, IsService
  <2> HIDE DEF w
  <2>5. w.x = ctx[c] /\ w.d = data[c]
    BY <2>3 DEF Judged
  <2>6. ASSUME Verdicted(c, process_clip(w, n, ok)) PROVE Owners'
    BY <1>1, <1>2, <2>1, <2>2, <2>6, VerdictedOwners
  <2>7. CASE ctx[c].st \in {"TextAccumulate", "WaitingTextValidator"}
    BY <1>1, <1>2, <1>3, <2>2, <2>3, <2>4, <2>6, <2>7, TextVerdict
  <2>8. CASE ctx[c].st = "Text" /\ data[c].vid = n
    BY <1>1, <1>2, <1>3, <2>2, <2>3, <2>6, <2>8, PlainTextVerdict
  <2>9. CASE /\ ctx[c].st \in {"GetRange", "Range", "WaitingContinuationRange"}
             /\ data[c].vid = n
    BY <1>1, <1>2, <1>3, <2>2, <2>3, <2>6, <2>9, GoingVerdict
  <2>10. CASE ctx[c].st = "WaitingFileValidator" /\ data[c].vid = n
    BY <1>1, <1>2, <1>3, <2>2, <2>3, <2>6, <2>10, WaitedVerdict
  <2>11. CASE /\ ctx[c].st \notin {"TextAccumulate", "WaitingTextValidator"}
              /\ ~(ctx[c].st \in {"Text", "GetRange", "Range", "WaitingContinuationRange",
                                  "WaitingFileValidator"} /\ data[c].vid = n)
    <3>1. PICK r \in ctx[c].ranges : r.d.vid = n
      BY <2>2, <2>11 DEF Concerns
    <3>2. process_clip(w, n, ok) = JudgeRanges(w, n)
      BY <2>5, <2>11 DEF process_clip, JudgeRanges
    <3>3. Apply(JudgeRanges(w, n))
      BY <2>1, <3>2
    <3> QED BY <1>1, <1>2, <1>3, <2>2, <2>3, <3>1, <3>3, LockedVerdict
  <2> QED BY <2>7, <2>8, <2>9, <2>10, <2>11
<1> QED BY <1>4, <1>5, <1>6

----------------------------------------------------------------------------
(* The destructor stores the recordings of a context's transfers. *)
Stores(w, u) ==
    /\ IsWork(u) /\ u.v.tfl = [n \in Ids |-> u.v.tfl[n]]
    /\ \A n \in Ids : u.v.tfl[n] =
         IF n = w.d.tfl \/ \E r \in w.x.ranges : r.d.tfl = n THEN "stored"
         ELSE w.v.tfl[n]

LEMMA InitEmptyLeaves ==
  ASSUME NEW w, IsWork(w)
  PROVE  IsWork(InitEmpty(w)) /\ InitEmpty(w).v = w.v
<1> DEFINE a == Asserted(w, w.d.tfl = 0)
           x == [a.x EXCEPT !.st = "Empty", !.clen = 0, !.cpos = 0, !.resp = 0]
           d == [NoRange EXCEPT !.tfl = w.d.tfl,
                   !.own = IF VerifiesText(w.c) THEN w.d.own ELSE 0,
                   !.size = IF w.x.owed THEN w.d.size ELSE 0]
<1>1. IsWork(a) /\ a.v = w.v
  BY AssertedKeeps DEF Keeps, Spares
<1>2. InitEmpty(w) = [a EXCEPT !.x = x, !.d = d]
  BY DEF InitEmpty
<1>3. Spares(w, InitEmpty(w))
  BY InitEmptyEffect
<1> HIDE DEF a, x, d
<1> QED BY <1>1, <1>2, <1>3 DEF Spares, IsWork

LEMMA CloseRngStores ==
  ASSUME NEW w, IsWork(w), w.v.tfl = [n \in Ids |-> w.v.tfl[n]], w.d.tfl \in {0} \cup Ids
  PROVE  /\ IsWork(close_rng(w))
         /\ close_rng(w).v.tfl = [n \in Ids |-> close_rng(w).v.tfl[n]]
         /\ \A n \in Ids : close_rng(w).v.tfl[n] =
              IF n = w.d.tfl THEN "stored" ELSE w.v.tfl[n]
<1>1. CASE w.d.tfl = 0
  <2>1. close_rng(w) = w
    BY <1>1 DEF close_rng
  <2>2. 0 \notin Ids
    BY SizesAssumption DEF Ids
  <2> QED BY <1>1, <2>1, <2>2
<1>2. CASE w.d.tfl # 0
  <2> DEFINE b == SigBroken(w)
             v == [b.v EXCEPT !.tfl[w.d.tfl] = "stored"]
  <2>1. close_rng(w) = [b EXCEPT !.v = v]
    BY <1>2 DEF close_rng
  <2>2. IsWork(b) /\ b.v = w.v
    <3>1. IsWork(b)
      BY SigEffect DEF Keeps, Spares
    <3>2. Asserted(w, w.d.sig = "Update").v = w.v
      BY AssertedKeeps
    <3> QED BY <3>1, <3>2 DEF SigBroken
  <2> HIDE DEF b
  <2>3. IsService(v) /\ v.tfl = [w.v.tfl EXCEPT ![w.d.tfl] = "stored"]
    BY <2>2 DEF IsWork, IsService
  <2> HIDE DEF v
  <2>4. IsWork(close_rng(w)) /\ close_rng(w).v.tfl = [w.v.tfl EXCEPT ![w.d.tfl] = "stored"]
    BY <2>1, <2>2, <2>3 DEF IsWork
  <2> HIDE DEF close_rng
  <2>5. \A n \in Ids : close_rng(w).v.tfl[n] =
          IF n = w.d.tfl THEN "stored" ELSE w.v.tfl[n]
    BY <2>4
  <2>6. close_rng(w).v.tfl = [n \in Ids |-> close_rng(w).v.tfl[n]]
    BY <2>4
  <2> QED BY <2>4, <2>5, <2>6
<1> QED BY <1>1, <1>2

LEMMA CloseClipStores ==
  ASSUME NEW w, IsWork(w), w.v.tfl = [n \in Ids |-> w.v.tfl[n]], w.d.tfl \in {0} \cup Ids,
         w.d.tfl # 0 => w.x.st \in Holding
  PROVE  Stores(w, close_clip(w))
<1> DEFINE d == CASE w.x.st = "Empty" -> w
                  [] w.x.st \in {"GetRange", "WaitingFileValidator",
                        "RequestedSyncRange", "SyncRange", "Range",
                        "WaitingContinuationRange"} -> InitEmpty(close_rng(w))
                  [] OTHER -> InitEmpty(w)
           v == [d.v EXCEPT !.tfl = [n \in Ids |->
                   IF \E r \in w.x.ranges : r.d.tfl = n THEN "stored" ELSE @[n]]]
<1>1. close_clip(w) = [d EXCEPT !.v = v]
  BY DEF close_clip
<1>2. /\ IsWork(d)
      /\ \A n \in Ids : d.v.tfl[n] = IF n = w.d.tfl THEN "stored" ELSE w.v.tfl[n]
  <2>1. 0 \notin Ids
    BY SizesAssumption DEF Ids
  <2>2. CASE w.x.st = "Empty"
    <3>1. d = w /\ w.d.tfl = 0
      BY <2>2 DEF Holding
    <3> QED BY <2>1, <3>1
  <2>3. CASE w.x.st \in Holding
    <3>1. d = InitEmpty(close_rng(w))
      BY <2>3 DEF Holding
    <3>2. /\ IsWork(close_rng(w))
          /\ \A n \in Ids : close_rng(w).v.tfl[n] =
               IF n = w.d.tfl THEN "stored" ELSE w.v.tfl[n]
      BY CloseRngStores
    <3>3. IsWork(d) /\ d.v = close_rng(w).v
      BY <3>1, <3>2, InitEmptyLeaves
    <3> QED BY <3>2, <3>3
  <2>4. CASE w.x.st # "Empty" /\ w.x.st \notin Holding
    <3>1. d = InitEmpty(w) /\ w.d.tfl = 0
      BY <2>4 DEF Holding
    <3>2. IsWork(d) /\ d.v = w.v
      BY <3>1, InitEmptyLeaves
    <3> QED BY <2>1, <3>1, <3>2
  <2> QED BY <2>2, <2>3, <2>4
<1> HIDE DEF d
<1>3. IsService(v)
      /\ v.tfl = [n \in Ids |-> IF \E r \in w.x.ranges : r.d.tfl = n THEN "stored"
                                ELSE d.v.tfl[n]]
  BY <1>2 DEF IsWork, IsService
<1> HIDE DEF v
<1>4. IsWork(close_clip(w)) /\ close_clip(w).v = v
  BY <1>1, <1>2, <1>3 DEF IsWork
<1>5. \A n \in Ids : v.tfl[n] = IF \E r \in w.x.ranges : r.d.tfl = n THEN "stored"
                                ELSE d.v.tfl[n]
  BY <1>3
<1>6. v.tfl = [n \in Ids |-> v.tfl[n]]
  BY <1>3
<1> QED BY <1>2, <1>4, <1>5, <1>6 DEF Stores

(* Once the channel is destroyed, no recording is open. *)
Closed == phase = "closed" =>
    /\ \A n \in Ids : valid.tfl[n] # "open"
    /\ Keeping(opt) => \A n \in seen.keep : n \in Ids /\ valid.tfl[n] = "stored"

LEMMA ContextStores ==
  ASSUME OwnInv, Living, phase # "closed", NEW c \in Sides,
         NEW w, IsWork(w), w.v.tfl = [n \in Ids |-> w.v.tfl[n]],
         w.x = ctx[c], w.d = data[c]
  PROVE  Stores(w, close_clip(w))
<1>1. Held(data[c], valid, seen.keep, Others(c)) /\ Settled(c, ctx[c].st, data[c], valid)
  BY DEF OwnInv
<1>2. w.d.tfl \in {0} \cup Ids /\ (w.d.tfl # 0 => w.x.st \in Holding)
  BY <1>1 DEF Held, Linked, Settled
<1> QED BY <1>2, CloseClipStores

(* Destructor. *)
LEMMA DestructorCloses ==
  ASSUME Owners, ClipInv, Destructor
  PROVE  Owners' /\ Closed'
<1> DEFINE k == CloseListed(valid)
           w == [Work("client") EXCEPT !.v = k]
           c == close_clip(w)
           z == [Work("server") EXCEPT !.v = c.v, !.s = c.s]
           s == close_clip(z)
<1>1. Living /\ phase # "closed" /\ OwnInv
  BY DEF Destructor, ClipInv, Owners
<1>2. /\ valid' = s.v /\ phase' = "closed" /\ opt' = opt /\ seen' = seen
      /\ msg' = [i \in Sides |-> NoMsg]
  BY DEF Destructor
<1>3. "client" \in Sides /\ "server" \in Sides
  BY DEF Sides
<1>4. /\ IsService(k) /\ IsSeen(seen) /\ k.tfl = [n \in Ids |-> k.tfl[n]]
      /\ \A n \in Ids : k.tfl[n] = IF \E e \in valid.files : e.tfl = n THEN "stored"
                                   ELSE valid.tfl[n]
  <2>1. IsService(k) /\ IsSeen(seen)
        /\ k.tfl = [n \in Ids |-> IF \E e \in valid.files : e.tfl = n THEN "stored"
                                  ELSE valid.tfl[n]]
    BY <1>1 DEF Living, IsService, CloseListed
  <2> HIDE DEF k
  <2> QED BY <2>1
<1> HIDE DEF k
<1>5. Stores(w, c) /\ w.v = k /\ w.x = ctx["client"] /\ w.d = data["client"]
  <2>1. /\ IsWork(Work("client")) /\ Work("client").x = ctx["client"]
        /\ Work("client").d = data["client"]
    BY <1>1, <1>3, WorkIsWork
  <2>2. /\ IsWork(w) /\ w.v = k /\ w.x = ctx["client"] /\ w.d = data["client"]
    BY <1>4, <2>1 DEF IsWork
  <2> HIDE DEF w
  <2>3. Stores(w, close_clip(w))
    BY <1>1, <1>3, <1>4, <2>2, ContextStores
  <2> QED BY <2>2, <2>3
<1> HIDE DEF w
<1>6. IsWork(c) /\ IsService(c.v) /\ IsSeen(c.s) /\ c.v.tfl = [n \in Ids |-> c.v.tfl[n]]
  BY <1>5 DEF Stores, IsWork
<1> HIDE DEF c
<1>7. Stores(z, s) /\ z.v = c.v /\ z.x = ctx["server"] /\ z.d = data["server"]
  <2>1. /\ IsWork(Work("server")) /\ Work("server").x = ctx["server"]
        /\ Work("server").d = data["server"]
    BY <1>1, <1>3, WorkIsWork
  <2>2. /\ IsWork(z) /\ z.v = c.v /\ z.x = ctx["server"] /\ z.d = data["server"]
    BY <1>6, <2>1 DEF IsWork
  <2> HIDE DEF z
  <2>3. Stores(z, close_clip(z))
    BY <1>1, <1>3, <1>6, <2>2, ContextStores
  <2> QED BY <2>2, <2>3
<1> HIDE DEF z, s
<1> DEFINE Holds(n) == \/ n = data["client"].tfl \/ n = data["server"].tfl
                       \/ \E r \in AllRanges : r.d.tfl = n
                       \/ \E e \in valid.files : e.tfl = n
<1>8. \A n \in Ids : valid'.tfl[n] = IF Holds(n) THEN "stored" ELSE valid.tfl[n]
  BY <1>2, <1>4, <1>5, <1>7 DEF Stores, AllRanges
<1>9. Held(data["client"], valid, seen.keep, Others("client"))
  BY <1>1, <1>3 DEF OwnInv
<1>10. \A n \in Ids : valid.tfl[n] = "open" => Holds(n)
  BY <1>9 DEF Held, Recorded, Others, Plus, OfRanges, Peer
<1> HIDE DEF Holds
<1>11. \A n \in Ids : valid'.tfl[n] # "open"
  BY <1>8, <1>10
<1>12. Keeping(opt) => \A n \in seen.keep : n \in Ids /\ valid'.tfl[n] = "stored"
  BY <1>8, <1>9, <1>10 DEF Held, Kept
<1>13. Closed'
  BY <1>2, <1>11, <1>12 DEF Closed, Keeping, Unlocked, Faithful
<1>14. CalmAsserts' /\ FaithfulText'
  BY <1>2 DEF Owners, CalmAsserts, FaithfulText, Calm, Unlocked, Faithful
<1>15. Spoken'
  BY <1>2 DEF Spoken
<1> QED BY <1>2, <1>13, <1>14, <1>15 DEF Owners, OwnInv, RunInv

----------------------------------------------------------------------------
(* The state as built, and the other steps. *)
LEMMA InitOwners == Init => Owners /\ Closed
<1> SUFFICES ASSUME Init PROVE Owners /\ Closed
  OBVIOUS
<1>1. /\ opt \in Options /\ can_lock = opt.locking /\ phase = "run"
      /\ valid.svc = [n \in Ids |-> "free"] /\ valid.res = [n \in Ids |-> "none"]
      /\ valid.tfl = [n \in Ids |-> "free"] /\ valid.files = {} /\ valid.texts = {}
      /\ seen.assertion = FALSE /\ seen.text = FALSE /\ seen.keep = {}
  BY DEF Init
<1>2. ASSUME NEW c \in Sides
      PROVE  /\ ctx[c].st = "Empty" /\ ctx[c].clen = 0 /\ ctx[c].cpos = 0
             /\ ctx[c].resp = 0 /\ ctx[c].owed = FALSE /\ ctx[c].files = << >>
             /\ ctx[c].lock = (IF opt.locking THEN "Enabled" ELSE "Disabled")
             /\ ctx[c].slot = NoSlot /\ ctx[c].locks = << >> /\ ctx[c].sizes = {}
             /\ ctx[c].ranges = {} /\ ctx[c].asked = {} /\ ctx[c].fmt = "none"
             /\ data[c] = NoRange /\ msg[c] = NoMsg
  <2>1. ctx[c] = [NoContext EXCEPT
                    !.lock = IF opt.locking THEN "Enabled" ELSE "Disabled"]
    BY DEF Init
  <2>2. data[c] = NoRange /\ msg[c] = NoMsg
    BY DEF Init
  <2> QED BY <2>1, <2>2 DEF NoContext
<1>3. /\ NoRange.own = 0 /\ NoRange.tfl = 0 /\ NoRange.vid = 0
      /\ NoRange.verdict = "Wait" /\ NoRange.off = 0 /\ NoRange.req = 0
      /\ NoRange.size = 0 /\ NoRange.first = 0 /\ NoMsg.kind = "none"
      /\ NoSlot.len = 0 /\ NoSlot.size = 0
  BY DEF NoRange, NoMsg, NoSlot
<1>4. AllRanges = {} /\ Distinct
  BY <1>2 DEF AllRanges, Distinct, Sides
<1>5. ASSUME NEW c \in Sides
      PROVE  /\ Others(c).own = {} /\ Others(c).tfl = {} /\ Others(c).vid = {}
             /\ Others(c).keep = {}
  <2>1. Peer(c) \in Sides
    BY DEF Peer, Sides
  <2>2. data[Peer(c)] = NoRange
    BY <1>2, <2>1
  <2> QED BY <1>3, <1>4, <2>2 DEF Others, Plus, OfRanges
<1>6. 0 \notin Ids
  BY SizesAssumption DEF Ids
<1>7. ASSUME NEW c \in Sides
      PROVE  Held(data[c], valid, seen.keep, Others(c))
  <2>1. data[c] = NoRange
    BY <1>2
  <2>2. Services(valid)
    BY <1>1 DEF Services
  <2>3. Listing(NoRange, valid, Others(c)) /\ Kept(NoRange, valid, seen.keep, Others(c))
    BY <1>1 DEF Listing, Kept
  <2>4. Recorded(NoRange, valid, Others(c)) /\ Identified(NoRange, valid, Others(c))
    BY <1>1, <1>3, <1>5, <1>6 DEF Recorded, Identified, IsListed
  <2>5. Numbered(Others(c), valid) /\ Linked(NoRange)
    BY <1>3, <1>5 DEF Numbered, Linked
  <2> QED BY <1>3, <1>5, <2>1, <2>2, <2>3, <2>4, <2>5 DEF Held
<1>8. Unlocked(opt) => ~can_lock
  BY <1>1, OptionsAssumption DEF Unlocked
<1>9. OwnInv
  <2>1. ASSUME NEW c \in Sides
        PROVE  /\ Settled(c, ctx[c].st, data[c], valid)
               /\ Ranges(ctx[c], valid)
    BY <1>2, <1>3 DEF Settled, Ranges, Holding, Texts, Signing, Waiting
  <2>2. ASSUME NEW c \in Sides
        PROVE  ctx[c].lock # "HasLock" /\ (can_lock => ctx[c].lock # "Disabled")
    BY <1>1, <1>2
  <2> QED BY <1>2, <1>4, <1>7, <1>8, <2>1, <2>2 DEF OwnInv
<1>10. RunInv
  <2>1. ASSUME NEW c \in Sides
        PROVE  Naturals_(ctx[c], data[c]) /\ Between(c) /\ LockList(ctx[c])
    <3>1. Naturals_(ctx[c], data[c])
      <4>1. << >> \in Seq(Nat)
        OBVIOUS
      <4>2. data[c] = NoRange /\ ctx[c].files = << >> /\ ctx[c].clen = 0
            /\ ctx[c].cpos = 0 /\ ctx[c].resp = 0
        BY <1>2
      <4> QED BY <1>3, <4>1, <4>2 DEF Naturals_
    <3>2. Between(c)
      BY <1>2, <1>3 DEF Between
    <3>3. LockList(ctx[c])
      <4>1. << >> \in Seq([lock : Locks, files : Seq(Nat)])
        OBVIOUS
      <4>2. /\ ctx[c].locks = << >> /\ ctx[c].sizes = {} /\ ctx[c].lock # "HasLock"
            /\ ctx[c].slot = NoSlot
        BY <1>2
      <4> QED BY <1>3, <4>1, <4>2 DEF LockList
    <3> QED BY <3>1, <3>2, <3>3
  <2>2. ASSUME NEW c \in Sides
        PROVE  Buffered(ctx[c], data[c], Left(c)) /\ Answering(c, ctx[c], data[c])
    BY <1>2, <1>3 DEF Buffered, Answering, Waiting
  <2> QED BY <2>1, <2>2 DEF RunInv
<1>11. CalmAsserts /\ FaithfulText /\ Closed
  BY <1>1 DEF CalmAsserts, FaithfulText, Closed
<1>12. Spoken
  BY DEF Init, Spoken
<1> QED BY <1>9, <1>10, <1>11, <1>12 DEF Owners

LEMMA StillOwners ==
  ASSUME Owners, Closed, UNCHANGED vars
  PROVE  Owners' /\ Closed'
<1>1. \A c \in Sides : Others(c)' = Others(c) /\ Left(c)' = Left(c)
  BY DEF vars, Others, AllRanges, Left
<1>2. OwnInv'
  BY <1>1 DEF vars, Owners, OwnInv, Held, Numbered, Linked, Services, Listing, Recorded,
              Identified, Kept, Settled, Ranges, Distinct, AllRanges, Verifies,
              VerifiesText, IsListed, Faithful, Keeping, Unlocked
<1>3. RunInv'
  <2>1. ASSUME NEW c \in Sides
        PROVE  /\ Naturals_(ctx[c], data[c])' = Naturals_(ctx[c], data[c])
               /\ Answering(c, ctx[c], data[c])' = Answering(c, ctx[c], data[c])
               /\ LockList(ctx[c])' = LockList(ctx[c])
    BY DEF vars, Naturals_, Answering, LockList, Verifies, HasLock
  <2>2. ASSUME NEW c \in Sides
        PROVE  Buffered(ctx[c], data[c], Left(c))' = Buffered(ctx[c], data[c], Left(c))
    BY <1>1 DEF vars, Buffered, Calm, Unlocked
  <2>3. ASSUME NEW c \in Sides
        PROVE  Between(c)' = Between(c)
    BY DEF vars, Between, VerifiesText, Faithful, Unlocked
  <2>4. phase' = phase
    BY DEF vars
  <2> QED BY <2>1, <2>2, <2>3, <2>4 DEF Owners, RunInv
<1>4. CalmAsserts' /\ FaithfulText' /\ Spoken' /\ Closed'
  BY DEF vars, Owners, CalmAsserts, FaithfulText, Spoken, Closed, Calm, Faithful,
         Unlocked, Keeping
<1> QED BY <1>2, <1>3, <1>4 DEF Owners

(* The channel has one configuration, and only its destructor closes it. *)
LEMMA GoesOn ==
  ASSUME Next
  PROVE  opt' = opt /\ (Destructor \/ phase' # "closed")
<1>1. ASSUME NEW w, Running, Apply(w)
      PROVE  opt' = opt /\ phase' # "closed"
  BY <1>1 DEF Apply, Running
<1>2. ASSUME NEW c \in Sides, NEW b \in BOOLEAN, clip_caps(c, b)
      PROVE  opt' = opt /\ phase' # "closed"
  BY <1>1, <1>2 DEF clip_caps
<1>3. ASSUME NEW c \in Sides, NEW complete \in BOOLEAN, NEW hasFiles \in BOOLEAN,
             format_list(c, complete, hasFiles)
      PROVE  opt' = opt /\ phase' # "closed"
  BY <1>1, <1>3 DEF format_list, Active
<1>4. ASSUME NEW c \in Sides, NEW f, \/ format_list_response(c)
                                     \/ format_data_request(c, f)
                                     \/ format_data_response_fail(c)
      PROVE  opt' = opt /\ phase' # "closed"
  BY SMTT(60), <1>4 DEF format_list_response, format_data_request, format_data_response_fail,
              Active, Running
<1>5. ASSUME NEW c \in Sides, NEW l \in Locks, lock(c, l) \/ unlock(c, l)
      PROVE  opt' = opt /\ phase' # "closed"
  BY <1>1, <1>5 DEF lock, unlock, Active
<1>6. ASSUME NEW c \in Sides, NEW first \in BOOLEAN, NEW last \in BOOLEAN,
             NEW big \in BOOLEAN, NEW fs \in opt.lists \cup {<< >>},
             format_data_response(c, first, last, fs, big)
      PROVE  opt' = opt /\ phase' # "closed"
  BY <1>1, <1>6 DEF format_data_response, Active
<1>7. ASSUME NEW c \in Sides, NEW q \in Requests, filecontents_request(c, q)
      PROVE  opt' = opt /\ phase' # "closed"
  BY <1>1, <1>7 DEF filecontents_request, Active
<1>8. ASSUME NEW c \in Sides, NEW q, NEW ok, NEW n, NEW last, NEW total,
             filecontents_response(c, q, ok, n, last, total)
      PROVE  opt' = opt /\ phase' # "closed"
  BY <1>1, <1>8 DEF filecontents_response, Active
<1>9. ASSUME NEW n \in Ids, NEW ok \in BOOLEAN,
             DLP_antivirus_check_channels_files(n, ok)
      PROVE  opt' = opt /\ phase' # "closed"
  <2> DEFINE with == {c \in Sides : Concerns(c, n)}
             c == IF "client" \in with THEN "client" ELSE "server"
             p == process_clip([Work(c) EXCEPT !.v = Answer(valid, n, ok),
                                  !.s = Rejected(seen, n, ok)], n, ok)
  <2>1. Running /\ (UNCHANGED <<opt, phase>> \/ Apply(p))
    BY <1>9 DEF DLP_antivirus_check_channels_files
  <2> HIDE DEF p
  <2>2. CASE Apply(p)
    BY <1>1, <2>1, <2>2
  <2>3. CASE UNCHANGED <<opt, phase>>
    BY <2>1, <2>3 DEF Running
  <2> QED BY <2>1, <2>2, <2>3
<1>10. CASE Destructor
  BY <1>10 DEF Destructor
<1> QED BY <1>2, <1>3, <1>4, <1>5, <1>6, <1>7, <1>8, <1>9, <1>10 DEF Next

LEMMA OwnersHold ==
  ASSUME Owners, Closed, ClipInv, opt \in Options, Next
  PROVE  Owners' /\ Closed'
<1>1. Destructor \/ phase' # "closed"
  BY GoesOn
<1>2. ASSUME Owners' PROVE Destructor \/ Closed'
  BY <1>1 DEF Closed
<1>3. ASSUME NEW c \in Sides, NEW b \in BOOLEAN, clip_caps(c, b)
      PROVE  Owners'
  BY <1>3, CapsOwners
<1>4. ASSUME NEW c \in Sides, NEW complete \in BOOLEAN, NEW hasFiles \in BOOLEAN,
             format_list(c, complete, hasFiles)
      PROVE  Owners'
  BY <1>4, FormatListOwners
<1>5. ASSUME NEW c \in Sides, NEW f, \/ format_list_response(c)
                                     \/ format_data_request(c, f)
                                     \/ format_data_response_fail(c)
      PROVE  Owners'
  BY <1>5, ListResponseOwners, DataRequestOwners, DataFailOwners
<1>6. ASSUME NEW c \in Sides, NEW l \in Locks, lock(c, l) \/ unlock(c, l)
      PROVE  Owners'
  BY <1>6, LockOwners, UnlockOwners
<1>7. ASSUME NEW c \in Sides, NEW first \in BOOLEAN, NEW last \in BOOLEAN,
             NEW big \in BOOLEAN, NEW fs \in opt.lists \cup {<< >>},
             format_data_response(c, first, last, fs, big)
      PROVE  Owners'
  BY <1>7, DataResponseOwners
<1>8. ASSUME NEW c \in Sides, NEW q \in Requests, filecontents_request(c, q)
      PROVE  Owners'
  BY <1>8, RequestOwners
<1>9. ASSUME NEW c \in Sides, NEW q \in ctx[c].asked, NEW ok \in BOOLEAN,
             NEW last \in BOOLEAN, NEW total \in 0 .. MaxFile \cup Sizes,
             NEW n \in 0 .. MaxFile,
             filecontents_response(c, q, ok, n, last, total)
      PROVE  Owners'
  <2>1. n \in Nat /\ total \in Nat
    BY SizesAssumption
  <2> QED BY <1>9, <2>1, ResponseOwners
<1>10. ASSUME NEW n \in Ids, NEW ok \in BOOLEAN,
              DLP_antivirus_check_channels_files(n, ok)
       PROVE  Owners'
  BY <1>10, VerdictArrives
<1>11. CASE Destructor
  BY <1>11, DestructorCloses
<1>12. Owners' \/ Destructor
  BY <1>3, <1>4, <1>5, <1>6, <1>7, <1>8, <1>9, <1>10 DEF Next
<1> QED BY <1>2, <1>11, <1>12

----------------------------------------------------------------------------
ClipboardInv == ClipInv /\ opt \in Options /\ Owners /\ Closed

LEMMA ClipboardHolds == Spec => []ClipboardInv
<1>1. Init => ClipboardInv
  <2>1. Init => opt \in Options
    BY DEF Init
  <2> QED BY <2>1, InitHolds, InitOwners DEF ClipboardInv
<1>2. ClipboardInv /\ [Next]_vars => ClipboardInv'
  <2> SUFFICES ASSUME ClipboardInv, [Next]_vars PROVE ClipboardInv'
    OBVIOUS
  <2>1. ClipInv'
    BY NextHolds DEF ClipboardInv
  <2>2. CASE Next
    BY <2>1, <2>2, GoesOn, OwnersHold DEF ClipboardInv
  <2>3. CASE UNCHANGED vars
    <3>1. opt' = opt
      BY <2>3 DEF vars
    <3> QED BY <2>1, <2>3, <3>1, StillOwners DEF ClipboardInv
  <2> QED BY <2>2, <2>3
<1> QED BY <1>1, <1>2, PTL DEF Spec

(* Who holds the recording of a number, in the words of both contexts. *)
LEMMA RecordersAre ==
  ASSUME OwnInv, phase # "closed", NEW n \in Ids
  PROVE  valid.tfl[n] = "open" <=> Recorders(n) # {}
<1> DEFINE A == {<<c, "nolock">> : c \in {c \in Sides : data[c].tfl = n}}
           B == {<<c, r>> : c \in Sides,
                   r \in {r \in UNION {ctx[k].ranges : k \in Sides} : r.d.tfl = n}}
           C == {<<"list", e>> : e \in {e \in valid.files : e.tfl = n}}
<1>1. "client" \in Sides /\ Sides = {"client", "server"}
  BY DEF Sides
<1>2. n # 0
  BY SizesAssumption DEF Ids
<1>3. Recorded(data["client"], valid, Others("client"))
  BY <1>1 DEF OwnInv, Held
<1>4. valid.tfl[n] = "open" <=>
        \/ n = data["client"].tfl \/ n = data["server"].tfl
        \/ \E r \in AllRanges : r.d.tfl = n
        \/ \E e \in valid.files : e.tfl = n
  BY <1>2, <1>3 DEF Recorded, Others, Plus, OfRanges, Peer
<1>5. A # {} <=> n = data["client"].tfl \/ n = data["server"].tfl
  BY <1>1
<1>6. B # {} <=> \E r \in AllRanges : r.d.tfl = n
  <2>1. UNION {ctx[k].ranges : k \in Sides} = AllRanges
    BY <1>1 DEF AllRanges
  <2>2. B = {<<c, r>> : c \in Sides, r \in {r \in AllRanges : r.d.tfl = n}}
    BY <2>1
  <2> HIDE DEF B
  <2>3. ASSUME NEW r \in AllRanges, r.d.tfl = n
        PROVE  <<"client", r>> \in B
    BY <1>1, <2>2, <2>3
  <2>4. ASSUME NEW b \in B PROVE \E r \in AllRanges : r.d.tfl = n
    BY <2>2, <2>4
  <2> QED BY <2>3, <2>4
<1>7. C # {} <=> \E e \in valid.files : e.tfl = n
  OBVIOUS
<1>8. Recorders(n) = A \cup B \cup C
  BY DEF Recorders
<1> HIDE DEF A, B, C
<1> QED BY <1>4, <1>5, <1>6, <1>7, <1>8

(* A recording is open exactly as long as a transfer or a listed entry will
   end it, and none outlives the channel: whichever of the ends of a transfer
   (close, broken transfer, stop, new capabilities, a verdict, an unlock) comes
   first, in every configuration. *)
THEOREM RecordingsAreOwned == Spec => []RecordingOwned
<1>1. ClipboardInv => RecordingOwned
  <2>1. ASSUME ClipboardInv, phase # "closed", NEW n \in Ids
        PROVE  valid.tfl[n] = "open" <=> Recorders(n) # {}
    BY <2>1, RecordersAre DEF ClipboardInv, Owners
  <2>2. ASSUME ClipboardInv, phase = "closed", NEW n \in Ids
        PROVE  valid.tfl[n] # "open"
    BY <2>2 DEF ClipboardInv, Closed
  <2> HIDE DEF Recorders
  <2> QED BY <2>1, <2>2 DEF RecordingOwned
<1> QED BY <1>1, ClipboardHolds, PTL

(* A response whose header went to the other side is completed with the data
   or with zeros, in every configuration. *)
THEOREM ResponsesAreCompleted == Spec => []ResponseCompleted
<1>1. ClipboardInv => ResponseCompleted
  BY DEF ClipboardInv, Owners, RunInv, Answering, ResponseCompleted, Waiting
<1> QED BY <1>1, ClipboardHolds, PTL

(* Every verdict to come has its transfer, and a transfer that waits has its
   verdict to come, where a context that verifies texts has one transfer at a
   time and no late verdict: process_clip takes any verdict for its text. *)
THEOREM VerdictsAreExpected == Spec => [](Faithful(opt) => VerdictExpected)
<1>1. ClipboardInv => (Faithful(opt) => VerdictExpected)
  <2> SUFFICES ASSUME ClipboardInv, Faithful(opt), phase = "run"
               PROVE  VerdictExpected
    BY DEF VerdictExpected
  <2>1. OwnInv
    BY DEF ClipboardInv, Owners
  <2>2. ASSUME NEW c \in Sides
        PROVE  /\ data[c].vid # 0 => /\ ctx[c].st \in Validating \cup {"RejectedText"}
                                     /\ valid.res[data[c].vid] = "none"
                                          <=> ctx[c].st # "RejectedText"
               /\ ctx[c].st \in {"WaitingFileValidator", "WaitingTextValidator"}
                    => data[c].vid # 0
    BY <2>1 DEF OwnInv, Settled, Texts
  <2>3. ASSUME NEW n \in Ids, valid.svc[n] \in {"open", "eof"}, valid.res[n] = "none"
        PROVE  Expects(n)
    <3>1. Sides = {"client", "server"} /\ Peer("client") = "server"
      BY DEF Sides, Peer
    <3>2. Identified(data["client"], valid, Others("client"))
      BY <2>1, <3>1 DEF OwnInv, Held
    <3>3. \/ n = data["client"].vid \/ n \in Others("client").vid \/ IsListed(valid, n)
      BY <2>3, <3>2 DEF Identified
    <3>4. \/ \E c \in Sides : n = data[c].vid
          \/ \E r \in AllRanges : r.d.vid = n
          \/ IsListed(valid, n)
      BY <3>1, <3>3 DEF Others, Plus, OfRanges
    <3>5. ASSUME NEW c \in Sides, n = data[c].vid PROVE ctx[c].st \in Validating
      <4>1. n # 0
        BY SizesAssumption DEF Ids
      <4> QED BY <2>2, <2>3, <3>5, <4>1
    <3>6. (\E r \in AllRanges : r.d.vid = n) => Expects(n)
      BY <3>1 DEF AllRanges, Expects
    <3>7. (\E c \in Sides : n = data[c].vid) => Expects(n)
      BY <3>5 DEF Expects
    <3>8. IsListed(valid, n) => Expects(n)
      BY DEF IsListed, Expects
    <3> QED BY <3>4, <3>6, <3>7, <3>8
  <2>4. ASSUME NEW c \in Sides,
               ctx[c].st \in {"WaitingFileValidator", "WaitingTextValidator"}
        PROVE  valid.res[data[c].vid] = "none"
    BY <2>2, <2>4
  <2> QED BY <2>3, <2>4 DEF VerdictExpected
<1> QED BY <1>1, ClipboardHolds, PTL

(* A recording of a rejected file is not thrown away, locks or not, save for the
   two cases RejectedKept excepts: a transfer of locked_data that is not over when
   it is rejected, and a text that takes the verdict on a file. *)
THEOREM RejectedRecordingsAreKept == Spec => []RejectedKept
<1>1. ClipboardInv => RejectedKept
  <2> SUFFICES ASSUME ClipboardInv, Keeping(opt), NEW n \in seen.keep
               PROVE  valid.tfl[n] \in {"open", "stored"}
    BY DEF RejectedKept, Keeping
  <2>1. CASE phase = "closed"
    BY <2>1 DEF ClipboardInv, Closed
  <2>2. CASE phase # "closed"
    <3>1. Kept(data["client"], valid, seen.keep, Others("client"))
      BY <2>2 DEF ClipboardInv, Owners, OwnInv, Held, Sides
    <3> QED BY <3>1 DEF Kept
  <2> QED BY <2>1, <2>2
<1> QED BY <1>1, ClipboardHolds, PTL

(* With block_invalid_clipboard_text, no text goes to the other side before
   the service accepted that very text, where a text that is verified can only
   receive its own verdict. *)
THEOREM TextsAreVerified == Spec => [](Faithful(opt) => TextVerified)
<1>1. ClipboardInv => (Faithful(opt) => TextVerified)
  BY DEF ClipboardInv, Owners, FaithfulText, TextVerified
<1> QED BY <1>1, ClipboardHolds, PTL

(* No assertion of a handler fails, whatever the two sides and the service send,
   save for a file requested between two chunks of a list or a text where texts
   are sent to the service or files are locked (AssertionsHold). *)
THEOREM ClipboardAssertionsHold == Spec => []AssertionsHold
<1>1. ClipboardInv => AssertionsHold
  BY DEF ClipboardInv, Owners, CalmAsserts, AssertionsHold
<1> QED BY <1>1, ClipboardHolds, PTL
=============================================================================
