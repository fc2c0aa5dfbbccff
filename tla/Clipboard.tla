----------------------------- MODULE Clipboard -----------------------------
(***************************************************************************)
(* The clipboard channel between the client and the target server.         *)
(* Source: src/mod/rdp/channels/cliprdr_channel.cpp and .hpp.              *)
(*                                                                         *)
(* One context per side holds the transfer of that side's data: a text or  *)
(* a file, copied at the request of the other side.  Data goes to the file *)
(* validator service, whose verdicts arrive later and in any order, and to *)
(* a recording (tfl).  A context that verifies before it transfers keeps   *)
(* the data until the verdict.  Without locks there is one transfer per    *)
(* context (nolock_data); with locks there are several (locked_data).      *)
(*                                                                         *)
(* Data is counted in units: a file is a number of units.  One number n    *)
(* names the n-th transfer, the identifier the service knows it by and its *)
(* recording.  Formatting of the messages, on-screen messages and the      *)
(* session log are left out.                                               *)
(***************************************************************************)
EXTENDS Integers, Sequences, FiniteSets, FiniteSetsExt, SequencesExt

CONSTANTS Options,      \* configurations of the channel, see TypeOK
          Sizes,        \* sizes a side may answer
          Locks,        \* lock identifiers a side may use
          MaxLocks,     \* bound on the locked file lists of a context
          MaxTransfers, \* bound on the transfers of a behaviour
          InvalidSize,  \* CliprdFileInfo::invalid_size, above every size
          MaxFile,      \* max_file_size_rejected
          ReadMax       \* requested_len_max

ASSUME SizesAssumption ==
    /\ MaxTransfers \in Nat \ {0}
    /\ MaxFile \in Nat /\ ReadMax \in Nat /\ InvalidSize \in Nat
    /\ \A s \in Sizes : s \in Nat /\ s < InvalidSize
    /\ MaxLocks \in Nat /\ 0 \notin Locks

\* Both sides may have exchanged their capabilities: see clip_caps.  Files are
\* verified before their transfer only with a validator: see ClipCtx.
ASSUME OptionsAssumption ==
    \A o \in Options :
      /\ o.locking => o.vfile = {}
      /\ o.vfile \subseteq o.target
      /\ o.lens \subseteq Nat /\ o.lists \subseteq Seq(Nat)

VARIABLES opt,       \* the configuration
          ctx,       \* client_ctx and server_ctx, without their transfer
          data,      \* nolock_data.data of each context
          can_lock,  \* both sides can lock
          valid,     \* service, recordings and the two validator lists
          msg,       \* the response each side is in the middle of sending
          phase,     \* "run", "thrown" or "closed"
          seen       \* what went wrong so far

vars == <<opt, ctx, data, can_lock, valid, msg, phase, seen>>

Sides == {"client", "server"}
Peer(s) == IF s = "client" THEN "server" ELSE "client"
Ids == 1 .. MaxTransfers

\* verify_file_before_transfer and verify_text_before_transfer.
Verifies(c) == c \in opt.vfile
VerifiesText(c) == c \in opt.vtext

States == {"Empty", "Size", "Range", "GetRange", "SyncRange",
           "RequestedRange", "RequestedSyncRange",
           "WaitingContinuationRange", "WaitingFileValidator",
           "Text", "TextAccumulate", "WaitingTextValidator", "RejectedText"}

MinOf(a, b) == IF a < b THEN a ELSE b

(***************************************************************************)
(* A transfer (FileContentsRange).  own is its number, also after its      *)
(* identifier has been given back; the recording and the service know it   *)
(* by that number.                                                         *)
(***************************************************************************)
NoRange == [sid |-> 0, file |-> 1, vid |-> 0, own |-> 0, verdict |-> "Wait",
            off |-> 0, first |-> 0, req |-> 0, size |-> 0, tfl |-> 0,
            sig |-> "Update"]

\* requested_range: the one range of a locked file asked and not begun.
NoSlot == [lock |-> 0, sid |-> 0, file |-> 1, len |-> 0, size |-> 0]

NoContext == [st |-> "Empty", clen |-> 0, cpos |-> 0, resp |-> 0,
              owed |-> FALSE, cut |-> FALSE, fmt |-> "none", flist |-> FALSE,
              files |-> << >>, lock |-> "Disabled", lid |-> 0,
              slot |-> NoSlot, locks |-> << >>, sizes |-> {}, ranges |-> {},
              asked |-> {}]

(***************************************************************************)
(* The handlers compute on a work record: c is the context they serve, x   *)
(* its fields, d the transfer at hand, v the service, recordings and lists,*)
(* and the flags say which assertion failed, whether data left before its  *)
(* verdict and whether an error was thrown.                                *)
(***************************************************************************)
Work(c) == [c |-> c, x |-> ctx[c], d |-> data[c], v |-> valid, s |-> seen,
            thrown |-> FALSE]

Apply(w) ==
    /\ ctx' = [ctx EXCEPT ![w.c] = w.x]
    /\ data' = [data EXCEPT ![w.c] = w.d]
    /\ valid' = w.v
    /\ seen' = w.s
    /\ phase' = IF w.thrown THEN "thrown" ELSE phase
    /\ UNCHANGED opt

Asserted(w, p) == [w EXCEPT !.s.assertion = @ \/ ~p]
Throw(w) == [w EXCEPT !.thrown = TRUE]
SetState(w, from, to) ==
    [Asserted(w, w.x.st \in from) EXCEPT !.x.st = to]

SigBroken(w) ==
    [Asserted(w, w.d.sig = "Update") EXCEPT !.d.sig = "Broken"]
SigFinal(w) ==
    [Asserted(w, w.d.sig = "Update") EXCEPT !.d.sig = "Final"]
HasDigest(d) == d.sig # "Update"

\* init_empty asserts that the recording has been given up.  The other
\* fields of a transfer are not read again after its end: they are reset.
InitEmpty(w) ==
    [Asserted(w, w.d.tfl = 0) EXCEPT
       !.x.st = "Empty", !.x.clen = 0, !.x.cpos = 0, !.x.resp = 0,
       !.d = [NoRange EXCEPT !.tfl = w.d.tfl,
                !.own = IF VerifiesText(w.c) THEN w.d.own ELSE 0,
                !.size = IF w.x.owed THEN w.d.size ELSE 0]]

(***************************************************************************)
(* What is sent to the service about the transfer at hand.                 *)
(***************************************************************************)
SendEof(w) ==
    [Asserted(w, w.v.svc[w.d.vid] = "open") EXCEPT !.v.svc[w.d.vid] = "eof"]
SendAbort(w) ==
    [Asserted(w, w.v.svc[w.d.vid] \in {"open", "eof"})
        EXCEPT !.v.svc[w.d.vid] = "abort", !.d.vid = 0]

(***************************************************************************)
(* Ends of a transfer.                                                     *)
(***************************************************************************)
KeepTflAlwaysOnly(w) ==  \* the verdict is not looked at
    opt.always

KeepTfl(w) == opt.always \/ w.d.verdict = "Failure"

close_file_rng_tfl(w) ==
    IF w.d.tfl = 0 THEN w
    ELSE [Asserted(w, KeepTfl(w) => HasDigest(w.d)) EXCEPT
            !.v.tfl[w.d.tfl] = IF KeepTfl(w) THEN "stored" ELSE "cancelled",
            !.d.tfl = 0]

\* The transfer is over and its verdict is left to the list.
PushValidatorLosesTfl(w, tfl) ==  \* the entry has no recording
    [SendEof(w) EXCEPT !.v.files = @ \cup {[id |-> w.d.vid, tfl |-> 0]},
                       !.d.vid = 0, !.d.tfl = 0]

PushValidator(w, tfl) ==
    LET e == Asserted(SendEof(w), HasDigest(w.d))
    IN  [e EXCEPT !.v.files = @ \cup {[id |-> w.d.vid, tfl |-> tfl]},
                  !.d.vid = 0, !.d.tfl = IF tfl = @ THEN 0 ELSE @]

close_file_rng(w) ==
    IF w.d.vid # 0 THEN PushValidator(w, w.d.tfl) ELSE close_file_rng_tfl(w)

broken_file_transfer(w) ==
    LET b == close_file_rng_tfl(SigBroken(w))
    IN  IF b.d.vid # 0 THEN PushValidator(b, 0) ELSE b

log_file_info(w) == IF HasDigest(w.d) THEN w ELSE SigBroken(w)

stop_validation_unsigned(w) ==  \* without the end of the signature
    close_file_rng_tfl(IF w.d.vid # 0 THEN SendAbort(w) ELSE w)

stop_validation_before_transfer(w) ==
    LET l == log_file_info(w)
    IN  close_file_rng_tfl(IF l.d.vid # 0 THEN SendAbort(l) ELSE l)

stop_valid_transfer(w) ==
    LET a == Asserted(w, w.d.vid = 0)
    IN  close_file_rng_tfl(IF HasDigest(a.d) THEN a ELSE SigBroken(a))

stop_wait_validation(w) ==
    stop_valid_transfer(SendAbort(Asserted(w, w.d.vid # 0)))

finalize_text_transfer_unlisted(w) ==  \* not added to the list
    IF w.d.vid = 0 THEN w ELSE SendEof(w)

finalize_text_transfer(w) ==
    IF w.d.vid = 0 THEN w
    ELSE [SendEof(w) EXCEPT !.v.texts = @ \cup {w.d.vid}]

\* The response whose header was sent ends: with zeros, or with the data.
ZeroDataForgotten(w) ==  \* the response is left unfinished
    w

ZeroData(w) == [w EXCEPT !.x.owed = FALSE, !.x.cut = FALSE]

stop_nolock_data(w) ==
    InitEmpty(
      CASE w.x.st \in {"WaitingContinuationRange", "Range"} ->
             broken_file_transfer(w)
        [] w.x.st = "GetRange" ->
             stop_validation_before_transfer(ZeroData(w))
        [] w.x.st = "WaitingFileValidator" ->
             stop_wait_validation(ZeroData(w))
        [] w.x.st \in {"RequestedSyncRange", "SyncRange"} ->
             stop_valid_transfer(w)
        [] w.x.st = "Text" -> finalize_text_transfer(w)
        [] w.x.st \in {"WaitingTextValidator", "TextAccumulate"} ->
             SendAbort(w)
        [] OTHER -> w)

\* broken_file_transfer for every transfer of locked_data in rs: each has an
\* identifier and a recording of its own.
BreakRanges(w, rs) ==
    LET Broken(r) == broken_file_transfer([w EXCEPT !.d = r.d])
        Service(n) == {r \in rs : r.d.vid = n}
        Records(n) == {r \in rs : r.d.tfl = n}
    IN  [w EXCEPT
           !.s.assertion = @ \/ \E r \in rs : Broken(r).s.assertion,
           !.v.svc = [n \in Ids |-> IF Service(n) = {} THEN @[n]
                        ELSE Broken(CHOOSE r \in Service(n) : TRUE).v.svc[n]],
           !.v.tfl = [n \in Ids |-> IF Records(n) = {} THEN @[n]
                        ELSE Broken(CHOOSE r \in Records(n) : TRUE).v.tfl[n]],
           !.v.files = @ \cup UNION {Broken(r).v.files : r \in rs},
           !.x.ranges = @ \ rs]

-----------------------------------------------------------------------------
(***************************************************************************)
(* The environment.  A side sends one message at a time and a response in  *)
(* chunks; it answers what it was asked, in any order, or fails to.        *)
(***************************************************************************)
Running == phase = "run"
Silent(s) == msg[s].kind = "none"
NoMsg == [kind |-> "none", left |-> 0, sid |-> 0]
Active(s) == Running /\ s \in opt.active
Asked(w, s, range, len) ==
    [w EXCEPT !.x.asked = @ \cup {[sid |-> s, range |-> range, len |-> len]}]

(***************************************************************************)
(* Capabilities: the context of the side starts afresh.  A verification    *)
(* before transfer on either side takes the lock capability away.          *)
(***************************************************************************)
reset_clip(w) ==
    LET b == BreakRanges(stop_nolock_data(w), w.x.ranges)
    IN  [Asserted(b, b.x.st = "Empty") EXCEPT
            !.x.files = << >>, !.x.lock = "Disabled", !.x.locks = << >>,
            !.x.sizes = {}, !.x.slot = NoSlot]

clip_caps(s, lockable) ==
    /\ Running /\ Silent(s)
    /\ <<s, lockable>> \in opt.caps
    /\ LET can == lockable /\ opt.vfile = {}
       IN  /\ Apply([reset_clip(Work(s)) EXCEPT
                        !.x.lock = IF can THEN "Enabled" ELSE "Disabled"])
           /\ can_lock' = /\ s = "client" /\ can
                          /\ ctx["server"].lock # "Disabled"
    /\ UNCHANGED msg

(***************************************************************************)
(* A side announces new data, which ends the transfer of its old data.     *)
(***************************************************************************)
UnsetLock(x) == IF x.lock = "Disabled" THEN x.lock ELSE "Enabled"

format_list(s, complete, hasFiles) ==
    /\ Active(s) /\ Silent(s)
    /\ LET w == Work(s)
           f == [w EXCEPT !.x.flist = FALSE, !.x.files = << >>,
                          !.x.lock = UnsetLock(w.x)]
       IN  Apply(IF ~complete THEN w
                 ELSE IF opt.auth = {} THEN f
                 ELSE [stop_nolock_data(f) EXCEPT !.x.flist = hasFiles])
    /\ UNCHANGED <<can_lock, msg>>

\* The other side did not take the list.
format_list_response(c) ==
    /\ Active(c) /\ Silent(Peer(c))
    /\ ctx[c].flist
    /\ ctx' = [ctx EXCEPT ![c].flist = FALSE]
    /\ UNCHANGED <<opt, data, can_lock, valid, msg, phase, seen>>

(***************************************************************************)
(* Locks: the other side keeps the announced files of context c.           *)
(***************************************************************************)
HasLock(ls, l) == \E i \in DOMAIN ls : ls[i].lock = l
\* search_lock_by_id: the first entry.
FirstLock(ls, l) ==
    CHOOSE i \in DOMAIN ls : ls[i].lock = l /\ \A j \in 1..(i-1) : ls[j].lock # l
\* unordered_erase_element: the last entry takes the place.
EraseLock(ls, l) ==
    IF ~HasLock(ls, l) THEN ls
    ELSE LET i == FirstLock(ls, l)
         IN  SubSeq([ls EXCEPT ![i] = ls[Len(ls)]], 1, Len(ls) - 1)

lock(c, l) ==
    /\ Active(c) /\ Silent(Peer(c))
    /\ can_lock
    /\ Apply([Asserted(Work(c), ctx[c].lock # "Disabled") EXCEPT
                 !.x.lid = l, !.x.lock = "HasLock"])
    /\ UNCHANGED <<can_lock, msg>>

\* The current lock is only unset: what it keeps is not given up.
unlock(c, l) ==
    /\ Active(c) /\ Silent(Peer(c))
    /\ can_lock
    /\ LET w == Work(c)
           current == w.x.lock \in {"HasLock", "LockIsUsed"} /\ w.x.lid = l
           u == IF current THEN [w EXCEPT !.x.lock = "Enabled"]
                ELSE [BreakRanges(w, {r \in w.x.ranges : r.lock = l}) EXCEPT
                        !.x.locks = EraseLock(@, l),
                        !.x.sizes = {z \in @ : z.lock # l}]
       IN  Apply([u EXCEPT !.x.slot = IF @.lock = l THEN NoSlot ELSE @])
    /\ UNCHANGED <<can_lock, msg>>

(***************************************************************************)
(* The other side asks the data of context c in a format, one at a time.   *)
(***************************************************************************)
format_data_request(c, f) ==
    /\ Active(c) /\ Silent(Peer(c))
    /\ ctx[c].fmt = "none" \/ c \notin opt.auth
    /\ (~ctx[c].owed /\ ctx[c].asked = {}) \/ opt.overlap
    /\ ctx' = [ctx EXCEPT ![c].fmt = f,
                               ![c].cut = @ \/ ctx[c].owed \/ ctx[c].asked # {}]
    /\ UNCHANGED <<opt, data, can_lock, valid, msg, phase, seen>>

-----------------------------------------------------------------------------
(***************************************************************************)
(* A chunk of the answer.  msg counts what is left of it: the chunk that   *)
(* leaves nothing has the flag LAST.                                       *)
(***************************************************************************)
Fresh(v) == {n \in Ids : v.svc[n] = "free" /\ v.tfl[n] = "free"}
NewId(v) == Min(Fresh(v))

\* What a transfer of its old data becomes when a new answer begins.
reset_nolock_data(w) ==
    CASE w.x.st = "WaitingFileValidator" -> InitEmpty(stop_wait_validation(w))
      [] w.x.st = "SyncRange" -> InitEmpty(stop_valid_transfer(w))
      [] w.x.st = "WaitingContinuationRange" ->
           InitEmpty(broken_file_transfer(w))
      [] w.x.st = "WaitingTextValidator" -> InitEmpty(SendAbort(w))
      [] w.x.st = "RejectedText" -> InitEmpty(w)
      [] w.x.st = "Empty" -> w
      [] OTHER -> Throw(w)

FileListChunk(w, first, last, files) ==
    LET r == IF first THEN reset_nolock_data(w) ELSE w
        f == [r EXCEPT !.x.files = files]
    IN  IF r.thrown THEN r
        ELSE IF last /\ f.x.lock = "HasLock"
        THEN [f EXCEPT !.x.locks = Append(@, [lock |-> f.x.lid, files |-> files]),
                       !.x.files = << >>, !.x.lock = "LockIsUsed"]
        ELSE f

\* The first chunk of a text: a text too big is refused, another one is
\* given to the service, and kept when it is verified before its transfer.
OpenText(w, big) ==
    LET n == NewId(w.v)
        o == [w EXCEPT !.v.svc[n] = "open", !.d.vid = n, !.d.own = n]
    IN  IF VerifiesText(w.c) /\ big THEN SetState(w, {"Empty"}, "RejectedText")
        ELSE IF VerifiesText(w.c) THEN SetState(o, {"Empty"}, "TextAccumulate")
        ELSE SetState(o, {"Empty"}, "Text")

\* A chunk of text that goes on to the other side.
PassText(w) ==
    [w EXCEPT !.s.text = @ \/ (VerifiesText(w.c) /\ w.v.res[w.d.own] # "accept")]

TextChunk(w, first, last, big) ==
    LET r == IF first THEN reset_nolock_data(w) ELSE w
        o == IF first THEN OpenText(r, big) ELSE r
    IN  IF r.thrown THEN r
        ELSE CASE o.x.st = "Text" ->
                    IF last THEN InitEmpty(finalize_text_transfer(o)) ELSE o
               [] o.x.st = "TextAccumulate" ->
                    IF last THEN SetState(SendEof(o), {"TextAccumulate"},
                                          "WaitingTextValidator") ELSE o
               [] o.x.st = "RejectedText" -> IF last THEN InitEmpty(o) ELSE o
               [] o.x.st = "Empty" -> PassText(o)
               [] OTHER -> Asserted(o, FALSE)

\* The chunk of whatever format c was asked for.
DataChunk(w, first, last, files, big) ==
    CASE w.x.fmt = "files" /\ w.x.flist -> FileListChunk(w, first, last, files)
      [] w.x.fmt = "text" /\ w.c \in opt.text -> TextChunk(w, first, last, big)
      [] OTHER -> w

format_data_response_fail(c) ==
    /\ Active(c) /\ Silent(c) /\ c \in opt.auth
    /\ ctx[c].fmt # "none"
    /\ ctx' = [ctx EXCEPT ![c].fmt = "none"]
    /\ UNCHANGED <<opt, data, can_lock, valid, msg, phase, seen>>

format_data_response(c, first, last, files, big) ==
    /\ Active(c) /\ c \in opt.auth
    /\ IF first THEN Silent(c) /\ ctx[c].fmt # "none"
       ELSE msg[c].kind = "fmt" /\ ~big
    /\ IF ctx[c].fmt = "files"
       THEN ~big /\ (first \/ IsPrefix(ctx[c].files, files))
       ELSE files = << >>
    /\ first => Fresh(valid) # {}
    /\ Len(ctx[c].locks) < MaxLocks
    /\ LET w == DataChunk(Work(c), first, last, files, big)
       IN  Apply([w EXCEPT !.x.fmt = IF last /\ ~w.thrown THEN "none" ELSE @])
    /\ msg' = [msg EXCEPT ![c] = IF last THEN NoMsg
                                 ELSE [kind |-> "fmt", left |-> 0, sid |-> 0]]
    /\ UNCHANGED can_lock

-----------------------------------------------------------------------------
(***************************************************************************)
(* The other side asks for a file of context c: its size, or len units of  *)
(* it from pos.  A request that goes on to side c is kept in asked.        *)
(***************************************************************************)
init_contents_size(w, q) ==
    IF q.file \in DOMAIN w.x.files
    THEN Asked([SetState(w, {"Empty"}, "Size") EXCEPT
                  !.d.sid = q.sid, !.d.file = q.file], q.sid, FALSE, 0)
    ELSE w

init_contents_range(w, q) ==
    IF /\ q.file \in DOMAIN w.x.files
       /\ q.pos = 0 /\ q.len <= MaxFile
    THEN Asked([SetState(w, {"Empty"}, "RequestedRange") EXCEPT
                  !.d.sid = q.sid, !.d.file = q.file, !.d.first = q.len,
                  !.d.size = w.x.files[q.file]], q.sid, TRUE, q.len)
    ELSE w

init_contents(w, q) ==
    IF q.range THEN init_contents_range(w, q) ELSE init_contents_size(w, q)

update_continuation_range(w, q) ==
    Asked([w EXCEPT !.d.sid = q.sid,
                    !.d.req = MinOf(w.d.size - w.d.off, q.len)],
          q.sid, TRUE, q.len)

\* Data that goes on to the other side, at once or after its verdict.
PassFile(w) ==
    [w EXCEPT !.s.file = @ \/ (Verifies(w.c) /\ w.v.res[w.d.own] # "accept")]

\* A request for a file whose beginning is in the buffer and accepted.
SyncRequest(w, q) ==
    LET a == Asserted(w, w.d.off = w.x.clen /\ w.d.off >= w.x.cpos)
        stop == InitEmpty(stop_valid_transfer(a))
        len == MinOf(w.x.clen - q.pos, q.len)
        known == w.x.clen - q.pos
    IN  IF ~q.range \/ q.file # w.d.file THEN init_contents(stop, q)
        ELSE IF q.pos > w.x.cpos THEN stop
        ELSE IF HasDigest(w.d) \/ q.pos + q.len < w.x.clen
        THEN IF len > ReadMax THEN Throw(a)
             ELSE [PassFile(a) EXCEPT !.x.cpos = q.pos + len]
        ELSE IF q.pos = w.x.clen
        THEN SetState(update_continuation_range(a, q), {"SyncRange"}, "Range")
        ELSE SetState([Asked(a, w.d.sid, TRUE, q.len - known) EXCEPT
                         !.x.cpos = q.pos, !.d.sid = q.sid,
                         !.d.req = q.len - known, !.d.first = q.len],
                      {"SyncRange"}, "RequestedSyncRange")

ContinuationRequest(w, q) ==
    IF q.range /\ q.pos = w.d.off /\ q.file = w.d.file
    THEN SetState(update_continuation_range(w, q),
                  {"WaitingContinuationRange"}, "Range")
    ELSE init_contents(InitEmpty(broken_file_transfer(w)), q)

NoLockRequest(w, q) ==
    CASE w.x.st = "SyncRange" -> SyncRequest(w, q)
      [] w.x.st = "WaitingContinuationRange" -> ContinuationRequest(w, q)
      [] w.x.st = "WaitingFileValidator" ->
           init_contents(InitEmpty(stop_wait_validation(w)), q)
      [] w.x.st = "Empty" -> init_contents(w, q)
      [] OTHER -> Throw(w)

\* contains_stream_id.
UsesStream(x, sid) ==
    \/ \E r \in x.ranges : r.d.sid = sid /\ r.st = "WaitingResponse"
    \/ \E z \in x.sizes : z.sid = sid

LockedRequest(w, q) ==
    LET x == w.x
        files == x.locks[FirstLock(x.locks, q.lock)].files
        goOn == {r \in x.ranges : /\ r.lock = q.lock /\ r.st = "WaitingRequest"
                                  /\ r.d.file = q.file /\ r.d.off = q.pos}
    IN  IF ~HasLock(x.locks, q.lock) THEN w
        ELSE IF UsesStream(x, q.sid) THEN Throw(w)
        ELSE IF q.range /\ goOn # {}
        THEN LET r == CHOOSE r \in goOn : TRUE
                 u == update_continuation_range([w EXCEPT !.d = r.d], q)
             IN  [u EXCEPT !.d = w.d,
                    !.x.ranges = (@ \ {r}) \cup
                        {[r EXCEPT !.d = u.d, !.st = "WaitingResponse"]}]
        ELSE IF q.file \notin DOMAIN files THEN w
        ELSE IF q.range
        THEN Asked([w EXCEPT !.x.slot = [lock |-> q.lock, sid |-> q.sid,
                                         file |-> q.file, len |-> q.len,
                                         size |-> files[q.file]]],
                   q.sid, TRUE, q.len)
        ELSE Asked([w EXCEPT !.x.sizes = @ \cup
                        {[lock |-> q.lock, sid |-> q.sid, file |-> q.file]}],
                   q.sid, FALSE, 0)

filecontents_request(c, q) ==
    /\ Active(c) /\ Silent(Peer(c))
    /\ opt.files
    /\ ctx[c].fmt = "none" \/ opt.overlap
    /\ \A a \in ctx[c].asked : a.sid # q.sid
    /\ LET w == [Work(c) EXCEPT !.x.cut = @ \/ ctx[c].owed \/ ctx[c].fmt # "none"]
       IN  Apply(IF ~can_lock THEN NoLockRequest(w, q)
                 ELSE IF q.lock = 0 THEN w ELSE LockedRequest(w, q))
    /\ UNCHANGED <<can_lock, msg>>

-----------------------------------------------------------------------------
(***************************************************************************)
(* Side c answers: n units of the response, the last ones or not.          *)
(***************************************************************************)
\* A transfer begins: its recording and, with a validator, its identifier.
NewTransfer(w, d) ==
    LET n == NewId(w.v)
        target == w.c \in opt.target
    IN  [w EXCEPT
           !.d = [d EXCEPT !.vid = IF target THEN n ELSE 0, !.own = n,
                           !.off = 0, !.req = MinOf(d.first, d.size),
                           !.tfl = IF opt.fdx THEN n ELSE 0,
                           !.sig = "Update", !.verdict = "Wait"],
           !.v.svc[n] = IF target THEN "open" ELSE "none",
           !.v.tfl[n] = IF opt.fdx THEN "open" ELSE "none"]

requested_range_to(w, st) ==
    SetState(NewTransfer([w EXCEPT !.x.clen = 0, !.x.cpos = 0], w.d),
             {"RequestedRange"}, st)

update_file_range_data(w, n) ==
    LET k == MinOf(n, w.d.req)
    IN  [Asserted(w, w.d.vid # 0 => w.v.svc[w.d.vid] = "open")
           EXCEPT !.d.off = @ + k, !.d.req = @ - k]

\* Data that waits for its verdict.
Accumulate(w, n) ==
    LET u == update_file_range_data(w, n)
    IN  [Asserted(u, w.x.cpos = 0) EXCEPT !.x.clen = @ + MinOf(n, w.d.req)]

Complete(d) == d.off >= d.size \/ d.size = InvalidSize

set_finalize_file_transfer(w) ==
    IF Complete(w.d) THEN SigFinal([w EXCEPT !.d.size = MinOf(@, w.d.off)])
    ELSE w

\* More of a file that waits for its verdict, unless it is too large.
send_file_contents_request(w) ==
    IF w.d.size > MaxFile THEN InitEmpty(stop_validation_before_transfer(w))
    ELSE [Asked(w, w.d.sid, TRUE, w.d.first) EXCEPT !.d.req = w.d.first]

Header(w, len) == [w EXCEPT !.x.resp = len, !.x.owed = TRUE]

\* The response whose header was sent ends with the accepted data.
filecontents_response_data(w) ==
    LET p == PassFile(Asserted(w, w.x.cpos = 0 /\ w.x.resp <= w.x.clen))
    IN  [p EXCEPT !.x.cpos = w.x.resp, !.x.owed = FALSE, !.x.cut = FALSE]

\* The first chunk of a file that is verified before its transfer.
FirstVerified(w, n, last, total) ==
    LET g == requested_range_to(w, "GetRange")
        a == Accumulate(g, n)
        f == set_finalize_file_transfer(a)
        m == send_file_contents_request(a)
    IN  IF ~last THEN Header(a, MinOf(total, g.d.req))
        ELSE IF Complete(a.d)
        THEN Header(SetState(SendEof(f), {"GetRange"}, "WaitingFileValidator"),
                    a.x.clen)
        ELSE IF m.x.st = "Empty" THEN m ELSE Header(m, a.x.clen)

\* A chunk that goes on at once.
RangeChunk(w, n, last) ==
    LET u == PassFile(update_file_range_data(w, n))
    IN  IF ~last THEN u
        ELSE IF Complete(u.d)
        THEN InitEmpty(close_file_rng(set_finalize_file_transfer(u)))
        ELSE SetState(u, {"Range"}, "WaitingContinuationRange")

\* What the buffer had of the request, then what it had not.
SyncChunk(w, n, last) ==
    LET u == PassFile(update_file_range_data(w, n))
        known == w.d.first - w.d.req
        r == IF w.d.first = 0 THEN u
             ELSE IF w.x.cpos + known > w.x.clen \/ known > ReadMax THEN Throw(u)
             ELSE [u EXCEPT !.x.cpos = @ + known, !.d.first = 0]
    IN  IF r.thrown \/ ~last THEN r
        ELSE IF Complete(r.d)
        THEN InitEmpty(close_file_rng_tfl(set_finalize_file_transfer(r)))
        ELSE SetState(r, {"RequestedSyncRange"}, "WaitingContinuationRange")

\* The verdict that came before the end of the data.
EarlyVerdictAny(d) ==  \* a rejection is taken for an acceptance
    IF d.verdict = "Wait" THEN "Wait" ELSE "Success"
EarlyVerdict(d) == d.verdict

\* A chunk of a file that is verified before its transfer.
GetChunk(w, n, last) ==
    LET a == Accumulate(w, n)
        f == set_finalize_file_transfer(a)
        closed == close_file_rng_tfl(f)
    IN  IF ~last THEN a
        ELSE CASE EarlyVerdict(a.d) = "Failure" ->
                    InitEmpty(ZeroData(close_file_rng_tfl(log_file_info(f))))
               [] EarlyVerdict(a.d) = "Success" ->
                    SetState(filecontents_response_data(
                               IF Complete(a.d) THEN closed ELSE f),
                             {"GetRange"}, "SyncRange")
               [] OTHER ->
                    IF Complete(a.d)
                    THEN SetState(SendEof(f), {"GetRange"},
                                  "WaitingFileValidator")
                    ELSE send_file_contents_request(a)

\* The failure of the request, in the only chunk of the answer.
NoLockFail(w) ==
    CASE w.x.st \in {"Size", "RequestedRange"} -> InitEmpty(w)
      [] w.x.st = "Range" -> InitEmpty(broken_file_transfer(w))
      [] w.x.st = "RequestedSyncRange" -> InitEmpty(stop_valid_transfer(w))
      [] w.x.st = "GetRange" ->
           InitEmpty(ZeroData(stop_validation_before_transfer(w)))
      [] OTHER -> Throw(w)

NoLockResponse(w, sid, n, last, total) ==
    IF w.x.st \in {"Size", "RequestedRange", "Range", "RequestedSyncRange",
                   "GetRange"} /\ sid # w.d.sid THEN Throw(w)
    ELSE CASE w.x.st = "Size" ->
                InitEmpty([Asserted(w, w.d.file \in DOMAIN w.x.files)
                             EXCEPT !.x.files[w.d.file] = total])
           [] w.x.st = "RequestedRange" ->
                IF Verifies(w.c) THEN FirstVerified(w, n, last, total)
                ELSE RangeChunk(requested_range_to(w, "Range"), n, last)
           [] w.x.st = "Range" -> RangeChunk(w, n, last)
           [] w.x.st = "RequestedSyncRange" -> SyncChunk(w, n, last)
           [] w.x.st = "GetRange" -> GetChunk(w, n, last)
           [] OTHER -> Throw(w)

\* A chunk of range r of locked_data.
LockedChunk(w, r, n, last) ==
    LET u == PassFile(update_file_range_data([w EXCEPT !.d = r.d], n))
        e == IF last /\ Complete(u.d)
             THEN close_file_rng(set_finalize_file_transfer(u)) ELSE u
        left == IF ~last THEN {[r EXCEPT !.d = e.d]}
                ELSE IF Complete(u.d) THEN {}
                ELSE {[r EXCEPT !.d = e.d, !.st = "WaitingRequest"]}
    IN  [e EXCEPT !.d = w.d, !.x.ranges = (@ \ {r}) \cup left]

LockedResponse(w, sid, ok, n, last, total) ==
    LET x == w.x
        rs == {r \in x.ranges : r.d.sid = sid /\ r.st = "WaitingResponse"}
        zs == {z \in x.sizes : z.sid = sid}
        a == Asserted(w, ~Verifies(w.c))
    IN  IF x.slot.lock # 0 /\ x.slot.sid = sid
        THEN LET new == NewTransfer(a, [NoRange EXCEPT !.sid = sid,
                            !.file = x.slot.file, !.first = x.slot.len,
                            !.size = x.slot.size])
                 r == [lock |-> x.slot.lock, st |-> "WaitingResponse",
                       d |-> new.d]
             IN  IF ok THEN LockedChunk([new EXCEPT !.d = w.d, !.x.slot = NoSlot],
                                        r, n, last)
                 ELSE [a EXCEPT !.x.slot = NoSlot]
        ELSE IF rs # {}
        THEN LET r == CHOOSE r \in rs : TRUE
             IN  IF ok THEN LockedChunk(a, r, n, last) ELSE BreakRanges(a, {r})
        ELSE IF zs # {}
        THEN LET z == CHOOSE z \in zs : TRUE
                 known == Asserted(a, ok => HasLock(x.locks, z.lock))
                 g == [known EXCEPT !.x.sizes = @ \ {z}]
             IN  IF ok /\ HasLock(x.locks, z.lock)
                 THEN [g EXCEPT !.x.locks[FirstLock(x.locks, z.lock)]
                                    .files[z.file] = total]
                 ELSE g
        ELSE Throw(a)

\* The response to sid begins a transfer, which takes a new number (bound).
Begins(c, sid) ==
    IF can_lock THEN ctx[c].slot.lock # 0 /\ ctx[c].slot.sid = sid
    ELSE ctx[c].st = "RequestedRange"

\* q is the request, total the length of its answer.
filecontents_response(c, q, ok, n, last, total) ==
    /\ Active(c)
    /\ IF Silent(c) THEN q \in ctx[c].asked
       ELSE /\ ok /\ msg[c].kind = "file"
            /\ q \in ctx[c].asked /\ q.sid = msg[c].sid /\ total = msg[c].left
    /\ IF ~q.range THEN last /\ total \in Sizes
       ELSE total <= q.len /\ n <= total /\ last = (n = total)
    /\ ~ok => last /\ n = total
    /\ last \/ n > 0
    /\ Begins(c, q.sid) => Fresh(valid) # {}
    /\ LET w == [Work(c) EXCEPT !.x.asked = IF last THEN @ \ {q} ELSE @]
       IN  Apply(IF can_lock THEN LockedResponse(w, q.sid, ok, n, last, total)
                 ELSE IF ok THEN NoLockResponse(w, q.sid, n, last, total)
                 ELSE NoLockFail(w))
    /\ msg' = [msg EXCEPT ![c] =
                 IF last THEN NoMsg
                 ELSE [kind |-> "file", left |-> total - n, sid |-> q.sid]]
    /\ UNCHANGED can_lock

-----------------------------------------------------------------------------
(***************************************************************************)
(* The service gives its verdict on transfer n.  The lists of the          *)
(* transfers that are over come first, then the two contexts.              *)
(***************************************************************************)
\* A text that is verified takes any verdict that reaches its context.
Concerns(c, n) ==
    \/ ctx[c].st \in {"TextAccumulate", "WaitingTextValidator"}
    \/ /\ ctx[c].st \in {"Text", "GetRange", "WaitingFileValidator", "Range",
                         "WaitingContinuationRange"}
       /\ data[c].vid = n
    \/ \E r \in ctx[c].ranges : r.d.vid = n

dlp_update_file_rng(w, ok) ==
    [w EXCEPT !.d.vid = 0, !.d.verdict = IF ok THEN "Success" ELSE "Failure"]

ReleaseText(w) == InitEmpty(PassText([w EXCEPT !.x.clen = 0]))

RejectTextForgets(w) ==  \* the rest of the text goes on
    InitEmpty(w)

RejectText(w) == SetState(w, {"TextAccumulate"}, "RejectedText")

process_clip(w, n, ok) ==
    LET st == w.x.st
        f == close_file_rng_tfl(dlp_update_file_rng(w, ok))
    IN  CASE st = "TextAccumulate" ->
               IF ok THEN ReleaseText(w) ELSE RejectText(w)
          [] st = "WaitingTextValidator" ->
               IF ok THEN ReleaseText(w) ELSE InitEmpty(w)
          [] st = "Text" /\ w.d.vid = n -> InitEmpty(w)
          [] st \in {"GetRange", "Range", "WaitingContinuationRange"}
                 /\ w.d.vid = n -> dlp_update_file_rng(w, ok)
          [] st = "WaitingFileValidator" /\ w.d.vid = n ->
               IF ok THEN SetState(filecontents_response_data(f),
                                   {"WaitingFileValidator"}, "SyncRange")
               ELSE InitEmpty(ZeroData(f))
          [] OTHER ->
               [w EXCEPT !.x.ranges =
                   {IF r.d.vid = n THEN [r EXCEPT !.d.vid = 0] ELSE r : r \in @}]

\* A transfer in file_validator_list: its recording is kept or cancelled.
process_listed(v, n, ok) ==
    LET e == CHOOSE e \in v.files : e.id = n
    IN  [v EXCEPT !.files = @ \ {e},
           !.tfl = IF e.tfl = 0 THEN @
                   ELSE [@ EXCEPT ![e.tfl] =
                           IF opt.always \/ ~ok THEN "stored" ELSE "cancelled"]]

Answer(v, n, ok) == [v EXCEPT !.res[n] = IF ok THEN "accept" ELSE "reject"]

\* Transfer n belongs to locked_data and is not over.
RangeWaits(n) == \E c \in Sides : \E r \in ctx[c].ranges : r.d.vid = n

\* History: recordings of rejected files, which are to be kept.  A transfer of
\* locked_data is told nothing of its verdict: it counts if all are kept.
Rejected(s, n, ok) ==
    IF ~ok /\ valid.tfl[n] = "open" /\ (opt.always \/ ~RangeWaits(n))
    THEN [s EXCEPT !.keep = @ \cup {n}] ELSE s

DLP_antivirus_check_channels_files(n, ok) ==
    /\ Running
    /\ valid.svc[n] \in {"open", "eof"} \cup (IF opt.late THEN {"abort"} ELSE {})
    /\ valid.res[n] = "none"
    /\ LET v == Answer(valid, n, ok)
           with == {c \in Sides : Concerns(c, n)}
           c == IF "client" \in with THEN "client" ELSE "server"
       IN  IF n \in v.texts \/ \E e \in v.files : e.id = n
           THEN /\ valid' = IF n \in v.texts THEN [v EXCEPT !.texts = @ \ {n}]
                            ELSE process_listed(v, n, ok)
                /\ seen' = Rejected(seen, n, ok)
                /\ UNCHANGED <<opt, ctx, data, phase>>
           ELSE IF with = {}
           THEN valid' = v /\ UNCHANGED <<opt, ctx, data, phase, seen>>
           ELSE Apply(process_clip([Work(c) EXCEPT !.v = v,
                          !.s = Rejected(seen, n, ok)], n, ok))
    /\ UNCHANGED <<can_lock, msg>>

-----------------------------------------------------------------------------
(***************************************************************************)
(* The destructor, at the end of the session or after an error.  Its own   *)
(* assertions are not followed.                                            *)
(***************************************************************************)
close_rng(w) ==
    IF w.d.tfl = 0 THEN w
    ELSE [SigBroken(w) EXCEPT !.v.tfl[w.d.tfl] = "stored"]

close_clip(w) ==
    LET d == CASE w.x.st = "Empty" -> w
               [] w.x.st \in {"GetRange", "WaitingFileValidator",
                     "RequestedSyncRange", "SyncRange", "Range",
                     "WaitingContinuationRange"} -> InitEmpty(close_rng(w))
               [] OTHER -> InitEmpty(w)
    IN  [d EXCEPT !.v.tfl = [n \in Ids |->
                     IF \E r \in w.x.ranges : r.d.tfl = n THEN "stored" ELSE @[n]]]

CloseListed(v) ==
    [v EXCEPT !.tfl = [n \in Ids |-> IF \E e \in v.files : e.tfl = n
                                     THEN "stored" ELSE v.tfl[n]]]

Destructor ==
    /\ phase \in {"run", "thrown"}
    /\ LET c == close_clip([Work("client") EXCEPT !.v = CloseListed(valid)])
           s == close_clip([Work("server") EXCEPT !.v = c.v, !.s = c.s])
       IN  valid' = s.v
    /\ phase' = "closed"
    /\ ctx' = [c \in Sides |-> NoContext]
    /\ data' = [c \in Sides |-> NoRange]
    /\ can_lock' = FALSE
    /\ msg' = [c \in Sides |-> NoMsg]
    /\ UNCHANGED <<opt, seen>>

\* As built, or as after the exchange of capabilities when both sides lock.
Init ==
    /\ opt \in Options
    /\ ctx = [c \in Sides |-> [NoContext EXCEPT
                !.lock = IF opt.locking THEN "Enabled" ELSE "Disabled"]]
    /\ data = [c \in Sides |-> NoRange]
    /\ can_lock = opt.locking
    /\ valid = [svc |-> [n \in Ids |-> "free"], res |-> [n \in Ids |-> "none"],
                tfl |-> [n \in Ids |-> "free"], files |-> {}, texts |-> {}]
    /\ msg = [s \in Sides |-> NoMsg]
    /\ phase = "run"
    /\ seen = [assertion |-> FALSE, file |-> FALSE, text |-> FALSE, keep |-> {}]

Requests == [sid : opt.streams, range : opt.ranges, file : {1, 2}, pos : 0 .. MaxFile,
             len : opt.lens,
             lock : IF can_lock THEN Locks \cup {0} ELSE {0}]

Next ==
    \/ \E c \in Sides :
         \/ \E b \in BOOLEAN : clip_caps(c, b)
         \/ \E complete, hasFiles \in BOOLEAN : format_list(c, complete, hasFiles)
         \/ format_list_response(c)
         \/ \E l \in Locks : lock(c, l) \/ unlock(c, l)
         \/ \E f \in opt.formats : format_data_request(c, f)
         \/ format_data_response_fail(c)
         \/ \E first, last, big \in BOOLEAN, fs \in opt.lists \cup {<< >>} :
              format_data_response(c, first, last, fs, big)
         \/ \E q \in Requests : filecontents_request(c, q)
         \/ \E q \in ctx[c].asked, ok, last \in BOOLEAN :
              \E total \in 0 .. MaxFile \cup Sizes, n \in 0 .. MaxFile :
                filecontents_response(c, q, ok, n, last, total)
    \/ \E n \in Ids, ok \in BOOLEAN : DLP_antivirus_check_channels_files(n, ok)
    \/ Destructor

Spec == Init /\ [][Next]_vars

-----------------------------------------------------------------------------
RangeType(d) ==
    /\ d.vid \in {0} \cup Ids /\ d.own \in {0} \cup Ids
    /\ d.tfl \in {0} \cup Ids
    /\ d.off \in Nat /\ d.req \in Nat /\ d.size \in Nat
    /\ d.sig \in {"Update", "Final", "Broken"}
    /\ d.verdict \in {"Wait", "Failure", "Success"}

\* Types; the numbers of a transfer never go below zero.
TypeOK ==
    /\ can_lock \in BOOLEAN
    /\ phase \in {"run", "thrown", "closed"}
    /\ \A c \in Sides :
         /\ ctx[c].st \in States
         /\ ctx[c].lock \in {"Disabled", "Enabled", "HasLock", "LockIsUsed"}
         /\ ctx[c].clen \in Nat /\ ctx[c].cpos \in 0 .. ctx[c].clen
         /\ RangeType(data[c])
         /\ \A r \in ctx[c].ranges : RangeType(r.d)
    /\ \A n \in Ids :
         /\ valid.svc[n] \in {"free", "none", "open", "eof", "abort"}
         /\ valid.res[n] \in {"none", "accept", "reject"}
         /\ valid.tfl[n] \in {"free", "none", "open", "stored", "cancelled"}

(* Conditions on the configuration o under which some of the properties hold. *)

\* The sides never agree on locks.
Unlocked(o) == o.vfile # {} \/ (~o.locking /\ \A b \in o.caps : ~b[2])

\* A text that is verified takes any verdict that reaches its context: either
\* there is none, or only one transfer at a time and no late verdict.
Faithful(o) ==
    \/ o.vtext = {}
    \/ Unlocked(o) /\ ~o.late /\ \E c \in Sides : o.active \subseteq {c}

\* The transfer states stay apart: there is neither text nor lock, or no side
\* requests a file between two chunks of a list or a text.
Calm(o) == ~o.overlap \/ (o.text = {} /\ Unlocked(o))

\* No assertion of a handler fails: the transitions of the transfer states and
\* of the signature, the buffer, the locks, and what is said to the service
\* about an identifier (nothing after its end).  One case is excepted: where
\* texts are sent to the service or files are locked, a request for a file
\* between two chunks of a list or a text leaves a state in which the next
\* chunk reaches the assert(false) of process_format_data_response.
AssertionsHold == Calm(opt) => ~seen.assertion

\* With block_invalid_file, no unit of a file goes to the other side before
\* the service has accepted that very file.
FileVerified == ~seen.file

\* With block_invalid_clipboard_text, no text goes to the other side before
\* the service has accepted that very text.
TextVerified == ~seen.text

\* A recording of a file that the service rejects is not thrown away.  Two cases
\* are excepted: a file of locked_data that is rejected before its transfer is
\* over, whose verdict process_clip drops and whose recording the end of the
\* transfer cancels unless all are kept; and a text that takes the verdict on a
\* file (Faithful).
RejectedKept ==
    opt.always \/ Faithful(opt) =>
        \A n \in seen.keep : valid.tfl[n] \in {"open", "stored"}

Recorders(n) ==
    {<<c, "nolock">> : c \in {c \in Sides : data[c].tfl = n}}
    \cup {<<c, r>> : c \in Sides, r \in {r \in UNION {ctx[k].ranges : k \in Sides} :
                                          r.d.tfl = n}}
    \cup {<<"list", e>> : e \in {e \in valid.files : e.tfl = n}}

\* Every open recording has a transfer or a listed entry that will end it,
\* nothing else refers to a recording, and none outlives the channel.
RecordingOwned ==
    \A n \in Ids :
      IF phase = "closed" THEN valid.tfl[n] # "open"
      ELSE IF valid.tfl[n] = "open" THEN Recorders(n) # {}
      ELSE Recorders(n) = {}

Validating == {"Text", "TextAccumulate", "WaitingTextValidator", "Range",
               "GetRange", "WaitingContinuationRange", "WaitingFileValidator"}

Expects(n) ==
    \/ n \in valid.texts
    \/ \E e \in valid.files : e.id = n
    \/ \E c \in Sides : \/ (ctx[c].st \in Validating /\ data[c].vid = n)
                         \/ \E r \in ctx[c].ranges : r.d.vid = n

\* A verdict that is still to come has its transfer, and a transfer that
\* waits has its verdict still to come: none is lost or given to another.
VerdictExpected ==
    phase = "run" =>
      /\ \A n \in Ids : valid.svc[n] \in {"open", "eof"} /\ valid.res[n] = "none"
                         => Expects(n)
      /\ \A c \in Sides :
           ctx[c].st \in {"WaitingFileValidator", "WaitingTextValidator"}
             => valid.res[data[c].vid] = "none"

\* A response whose header was sent to the other side is completed, with the
\* data or with zeros, unless that side asked for something else meanwhile
\* or the file is larger than max_file_size_rejected.
ResponseCompleted ==
    phase = "run" =>
      \A c \in Sides : ctx[c].owed =>
        \/ ctx[c].st \in {"GetRange", "WaitingFileValidator"}
        \/ ctx[c].cut \/ data[c].size > MaxFile
====
