----------------------------- MODULE UnpackExecute ----------------------------
(***************************************************************************)
(* unpack_execute() of msgpack/unpack_template.h: the resumable parser of  *)
(* the Cython module.  One call reads data[off .. len-1]; when the bytes   *)
(* run out inside an object it returns 0 with everything it needs to go on *)
(* in the context (cs, trail and the stack of open containers), and the    *)
(* next call, with more bytes at the same offset, continues there.         *)
(*                                                                         *)
(* One step of the model is one byte of a header, one length or payload,   *)
(* or one delivery of a finished object to the innermost open container.   *)
(* The module holds actions for others to compose; data and len are theirs *)
(* to change.                                                              *)
(***************************************************************************)
EXTENDS Values

CONSTANTS
  EmbedStackSize,  \* MSGPACK_EMBED_STACK_SIZE
  HooksRaise       \* whether a hook may raise

VARIABLES
  data, len, off,  \* the arguments: an array, its length, the position
  user,            \* ctx->user: the options
  cs,              \* ctx->cs: what the next bytes are
  trail,           \* ctx->trail: how many of them are needed
  stack,           \* ctx->stack[0 .. top-1]: the open containers
  root,            \* ctx->stack[0].obj once an object is complete
  at,              \* where execution is: "idle", "loop" or "push"
  construct,       \* build objects, or only skip over them
  p,               \* the byte being read
  obj,             \* the object just completed
  ret              \* what the last call returned: "object" for 1, "more"
                   \* for 0, "format" for -2, "stack" for -3, and for -1
                   \* "raised" or, with no Python exception set, "failed"

ctx   == <<cs, trail, stack, root>>
local == <<at, construct, p, obj, ret>>

-------------------------------------------------------------------------------
(* Codes of ctx->cs: the low five bits of the header byte, and three more. *)
CS_HEADER     == 0
CS_BIN        == 4 .. 6
CS_EXT        == 7 .. 9
CS_FLOAT      == 10 .. 11
CS_UINT       == 12 .. 15
CS_INT        == 16 .. 19
CS_RAW        == 25 .. 27
CS_ARRAY      == 28 .. 29
CS_MAP        == 30 .. 31
ACS_RAW_VALUE == 32
ACS_BIN_VALUE == 33
ACS_EXT_VALUE == 34
NEXT_CS(b)    == b % 32

top == Len(stack)
here == data[p]

(* unpack_init() *)
InitContext ==
  /\ cs = CS_HEADER
  /\ trail = 0
  /\ stack = <<>>
  /\ root = Null

(* Variant of ResetContext: the state of the last object is kept. *)
KeptState ==
  /\ stack' = <<>>
  /\ root' = Null
  /\ UNCHANGED <<cs, trail>>

ResetContext ==
  /\ cs' = CS_HEADER
  /\ trail' = 0
  /\ stack' = <<>>
  /\ root' = Null

(* The _end label: ctx keeps what the next call needs. *)
Return(r, q) ==
  /\ at' = "idle"
  /\ ret' = r
  /\ p' = q
  /\ off' = q

(* A call: with no byte to read it returns at once. *)
Enter(building) ==
  /\ at = "idle"
  /\ construct' = building
  /\ obj' = Null
  /\ IF off = len THEN Return("more", off)
                  ELSE at' = "loop" /\ p' = off /\ UNCHANGED <<off, ret>>
  /\ UNCHANGED ctx

(* Variant of HeaderAgain: the byte at q is read again. *)
HeaderAgainHere(q) ==
  /\ cs' = CS_HEADER
  /\ IF q = len THEN Return("more", q)
                ELSE at' = "loop" /\ p' = q /\ UNCHANGED <<off, ret>>

(* _header_again: past the byte at q to the next header. *)
HeaderAgain(q) ==
  /\ cs' = CS_HEADER
  /\ IF q + 1 = len THEN Return("more", q + 1)
                    ELSE at' = "loop" /\ p' = q + 1 /\ UNCHANGED <<off, ret>>

(* goto _push with the object v made by a callback, or _failed. *)
Push(v, q) ==
  CASE v = Fail      -> Return("raised", q) /\ UNCHANGED obj
    [] v = Malformed -> Return("failed", q) /\ UNCHANGED obj
    [] OTHER         -> /\ at' = "push" /\ p' = q /\ obj' = v
                        /\ UNCHANGED <<off, ret>>

(* What a callback makes: nothing when skipping. *)
Built(v) == IF construct THEN v ELSE Null

(* What a hook makes of a container: anything, or it raises. *)
Hooked(hook, v) ==
  IF construct /\ hook
    THEN {<<"hook", v>>} \cup (IF HooksRaise THEN {Fail} ELSE {})
    ELSE {Built(v)}

-------------------------------------------------------------------------------
(* Variable-length payloads, checked against the limits once complete.     *)
Raw(b) == IF Len(b) > user.max_str_len THEN Fail ELSE Text(user.raw, b)
Bin(b) == IF Len(b) > user.max_bin_len THEN Fail ELSE <<"bytes", b>>

(* The payload of an ext starts with its type code.  An ext 32 of length   *)
(* 2^32-1 arrives here with no bytes at all: length-1 wraps to the largest *)
(* unsigned int, which exceeds every limit up to Huge.                     *)
Ext(b) == IF b = <<>> \/ Len(b) - 1 > user.max_ext_len THEN Fail
          ELSE Extension(b[1], Tail(b))

Payload(acs, b) == CASE acs = ACS_RAW_VALUE -> Raw(b)
                     [] acs = ACS_BIN_VALUE -> Bin(b)
                     [] acs = ACS_EXT_VALUE -> Ext(b)

Number(b) == CASE cs \in CS_FLOAT -> <<"float", b>>
               [] cs \in CS_UINT  -> Unsigned(b)
               [] cs \in CS_INT   -> Signed(b)

Empty(ct) == CASE ct = "ARRAY_ITEM" -> <<"list", <<>>>>
               [] ct = "MAP_KEY" -> IF user.pairs_hook THEN <<"pairs", <<>>>>
                                                       ELSE <<"dict", {}>>
EndHook(ct) == IF ct = "ARRAY_ITEM" THEN user.list_hook
               ELSE user.object_hook \/ user.pairs_hook
CountLimit(ct) == IF ct = "ARRAY_ITEM" THEN user.max_array_len
                                       ELSE user.max_map_len

(* Variant of StackFull: one frame too many. *)
StackPassed == top > EmbedStackSize

StackFull == top >= EmbedStackSize

(* start_container(): an empty one is an object at once, another opens a   *)
(* frame.                                                                  *)
StartContainer(ct, count, q) ==
  \/ /\ StackFull
     /\ Return("stack", q)
     /\ UNCHANGED <<cs, stack, obj>>
  \/ /\ ~StackFull
     /\ construct /\ count > CountLimit(ct)
     /\ Return("raised", q)
     /\ UNCHANGED <<cs, stack, obj>>
  \/ /\ ~StackFull
     /\ ~(construct /\ count > CountLimit(ct))
     /\ \/ /\ count = 0
           /\ \E v \in Hooked(EndHook(ct), Empty(ct)) : Push(v, q)
           /\ UNCHANGED <<cs, stack>>
        \/ /\ count > 0
           /\ stack' = Append(stack, [ct |-> ct, size |-> count, count |-> 0,
                                      obj |-> Built(Empty(ct)), map_key |-> Null])
           /\ HeaderAgain(q)
           /\ UNCHANGED obj

-------------------------------------------------------------------------------
(* cs = CS_HEADER: one byte says what comes. *)

Immediate(b) == CASE b = 192 -> <<"nil">>
                  [] b = 194 -> <<"bool", FALSE>>
                  [] b = 195 -> <<"bool", TRUE>>
                  [] b < 128 -> Unsigned(<<b>>)
                  [] b > 223 -> Signed(<<b>>)
IsImmediate(b) == b < 128 \/ b > 223 \/ b \in {192, 194, 195}

(* The next state and the number of bytes it needs. *)
IsLong(b) == b \in 160 .. 191 \/ b \in 196 .. 223
Next_(b) ==
  CASE b \in 160 .. 191 -> <<ACS_RAW_VALUE, b % 32>>
    [] b \in 196 .. 198 -> <<NEXT_CS(b), 2 ^ (b - 196)>>
    [] b \in 199 .. 201 -> <<NEXT_CS(b), 2 ^ (b - 199)>>
    [] b \in 202 .. 211 -> <<NEXT_CS(b), 2 ^ (b % 4)>>
    [] b \in 212 .. 215 -> <<ACS_EXT_VALUE, 2 ^ (b % 4) + 1>>
    [] b = 216          -> <<ACS_EXT_VALUE, 16 + 1>>
    [] b = 217          -> <<NEXT_CS(b), 1>>
    [] b \in 218 .. 223 -> <<NEXT_CS(b), 2 * 2 ^ (b % 2)>>

AtHeader == at = "loop" /\ cs = CS_HEADER

(* again_fixed_trail_if_zero(): no bytes to wait for, so the payload is    *)
(* complete at q and cs stays as it was.                                   *)
Again(acs, count, q) ==
  /\ trail' = count
  /\ IF count = 0
       THEN Push(Built(Payload(acs, <<>>)), q) /\ UNCHANGED cs
       ELSE /\ cs' = acs
            /\ p' = q + 1
            /\ UNCHANGED <<at, off, ret, obj>>

HeaderImmediate ==
  /\ AtHeader /\ IsImmediate(here)
  /\ Push(Built(Immediate(here)), p)
  /\ UNCHANGED <<cs, trail, stack>>

HeaderLong ==
  /\ AtHeader /\ IsLong(here)
  /\ Again(Next_(here)[1], Next_(here)[2], p)
  /\ UNCHANGED stack

HeaderContainer ==
  /\ AtHeader /\ here \in 128 .. 159
  /\ StartContainer(IF here >= 144 THEN "ARRAY_ITEM" ELSE "MAP_KEY", here % 16, p)
  /\ UNCHANGED trail

HeaderNeverUsed ==
  /\ AtHeader /\ here = 193
  /\ Return("format", p)
  /\ UNCHANGED <<cs, trail, stack, obj>>

-------------------------------------------------------------------------------
(* The bytes the next step reads. *)
Needed == IF cs = CS_HEADER THEN 1 ELSE trail

(* Any other cs: trail bytes are needed; n are those bytes, q the last.    *)
AtTrail == at = "loop" /\ cs # CS_HEADER
Complete == len - p >= trail
n == [i \in 1 .. trail |-> data[p + i - 1]]
q == p + trail - 1

(* Variant of ExtTrail: the type code is not counted. *)
ExtLength(b) == Length(b)

(* An ext's payload is one byte longer than its length: the sum is a       *)
(* uint32_t and wraps.                                                     *)
ExtTrail(b) == IF b = <<255, 255, 255, 255>> THEN 0
               ELSE IF Length(b) = Huge THEN Huge ELSE Length(b) + 1

(* Variant of TrailShort: waits for bytes that cannot come. *)
TrailSpin ==
  /\ AtTrail /\ ~Complete
  /\ UNCHANGED <<cs, trail, stack, obj, at, p, off, ret>>

(* Variant of TrailShort: the bytes that are there are passed over. *)
TrailSwallowed ==
  /\ AtTrail /\ ~Complete
  /\ Return("more", len)
  /\ UNCHANGED <<cs, trail, stack, obj>>

TrailShort ==
  /\ AtTrail /\ ~Complete
  /\ Return("more", p)
  /\ UNCHANGED <<cs, trail, stack, obj>>

TrailLength ==
  /\ AtTrail /\ Complete
  /\ \/ cs \in CS_EXT /\ Again(ACS_EXT_VALUE, ExtTrail(n), q)
     \/ cs \in CS_BIN /\ Again(ACS_BIN_VALUE, Length(n), q)
     \/ cs \in CS_RAW /\ Again(ACS_RAW_VALUE, Length(n), q)
  /\ UNCHANGED stack

TrailNumber ==
  /\ AtTrail /\ Complete
  /\ cs \in CS_FLOAT \cup CS_UINT \cup CS_INT
  /\ Push(Built(Number(n)), q)
  /\ UNCHANGED <<cs, trail, stack>>

TrailPayload ==
  /\ AtTrail /\ Complete
  /\ cs \in {ACS_RAW_VALUE, ACS_BIN_VALUE, ACS_EXT_VALUE}
  /\ Push(Built(Payload(cs, n)), q)
  /\ UNCHANGED <<cs, trail, stack>>

TrailContainer ==
  /\ AtTrail /\ Complete
  /\ \/ cs \in CS_ARRAY /\ StartContainer("ARRAY_ITEM", Length(n), q)
     \/ cs \in CS_MAP /\ StartContainer("MAP_KEY", Length(n), q)
  /\ UNCHANGED trail

-------------------------------------------------------------------------------
(* _push: obj goes to the innermost open container, and is forgotten when  *)
(* the next header is read: the code assigns it again before it looks.     *)
AtPush == at = "push"
frame == stack[top]

(* unpack_callback_map_item(): the key is checked only when the value is   *)
(* there too.                                                              *)
MapItem(o, k, v) ==
  CASE user.strict_map_key /\ ~StrictKey(k) -> Fail
    [] user.pairs_hook                      -> <<"pairs", Append(o[2], <<k, v>>)>>
    [] ~Hashable(k)                         -> Fail
    [] OTHER                                -> WithItem(o, k, v)

ArrayItem(o, v) == <<"list", Append(o[2], v)>>

(* The container with obj added. *)
Extended == IF frame.ct = "ARRAY_ITEM" THEN ArrayItem(frame.obj, obj)
            ELSE MapItem(frame.obj, frame.map_key, obj)

(* The innermost frame replaced by f. *)
WithTop(f) == [stack EXCEPT ![top] = f]

(* The innermost frame once it holds the container with obj added. *)
Filled == [frame EXCEPT !.obj = Built(Extended), !.count = @ + 1]

(* Variant of Last: the count is compared before it is incremented. *)
LastAfter == frame.count = frame.size

(* ++c->count == c->size *)
Last == frame.count + 1 = frame.size

PushKey ==
  /\ AtPush /\ top > 0 /\ frame.ct = "MAP_KEY"
  /\ stack' = WithTop([frame EXCEPT !.map_key = obj, !.ct = "MAP_VALUE"])
  /\ HeaderAgain(p)
  /\ obj' = Null
  /\ UNCHANGED trail

PushRefused ==
  /\ AtPush /\ top > 0 /\ frame.ct # "MAP_KEY"
  /\ Built(Extended) = Fail
  /\ Return("raised", p)
  /\ UNCHANGED <<cs, trail, stack, obj>>

PushItem ==
  /\ AtPush /\ top > 0 /\ frame.ct # "MAP_KEY"
  /\ Built(Extended) # Fail
  /\ ~Last
  /\ stack' = WithTop([Filled EXCEPT
                         !.ct = IF @ = "MAP_VALUE" THEN "MAP_KEY" ELSE @])
  /\ HeaderAgain(p)
  /\ obj' = Null
  /\ UNCHANGED trail

(* The last item closes the container, which is the next object to push,   *)
(* unless its hook raises: the frame then stays, full.                     *)
PushLast ==
  /\ AtPush /\ top > 0 /\ frame.ct # "MAP_KEY"
  /\ Built(Extended) # Fail
  /\ Last
  /\ \E v \in Hooked(EndHook(IF frame.ct = "ARRAY_ITEM" THEN frame.ct ELSE "MAP_KEY"),
                     Extended) :
       /\ Push(v, p)
       /\ stack' = IF v = Fail THEN WithTop(Filled) ELSE SubSeq(stack, 1, top - 1)
  /\ UNCHANGED <<cs, trail>>

PushRoot ==
  /\ AtPush /\ top = 0
  /\ root' = IF construct THEN obj ELSE <<"nil">>
  /\ Return("object", p + 1)
  /\ UNCHANGED <<cs, trail, stack, obj>>

Step ==
  \/ /\ \/ HeaderImmediate \/ HeaderLong \/ HeaderContainer \/ HeaderNeverUsed
        \/ TrailShort \/ TrailLength \/ TrailNumber \/ TrailPayload
        \/ TrailContainer
        \/ PushKey \/ PushRefused \/ PushItem \/ PushLast
     /\ UNCHANGED <<root, construct>>
  \/ PushRoot /\ UNCHANGED construct

-------------------------------------------------------------------------------
(* Variant of HeaderIncomplete: the offset is moved before the check. *)
HeaderSwallowed ==
  /\ Return("more", len)
  /\ UNCHANGED root

(* inc_offset() with too few bytes: nothing is passed over. *)
HeaderIncomplete ==
  /\ Return("more", off)
  /\ UNCHANGED root

(* read_array_header() and read_map_header() of unpack_container_header.h: *)
(* the size of the container at off, which is passed over only when its    *)
(* header is complete.                                                     *)
ContainerHeader(fixed, var) ==
  LET b == data[off]
      size(k) == [i \in 1 .. k |-> data[off + i]]
      read(k, v) == IF len - off < k
                      THEN HeaderIncomplete
                      ELSE /\ Return("object", off + k)
                           /\ root' = <<"count", Length(v)>>
  IN /\ at = "idle"
     /\ \/ b = var /\ read(3, size(2))
        \/ b = var + 1 /\ read(5, size(4))
        \/ b \in fixed .. fixed + 15 /\ read(1, <<b % 16>>)
        \/ /\ b \notin {var, var + 1} \cup fixed .. fixed + 15
           /\ Return("raised", off)
           /\ UNCHANGED root
     /\ UNCHANGED <<cs, trail, stack, construct, obj>>

ReadArrayHeader == ContainerHeader(144, 220)
ReadMapHeader   == ContainerHeader(128, 222)

-------------------------------------------------------------------------------
(* What an open container has to be: it holds fewer items than it needs,   *)
(* and, unless it is skipped, it has an object to fill, whose items are    *)
(* those counted, and a map that waits for a value has its key.            *)
FrameOK(f) ==
  /\ f.count < f.size
  /\ construct =>
       /\ f.obj # Null
       /\ f.ct = "ARRAY_ITEM" => f.obj[1] = "list" /\ Len(f.obj[2]) = f.count
       /\ f.ct = "MAP_VALUE" => f.map_key # Null
FramesOK == \A i \in DOMAIN stack : FrameOK(stack[i])

(* What a step has to do: return, read on, or, at the same byte, come      *)
(* closer to the next: an object goes down the stack one container at a    *)
(* time.                                                                   *)
Rank == IF at = "loop" THEN EmbedStackSize + 1 ELSE top
Advances == at' = "idle" \/ p' > p \/ (p' = p /\ Rank' < Rank)
===============================================================================
