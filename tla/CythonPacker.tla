------------------------------ MODULE CythonPacker ----------------------------
(***************************************************************************)
(* The Packer of msgpack/_packer.pyx and the buffer of msgpack/pack.h it   *)
(* writes to.  A call packs its objects one write after the other; todo    *)
(* holds what is still to be written and the objects still to be packed,   *)
(* in order: the pending part of the recursion of _pack().  Between two    *)
(* writes default() may run, which is Python code.                         *)
(*                                                                         *)
(* Objects are as in FallbackPack.                                         *)
(***************************************************************************)
EXTENDS PackTemplate

CONSTANTS
  NestLimit,   \* DEFAULT_RECURSE_LIMIT, 511 in the code
  BufSize,     \* the constructor's buf_size
  Default(_),  \* what default() makes of an object; <<"raises">> if it raises
  HookViews    \* whether default() may take a view of the packer

ASSUME PackerAssumption == BufSize \in Nat /\ NestLimit \in Nat

VARIABLES
  options,
  content,   \* buf[0 .. length), what was written and not handed out
  buf_size,
  exports,   \* views of the buffer that are alive
  dangling,  \* history: one of them shows memory that realloc() freed
  call,      \* the method that runs, or "none"
  todo,
  pending,   \* an exception is set that no caller has noticed
  answer     \* what the last call came to

memory == <<content, buf_size, dangling>>
running == <<call, todo, pending>>
vars == <<options, memory, exports, running, answer>>

Idle == call = "none"

Init ==
  /\ content = <<>>
  /\ buf_size = BufSize
  /\ exports = 0
  /\ dangling = FALSE
  /\ call = "none" /\ todo = <<>> /\ pending = FALSE
  /\ answer = <<"none">>

(* Entries of todo.  An unchecked write is one whose error is ignored: the *)
(* two of msgpack_pack_timestamp().                                        *)
Write(bytes, checked) ==
  [kind |-> "write", bytes |-> bytes, checked |-> checked]
Object(o, nest, asked) ==
  [kind |-> "object", obj |-> o, nest |-> nest, asked |-> asked]
Writing(inner) ==
  [i \in DOMAIN inner.writes |-> Write(inner.writes[i], inner.checked)]
Objects(os, nest) == [i \in DOMAIN os |-> Object(os[i], nest, FALSE)]

-------------------------------------------------------------------------------
Raise(e) == answer' = <<"raised", e>>

(* Variant of CheckExports: nobody looks at exports. *)
Unchecked == TRUE

CheckExports == exports = 0

(* A method that writes begins. *)
Begin(method, entries) ==
  /\ Idle
  /\ IF CheckExports
       THEN call' = method /\ todo' = entries /\ answer' = <<"none">>
       ELSE Raise("BufferError") /\ UNCHANGED <<call, todo>>
  /\ UNCHANGED <<options, memory, exports, pending>>

Refuse(e) ==
  /\ Idle
  /\ Raise(IF CheckExports THEN e ELSE "BufferError")
  /\ UNCHANGED <<options, memory, exports, running>>

Pack(o) == Begin("pack", <<Object(o, NestLimit, FALSE)>>)
PackMapPairs(pairs) ==
  Begin("pack_map_pairs",
        <<Write(pack_map(OfInt(Len(pairs))), TRUE)>>
          \o Objects(KeysAndValues(pairs), NestLimit))
PackHeader(method, size) ==
  IF Less(ITEM_LIMIT, size) THEN Refuse("ValueError")
  ELSE Begin(method, <<Write(IF method = "pack_array_header" THEN pack_array(size)
                                                             ELSE pack_map(size), TRUE)>>)
PackExtType(typecode, data) ==
  Begin("pack_ext_type", Writing(PackInner(<<"ext", typecode, data>>, options)))

Reset ==
  /\ Idle
  /\ IF CheckExports THEN content' = <<>> /\ answer' = <<"none">>
                     ELSE Raise("BufferError") /\ UNCHANGED content
  /\ UNCHANGED <<options, buf_size, dangling, exports, running>>

Bytes ==
  /\ Idle
  /\ answer' = <<"bytes", content>>
  /\ UNCHANGED <<options, memory, exports, running>>

GetBuffer ==
  /\ Idle
  /\ exports' = exports + 1
  /\ answer' = <<"view">>
  /\ UNCHANGED <<options, memory, running>>

(* A view is released when nothing refers to it any more. *)
ReleaseBuffer ==
  /\ exports > 0
  /\ exports' = exports - 1
  /\ dangling' = (dangling /\ exports > 1)
  /\ UNCHANGED <<options, content, buf_size, running, answer>>

-------------------------------------------------------------------------------
(* Variant of Kept: pack() leaves what it wrote before it raised. *)
AllKept == content

(* The call raises.  Only pack() throws away what the buffer holds.        *)
Kept == IF call = "pack" THEN <<>> ELSE content
Fail(e) ==
  /\ call' = "none" /\ todo' = <<>> /\ pending' = FALSE
  /\ Raise(e)
  /\ content' = Kept

(* Variant of Grown: the bytes to be written are forgotten. *)
GrownTo(l) == Len(content) * 2

(* The size asked of realloc() when l bytes do not fit. *)
Grown(l) == (Len(content) + l) * 2

(* msgpack_pack_write().  The old block is gone once realloc() moved it.   *)
DoWrite ==
  /\ todo # <<>> /\ Head(todo).kind = "write"
  /\ LET bytes == Head(todo).bytes
         fits == Len(content) + Len(bytes) <= buf_size
     IN \/ /\ content' = content \o bytes
           /\ IF fits THEN UNCHANGED <<buf_size, dangling>>
              ELSE /\ buf_size' = Grown(Len(bytes))
                   /\ dangling' = (exports > 0)
           /\ todo' = Tail(todo)
           /\ UNCHANGED <<call, pending, answer>>
        \/ /\ ~fits
           /\ IF Head(todo).checked THEN Fail("MemoryError")
              ELSE /\ pending' = TRUE
                   /\ todo' = Tail(todo)
                   /\ UNCHANGED <<call, content, answer>>
           /\ UNCHANGED <<buf_size, dangling>>
  /\ UNCHANGED <<options, exports>>

(* The first entry of todo gives way to others. *)
Replace(entries) ==
  /\ todo' = entries \o Tail(todo)
  /\ UNCHANGED <<call, pending, answer, content>>

(* Variant of Converted: what default() returned is an object like any     *)
(* other.                                                                  *)
Reconverted(o, nest) == Object(o, nest + 1, FALSE)

(* default() is not asked again about what it returned. *)
Converted(o, nest) == Object(o, nest, TRUE)

(* _pack() of the next object: nest_limit counts down once for the object  *)
(* and what default() makes of it.                                         *)
PackNext ==
  /\ todo # <<>> /\ Head(todo).kind = "object"
  /\ \E entry \in {Head(todo)} : \E inner \in {PackInner(entry.obj, options)} :
       LET nest == IF entry.asked THEN entry.nest ELSE entry.nest - 1 IN
       IF ~entry.asked /\ entry.nest < 0
         THEN Fail("nesting") /\ UNCHANGED exports
       ELSE IF inner.status = "ok"
         THEN Replace(Writing(inner) \o Objects(inner.parts, nest)) /\ UNCHANGED exports
       ELSE IF ~inner.unknown \/ entry.asked \/ ~options.default
         THEN Fail(inner.status) /\ UNCHANGED exports
       ELSE /\ IF Default(entry.obj) = <<"raises">> THEN Fail("HookError")
               ELSE Replace(<<Converted(Default(entry.obj), nest)>>)
            /\ exports' \in IF HookViews THEN {exports, exports + 1} ELSE {exports}
  /\ UNCHANGED <<options, buf_size, dangling>>

(* Everything is written.  With autoreset the content is handed out, but   *)
(* pack_ext_type() never does.  An exception that is still set surfaces.   *)
Finish ==
  /\ ~Idle /\ todo = <<>>
  /\ call' = "none" /\ pending' = FALSE
  /\ LET hands_out == options.autoreset /\ call # "pack_ext_type" IN
     /\ content' = IF hands_out THEN <<>> ELSE content
     /\ answer' = IF pending THEN <<"raised", "SystemError">>
                  ELSE IF hands_out THEN <<"bytes", content>> ELSE <<"none">>
  /\ UNCHANGED <<options, buf_size, dangling, exports, todo>>

Packing == DoWrite \/ PackNext \/ Finish

(* Every step there is, whatever the arguments. *)
Headers == {"pack_array_header", "pack_map_header"}
Step ==
  \/ \E o : Pack(o)
  \/ \E pairs : PackMapPairs(pairs)
  \/ \E method \in Headers : \E size : PackHeader(method, size)
  \/ \E typecode, data : PackExtType(typecode, data)
  \/ Reset \/ Bytes \/ GetBuffer \/ ReleaseBuffer
  \/ Packing

(* The write that comes next is one of bytes: every writer narrows to the  *)
(* width of its field before it stores.                                    *)
WritesBytes ==
  todo # <<>> /\ Head(todo).kind = "write" => Head(todo).bytes \in Seq(0 .. 255)

(* What is held and what comes next are byte strings, counts are naturals. *)
TypeOK ==
  /\ content \in Seq(0 .. 255)
  /\ buf_size \in Nat /\ exports \in Nat
  /\ dangling \in BOOLEAN /\ pending \in BOOLEAN
  /\ WritesBytes

(* What is written is inside the block: msgpack_pack_write() grows it in   *)
(* time, whatever was written, refused or reset before.                    *)
Bounds == Len(content) <= buf_size

(* While a view is alive the bytes it shows stay as they are and where     *)
(* they are.                                                               *)
ViewsFrozen ==
  [][exports > 0 /\ exports' > 0 => UNCHANGED <<content, dangling>>]_vars
===============================================================================
