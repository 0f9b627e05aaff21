----------------------------- MODULE FallbackDecode ---------------------------
(***************************************************************************)
(* The recursive decoder of msgpack/fallback.py as a function of the bytes *)
(* it has: _read_header() and _unpack() on a buffer that is fed once.  It  *)
(* is the second implementation of the format in the repository, written   *)
(* independently of the C parser, and serves as its reference.             *)
(***************************************************************************)
EXTENDS Values

CONSTANT RecursionLimit  \* nested calls of _unpack() before RecursionError

(* next is _buff_i when the decoder stops, counted from 1.                 *)
Good(obj, next) == [status |-> "ok", obj |-> obj, next |-> next]
Bad(status, next) == [status |-> status, obj |-> Null, next |-> next]

(* _reserve(need) at next, for which the bytes are not there. *)
Short(next, need) ==
  [status |-> "OutOfData", obj |-> Null, next |-> next, need |-> need]

(* What _read_header() returns: a complete scalar, or a container to read. *)
Scalar(v, next) == [status |-> "ok", typ |-> "VALUE", n |-> 0, obj |-> v, next |-> next]
Container(typ, count, limit, next) ==
  [status |-> IF count > limit THEN "ValueError" ELSE "ok",
   typ |-> typ, n |-> count, obj |-> Null, next |-> next]

(* _read_header() at position i of the sequence d.  A payload is read only *)
(* after its length has been checked.  skipping leaves payloads unread.    *)
ReadHeader(d, i, user, skipping) ==
  LET b == d[i]
      have(k) == i + k <= Len(d)
      bytes(from, k) == SubSeq(d, i + from, i + from + k - 1)
      made(v, next) == IF skipping THEN Scalar(Null, next)
                       ELSE IF v \in {Fail, Malformed} THEN Bad("ValueError", next)
                       ELSE Scalar(v, next)
      number(size, v) == IF have(size) THEN Scalar(v, i + 1 + size)
                                       ELSE Short(i + 1, size)
      \* size bytes of length and extra of type code, then the payload
      long(size, extra, limit, make(_, _)) ==
        IF ~have(size + extra) THEN Short(i + 1, size + extra)
        ELSE LET l == IF size = 0 THEN b % 32 ELSE Length(bytes(1, size))
                 body == i + 1 + size + extra
             IN IF l > limit THEN Bad("ValueError", body)
                ELSE IF l = Huge \/ ~have(size + extra + l) THEN Short(body, l)
                ELSE made(make(bytes(1 + size, extra), bytes(1 + size + extra, l)), body + l)
      text(e, s) == Text(user.raw, s)
      binary(e, s) == <<"bytes", s>>
      extension(e, s) == Extension(e[1], s)
      fixext(size) ==
        IF user.max_ext_len < size THEN Bad("ValueError", i + 1)
        ELSE IF ~have(size + 1) THEN Short(i + 1, size + 1)
        ELSE made(Extension(d[i + 1], bytes(2, size)), i + 2 + size)
      counted(typ, size, limit) ==
        IF have(size) THEN Container(typ, Length(bytes(1, size)), limit, i + 1 + size)
                      ELSE Short(i + 1, size)
  IN IF i > Len(d) THEN Short(i, 1)
     ELSE CASE b < 128           -> Scalar(Unsigned(<<b>>), i + 1)
            [] b >= 224          -> Scalar(Signed(<<b>>), i + 1)
            [] b \in 160 .. 191  -> long(0, 0, user.max_str_len, text)
            [] b \in 144 .. 159  -> Container("ARRAY", b % 16, user.max_array_len, i + 1)
            [] b \in 128 .. 143  -> Container("MAP", b % 16, user.max_map_len, i + 1)
            [] b = 192           -> Scalar(<<"nil">>, i + 1)
            [] b = 194           -> Scalar(<<"bool", FALSE>>, i + 1)
            [] b = 195           -> Scalar(<<"bool", TRUE>>, i + 1)
            [] b \in 196 .. 198  -> long(2 ^ (b - 196), 0, user.max_bin_len, binary)
            [] b \in 199 .. 201  -> long(2 ^ (b - 199), 1, user.max_ext_len, extension)
            [] b = 202           -> number(4, <<"float", bytes(1, 4)>>)
            [] b = 203           -> number(8, <<"float", bytes(1, 8)>>)
            [] b \in 204 .. 207  -> number(2 ^ (b - 204), Unsigned(bytes(1, 2 ^ (b - 204))))
            [] b \in 208 .. 211  -> number(2 ^ (b - 208), Signed(bytes(1, 2 ^ (b - 208))))
            [] b \in 212 .. 216  -> fixext(2 ^ (b - 212))
            [] b \in 217 .. 219  -> long(2 ^ (b - 217), 0, user.max_str_len, text)
            [] b \in 220 .. 221  -> counted("ARRAY", 2 ^ (b - 219), user.max_array_len)
            [] b \in 222 .. 223  -> counted("MAP", 2 ^ (b - 221), user.max_map_len)
            [] b = 193           -> Bad("FormatError", i + 1)

-------------------------------------------------------------------------------
(* _unpack(): depth calls are open.  The items of a container are read     *)
(* into acc one after the other.                                           *)
RECURSIVE Unpack(_, _, _, _, _), Items(_, _, _, _, _, _, _)

WithHook(hook, v) == IF hook THEN <<"hook", v>> ELSE v

(* The container is complete: its hook is called. *)
Finished(typ, acc, user, skipping) ==
  CASE skipping        -> Null
    [] typ = "ARRAY"   -> WithHook(user.list_hook, acc)
    [] user.pairs_hook -> WithHook(TRUE, acc)
    [] OTHER           -> WithHook(user.object_hook, acc)

(* The strict_map_key test is made as soon as the key is read, and only    *)
(* when no object_pairs_hook is set.                                       *)
Items(d, i, typ, left, acc, user, state) ==
  LET skipping == state[1]
      depth == state[2]
      one == Unpack(d, i, user, skipping, depth + 1)
      two == Unpack(d, one.next, user, skipping, depth + 1)
      rest(v, next) == Items(d, next, typ, left - 1, v, user, state)
  IN IF left = 0 THEN Good(Finished(typ, acc, user, skipping), i)
     ELSE IF one.status # "ok" THEN one
     ELSE IF typ = "ARRAY"
       THEN rest(IF skipping THEN Null ELSE <<"list", Append(acc[2], one.obj)>>, one.next)
     ELSE IF ~skipping /\ ~user.pairs_hook /\ user.strict_map_key /\ ~StrictKey(one.obj)
       THEN Bad("ValueError", one.next)
     ELSE IF two.status # "ok" THEN two
     ELSE IF skipping THEN rest(Null, two.next)
     ELSE IF user.pairs_hook
       THEN rest(<<"pairs", Append(acc[2], <<one.obj, two.obj>>)>>, two.next)
     ELSE IF ~Hashable(one.obj) THEN Bad("TypeError", two.next)
     ELSE rest(WithItem(acc, one.obj, two.obj), two.next)

Unpack(d, i, user, skipping, depth) ==
  LET h == ReadHeader(d, i, user, skipping)
      start == CASE skipping         -> Null
                 [] h.typ = "ARRAY"  -> <<"list", <<>>>>
                 [] user.pairs_hook  -> <<"pairs", <<>>>>
                 [] OTHER            -> <<"dict", {}>>
  IN IF depth > RecursionLimit THEN Bad("RecursionError", i)
     ELSE IF h.status # "ok" THEN h
     ELSE IF h.typ = "VALUE" THEN Good(h.obj, h.next)
     ELSE Items(d, h.next, h.typ, h.n, start, user, <<skipping, depth>>)

Construct(d, i, user) == Unpack(d, i, user, FALSE, 1)
Skip(d, i, user)      == Unpack(d, i, user, TRUE, 1)

(* read_array_header() and read_map_header(). *)
CountOf(d, i, user, typ) ==
  LET h == ReadHeader(d, i, user, TRUE)
  IN IF h.status # "ok" THEN h
     ELSE IF h.typ # typ THEN Bad("ValueError", h.next)
     ELSE Good(<<"count", h.n>>, h.next)

(* What a method of the Unpacker makes of the bytes d it has.  __next__()  *)
(* reads as unpack() does.                                                 *)
DecodeCall(method, d, user) ==
  CASE method = "unpack"            -> Construct(d, 1, user)
    [] method = "skip"              -> Skip(d, 1, user)
    [] method = "read_array_header" -> CountOf(d, 1, user, "ARRAY")
    [] method = "read_map_header"   -> CountOf(d, 1, user, "MAP")

-------------------------------------------------------------------------------
(* unpackb(): one object and nothing after it. *)
UnpackbResult(d, user) ==
  LET r == Construct(d, 1, user)
  IN CASE r.status = "OutOfData"      -> <<"ValueError">>
       [] r.status = "RecursionError" -> <<"StackError">>
       [] r.status = "ok"             ->
            IF r.next <= Len(d)
              THEN <<"ExtraData", r.obj, SubSeq(d, r.next, Len(d))>>
              ELSE <<"ok", r.obj>>
       [] OTHER                       -> <<r.status>>
===============================================================================
