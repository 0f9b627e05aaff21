------------------------------ MODULE FallbackPack ----------------------------
(***************************************************************************)
(* The pure Python packer of msgpack/fallback.py as a function of the      *)
(* object: what _pack() writes, and the exception it ends in.              *)
(*                                                                         *)
(* An object is a tuple whose first element is its kind; <<"sub", o>> is   *)
(* an instance of a subclass of o's type, <<"user", name>> one of a type   *)
(* msgpack does not know, which default() may convert.  Numbers are byte   *)
(* strings (see Numbers).  Text is its UTF-8; "unencodable" has none.      *)
(***************************************************************************)
EXTENDS FallbackFormats

CONSTANTS
  NestLimit,  \* DEFAULT_RECURSE_LIMIT, 511 in the code
  Default(_)  \* what default() makes of an object; <<"raises">> if it raises

(* A writer called after r, if r did not raise. *)
Then(r, next) ==
  IF r.status = "ok" THEN [next EXCEPT !.out = r.out \o @] ELSE r

-------------------------------------------------------------------------------
RECURSIVE WriteObject(_, _, _, _), WriteEach(_, _, _)

WriteEach(objs, nest_limit, opt) ==
  IF objs = <<>> THEN Wrote(<<>>)
  ELSE Then(WriteObject(Head(objs), nest_limit, opt, FALSE),
            WriteEach(Tail(objs), nest_limit, opt))
WriteMapPairs(pairs, nest_limit, opt) ==
  Then(MapHeader(Size(pairs)), WriteEach(KeysAndValues(pairs), nest_limit - 1, opt))

(* _pack(): used says whether default() was called for this object.  A     *)
(* dict hands nest_limit - 1 to _pack_map_pairs(), which takes one more    *)
(* off.                                                                    *)
WriteObject(o, nest_limit, opt, used) ==
  LET s == Seen(o, opt.strict_types)
      self == WriteSelf(s, opt)
  IN IF nest_limit < 0 THEN Raised("nesting")
     ELSE IF self.asks /\ opt.default /\ ~used
       THEN IF Default(o) = <<"raises">> THEN Raised("HookError")
            ELSE WriteObject(Default(o), nest_limit, opt, TRUE)
     ELSE IF s[1] = "dict" THEN WriteMapPairs(s[2], nest_limit - 1, opt)
     ELSE Then(self, WriteEach(Parts(s), nest_limit - 1, opt))

(* The public calls: what they write, before any reset. *)
PackObject(o, opt) == WriteObject(o, NestLimit, opt, FALSE)
PackPairs(pairs, opt) == WriteMapPairs(pairs, NestLimit, opt)
===============================================================================
