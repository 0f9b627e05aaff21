--------------------------- MODULE CythonPackerProofs -------------------------
(***************************************************************************)
(* No view of the packer ever sees its buffer change, as long as default() *)
(* takes none; what it writes are bytes and its content stays inside the   *)
(* block: for every object, options, size of the buffer and limit.         *)
(***************************************************************************)
EXTENDS CythonPacker, FormatsProofs

(* A view can be alive only between the calls, and shows memory that is    *)
(* there: exports are tested when a call begins, and only default() could  *)
(* take a view later.                                                      *)
Quiet ==
  /\ exports \in Nat
  /\ exports > 0 => call = "none"
  /\ call = "none" => todo = <<>>
  /\ dangling = FALSE

(* Nothing is exported to begin with. *)
LEMMA InitQuiet == Init => Quiet
BY DEF Init, Quiet

(* A call that begins has seen exports = 0, or raises BufferError. *)
LEMMA BeginQuiet ==
  ASSUME Quiet, NEW method, method # "none", NEW entries, Begin(method, entries)
  PROVE  Quiet' /\ UNCHANGED <<content, dangling>>
BY DEF Quiet, Begin, CheckExports, memory, Raise

(* So does one that is refused for its argument. *)
LEMMA RefuseQuiet ==
  ASSUME Quiet, NEW e, Refuse(e)
  PROVE  Quiet' /\ UNCHANGED <<content, dangling>>
BY DEF Quiet, Refuse, memory, running

(* A write has a call to belong to, hence no view to disturb. *)
LEMMA PackingQuiet ==
  ASSUME Quiet, ~HookViews, Packing
  PROVE  Quiet' /\ exports = 0
<1> DEFINE Ended == call' = "none" /\ todo' = <<>>
<1>1. CASE DoWrite
  <2>1. call # "none" /\ exports = 0 /\ exports' = exports
    BY <1>1 DEF DoWrite, Quiet
  <2>2. call' = call \/ Ended
    BY <1>1 DEF DoWrite, Fail
  <2>3. (exports > 0) = FALSE
    BY <2>1
  <2>4. dangling' = dangling \/ dangling' = (exports > 0)
    BY <1>1, Zenon DEF DoWrite
  <2>5. dangling' = FALSE
    BY <2>3, <2>4, Zenon DEF Quiet
  <2> QED BY <2>1, <2>2, <2>5 DEF Quiet
<1>2. CASE PackNext
  <2>1. call # "none" /\ exports = 0
    BY <1>2 DEF PackNext, Quiet
  <2>2. exports' = exports /\ dangling' = dangling /\ (call' = call \/ Ended)
    BY <1>2 DEF PackNext, Fail, Replace
  <2> QED BY <2>1, <2>2 DEF Quiet
<1>3. CASE Finish
  <2>1. call # "none" /\ exports' = exports /\ dangling' = dangling /\ Ended
    BY <1>3 DEF Finish, Idle
  <2> QED BY <2>1 DEF Quiet
<1> QED BY <1>1, <1>2, <1>3 DEF Packing

(* Every step keeps Quiet and leaves alone what a view shows. *)
LEMMA StepQuiet ==
  ASSUME Quiet, ~HookViews, [Step]_vars
  PROVE  Quiet' /\ (exports > 0 /\ exports' > 0 => UNCHANGED <<content, dangling>>)
<1>1. CASE \E o : Pack(o)
  BY <1>1, BeginQuiet DEF Pack
<1>2. CASE \E pairs : PackMapPairs(pairs)
  BY <1>2, BeginQuiet DEF PackMapPairs
<1>3. CASE \E method \in Headers : \E size : PackHeader(method, size)
  BY <1>3, BeginQuiet, RefuseQuiet DEF PackHeader, Headers
<1>4. CASE \E typecode, data : PackExtType(typecode, data)
  BY <1>4, BeginQuiet DEF PackExtType
<1>5. CASE Reset
  BY <1>5 DEF Reset, CheckExports, Quiet, running, memory
<1>6. CASE Bytes
  BY <1>6 DEF Bytes, Quiet, running, memory
<1>7. CASE GetBuffer
  BY <1>7 DEF GetBuffer, Quiet, running, memory, Idle
<1>8. CASE ReleaseBuffer
  <2>1. dangling' = FALSE
    BY <1>8, Zenon DEF ReleaseBuffer, Quiet
  <2>2. exports' \in Nat /\ UNCHANGED <<content, call, todo>>
    BY <1>8 DEF ReleaseBuffer, Quiet, running
  <2>3. exports > 0
    BY <1>8 DEF ReleaseBuffer
  <2> QED BY <2>1, <2>2, <2>3 DEF Quiet
<1>9. CASE Packing
  BY <1>9, PackingQuiet
<1>10. CASE UNCHANGED vars
  BY <1>10 DEF vars, memory, running, Quiet
<1> QED
  BY <1>1, <1>2, <1>3, <1>4, <1>5, <1>6, <1>7, <1>8, <1>9, <1>10 DEF Step

(* A memoryview of the packer is never overtaken by a call: BufferError is *)
(* raised in time, unless default() itself takes the view.                 *)
THEOREM ViewsFrozenAlways ==
  ASSUME ~HookViews
  PROVE  Init /\ [][Step]_vars => ViewsFrozen
<1>1. Init => Quiet
  BY InitQuiet
<1>2. Quiet /\ [Step]_vars => Quiet'
  BY StepQuiet
<1>3. Quiet /\ [Step]_vars
        => [exports > 0 /\ exports' > 0 => UNCHANGED <<content, dangling>>]_vars
  BY StepQuiet
<1> QED
  BY <1>1, <1>2, <1>3, PTL DEF ViewsFrozen

-------------------------------------------------------------------------------
(* The content is a byte string inside the block. *)
InBlock == content \in Seq(0 .. 255) /\ buf_size \in Nat /\ Bounds

(* The block the constructor allocates holds nothing. *)
LEMMA InitInBlock == Init => InBlock
<1> SUFFICES ASSUME Init PROVE InBlock
  OBVIOUS
<1>1. content = <<>> /\ buf_size = BufSize
  BY DEF Init
<1>2. <<>> \in Seq(0 .. 255) /\ Len(<<>>) = 0
  OBVIOUS
<1> QED BY <1>1, <1>2, PackerAssumption DEF InBlock, Bounds

(* Content that is kept or thrown away stays inside a block that is kept. *)
LEMMA KeptInBlock ==
  ASSUME InBlock, buf_size' = buf_size, content' = content \/ content' = <<>>
  PROVE  InBlock'
<1>1. <<>> \in Seq(0 .. 255) /\ Len(<<>>) = 0
  OBVIOUS
<1>2. CASE content' = content
  BY <1>2 DEF InBlock, Bounds
<1>3. CASE content' = <<>>
  BY <1>1, <1>3 DEF InBlock, Bounds
<1> QED BY <1>2, <1>3

(* msgpack_pack_write() of a byte string: it fits, or realloc() is asked   *)
(* for twice what is needed, or nothing is written.                        *)
LEMMA WriteInBlock ==
  ASSUME InBlock, WritesBytes, DoWrite
  PROVE  InBlock'
<1> DEFINE bytes == Head(todo).bytes
           fits == Len(content) + Len(bytes) <= buf_size
<1>1. bytes \in Seq(0 .. 255)
  BY DEF DoWrite, WritesBytes
<1>2. content \in Seq(0 .. 255) /\ buf_size \in Nat /\ Len(content) <= buf_size
  BY DEF InBlock, Bounds
<1>3. CASE /\ content' = content \o bytes
           /\ IF fits THEN UNCHANGED <<buf_size, dangling>>
              ELSE /\ buf_size' = Grown(Len(bytes))
                   /\ dangling' = (exports > 0)
  <2> HIDE DEF bytes
  <2>1. /\ content \o bytes \in Seq(0 .. 255)
        /\ Len(content \o bytes) = Len(content) + Len(bytes)
        /\ Len(content) \in Nat /\ Len(bytes) \in Nat
    BY <1>1, <1>2
  <2>2. buf_size' \in Nat /\ Len(content) + Len(bytes) <= buf_size'
    BY <1>2, <1>3, <2>1 DEF Grown
  <2> QED BY <1>3, <2>1, <2>2 DEF InBlock, Bounds
<1>4. CASE UNCHANGED buf_size /\ (content' = content \/ content' = <<>>)
  BY <1>4, KeptInBlock
<1>5. \/ /\ content' = content \o bytes
         /\ IF fits THEN UNCHANGED <<buf_size, dangling>>
            ELSE /\ buf_size' = Grown(Len(bytes))
                 /\ dangling' = (exports > 0)
      \/ /\ IF Head(todo).checked THEN Fail("MemoryError")
            ELSE /\ pending' = TRUE
                 /\ todo' = Tail(todo)
                 /\ UNCHANGED <<call, content, answer>>
         /\ UNCHANGED <<buf_size, dangling>>
  BY Zenon DEF DoWrite
<1> QED BY <1>3, <1>4, <1>5 DEF Fail, Kept

(* Every other step of a call leaves the block as it is. *)
LEMMA PackingInBlock ==
  ASSUME InBlock, WritesBytes, Packing
  PROVE  InBlock'
<1>1. CASE DoWrite
  BY <1>1, WriteInBlock
<1>2. CASE PackNext
  BY <1>2, KeptInBlock DEF PackNext, Fail, Kept, Replace
<1>3. CASE Finish
  BY <1>3, KeptInBlock DEF Finish
<1> QED BY <1>1, <1>2, <1>3 DEF Packing

(* A call that begins writes nothing yet; reset() only forgets. *)
LEMMA StepInBlock ==
  ASSUME InBlock, WritesBytes, [Step]_vars
  PROVE  InBlock'
<1>1. ASSUME NEW method, NEW entries, Begin(method, entries)
      PROVE  content' = content /\ buf_size' = buf_size
  BY <1>1 DEF Begin, memory
<1>2. ASSUME NEW e, Refuse(e)
      PROVE  content' = content /\ buf_size' = buf_size
  BY <1>2 DEF Refuse, memory
<1>3. CASE \/ \E o : Pack(o)
           \/ \E pairs : PackMapPairs(pairs)
           \/ \E method \in Headers : \E size : PackHeader(method, size)
           \/ \E typecode, data : PackExtType(typecode, data)
  <2>1. content' = content /\ buf_size' = buf_size
    BY <1>1, <1>2, <1>3 DEF Pack, PackMapPairs, PackHeader, PackExtType
  <2> QED BY <2>1, KeptInBlock
<1>4. CASE Reset
  BY <1>4, KeptInBlock DEF Reset
<1>5. CASE Bytes \/ GetBuffer \/ ReleaseBuffer
  BY <1>5, KeptInBlock DEF Bytes, GetBuffer, ReleaseBuffer, memory
<1>6. CASE Packing
  BY <1>6, PackingInBlock
<1>7. CASE UNCHANGED vars
  BY <1>7, KeptInBlock DEF vars, memory
<1> QED
  BY <1>3, <1>4, <1>5, <1>6, <1>7 DEF Step

(* As long as what is written are byte strings, the content never leaves   *)
(* the block, however often it has grown, failed to grow or been reset.    *)
THEOREM ContentInBlock ==
  Init /\ [][Step]_vars /\ []WritesBytes => []Bounds
<1>1. Init => InBlock
  BY InitInBlock
<1>2. InBlock /\ WritesBytes /\ [Step]_vars => InBlock'
  BY StepInBlock
<1>3. InBlock => Bounds
  BY DEF InBlock
<1> QED
  BY <1>1, <1>2, <1>3, PTL

-------------------------------------------------------------------------------
(* A program packs objects it can make, and default() raises or answers    *)
(* with one of them.                                                       *)
World(objects) ==
  \A o \in objects : /\ Packable(o, objects)
                     /\ Default(o) = <<"raises">> \/ Default(o) \in objects

(* Step with the arguments Python lets a program pass.                     *)
LegalStep(objects) ==
  \/ \E o \in objects : Pack(o)
  \/ \E pairs \in Seq(objects \X objects) : Short(pairs) /\ PackMapPairs(pairs)
  \/ \E method \in Headers : \E size \in Num : PackHeader(method, size)
  \/ \E typecode \in Int : \E data \in ByteString :
       Short(data) /\ PackExtType(typecode, data)
  \/ Reset \/ Bytes \/ GetBuffer \/ ReleaseBuffer
  \/ Packing

(* What is still to be done. *)
Writable == [kind : {"write"}, bytes : ByteString, checked : BOOLEAN]
ToPack(objects) == [kind : {"object"}, obj : objects, nest : Int, asked : BOOLEAN]
Entries(objects) == Writable \union ToPack(objects)

(* TypeOK looks at the next write only; the ones behind it and the objects *)
(* they will come from have to be followed, too.                           *)
Typed(objects) ==
  /\ content \in ByteString
  /\ buf_size \in Nat /\ exports \in Nat
  /\ dangling \in BOOLEAN /\ pending \in BOOLEAN
  /\ todo \in Seq(Entries(objects))

LEMMA ByteStrings == ByteString = Seq(0 .. 255)
<1>1. Byte = 0 .. 255
  BY SMT DEF Byte
<1>2. QED
  BY <1>1, Zenon DEF ByteString

LEMMA TypedTypeOK ==
  ASSUME NEW objects, Typed(objects)
  PROVE  TypeOK
<1>1. WritesBytes
  <2>1. SUFFICES ASSUME todo # <<>>, Head(todo).kind = "write"
                 PROVE  Head(todo).bytes \in ByteString
    BY ByteStrings, Zenon DEF WritesBytes
  <2>2. Head(todo) \in Entries(objects)
    BY <2>1 DEF Typed
  <2>3. QED
    BY <2>1, <2>2 DEF Entries, Writable, ToPack
<1>2. QED
  BY <1>1, ByteStrings, Zenon DEF Typed, TypeOK

LEMMA WritingType ==
  ASSUME NEW objects, NEW inner, inner.writes \in Seq(ByteString),
         inner.checked \in BOOLEAN
  PROVE  Writing(inner) \in Seq(Entries(objects))
<1> DEFINE ws == inner.writes
           n == Len(ws)
           e(i) == Write(ws[i], inner.checked)
<1>1. ASSUME NEW i \in 1 .. n PROVE e(i) \in Entries(objects)
  <2>1. ws[i] \in ByteString
    BY ElementOfSeq
  <2>2. QED
    BY <2>1 DEF Write, Entries, Writable
<1>2. Writing(inner) = [i \in 1 .. n |-> e(i)]
  BY DEF Writing
<1>3. n \in Nat
  OBVIOUS
<1> HIDE DEF n, e
<1>4. QED
  BY <1>1, <1>2, <1>3

LEMMA ObjectsType ==
  ASSUME NEW objects, NEW os \in Seq(objects), NEW nest \in Int
  PROVE  Objects(os, nest) \in Seq(Entries(objects))
<1> DEFINE n == Len(os)
           e(i) == Object(os[i], nest, FALSE)
<1>1. ASSUME NEW i \in 1 .. n PROVE e(i) \in Entries(objects)
  <2>1. os[i] \in objects
    BY ElementOfSeq
  <2>2. QED
    BY <2>1 DEF Object, Entries, ToPack
<1>2. Objects(os, nest) = [i \in 1 .. n |-> e(i)]
  BY DEF Objects
<1>3. n \in Nat
  OBVIOUS
<1> HIDE DEF n, e
<1>4. QED
  BY <1>1, <1>2, <1>3

LEMMA InitTyped ==
  ASSUME NEW objects, Init
  PROVE  Typed(objects)
<1>1. <<>> \in ByteString /\ <<>> \in Seq(Entries(objects))
  BY DEF ByteString
<1>2. QED
  BY <1>1, PackerAssumption DEF Init, Typed

(* A method puts entries in todo, or raises. *)
LEMMA BeginTyped ==
  ASSUME NEW objects, Typed(objects), NEW method, NEW entries \in Seq(Entries(objects)),
         Begin(method, entries)
  PROVE  Typed(objects)'
<1>1. UNCHANGED <<content, buf_size, dangling, exports, pending>>
  BY DEF Begin, memory
<1>2. todo' = entries \/ todo' = todo
  BY DEF Begin
<1>3. QED
  BY <1>1, <1>2 DEF Typed

LEMMA Single ==
  ASSUME NEW S, NEW x \in S
  PROVE  <<x>> \in Seq(S)
OBVIOUS

LEMMA WriteEntry ==
  ASSUME NEW objects, NEW bytes \in ByteString
  PROVE  <<Write(bytes, TRUE)>> \in Seq(Entries(objects))
<1>1. Write(bytes, TRUE) \in Entries(objects)
  BY DEF Write, Entries, Writable
<1>2. QED
  BY <1>1, Single, Zenon

LEMMA ObjectEntry ==
  ASSUME NEW objects, NEW o \in objects, NEW nest \in Int, NEW asked \in BOOLEAN
  PROVE  <<Object(o, nest, asked)>> \in Seq(Entries(objects))
<1>1. Object(o, nest, asked) \in Entries(objects)
  BY DEF Object, Entries, ToPack
<1>2. QED
  BY <1>1, Single, Zenon

(* Each method begins with bytes and with objects of the program. *)
LEMMA MethodsTyped ==
  ASSUME NEW objects, World(objects), Typed(objects)
  PROVE  /\ \A o \in objects : Pack(o) => Typed(objects)'
         /\ \A pairs \in Seq(objects \X objects) :
              Short(pairs) /\ PackMapPairs(pairs) => Typed(objects)'
         /\ \A method \in Headers : \A size \in Num :
              PackHeader(method, size) => Typed(objects)'
         /\ \A typecode \in Int : \A data \in ByteString :
              Short(data) /\ PackExtType(typecode, data) => Typed(objects)'
<1>0. NestLimit \in Int
  BY PackerAssumption
<1>1. ASSUME NEW o \in objects, Pack(o) PROVE Typed(objects)'
  <2>1. <<Object(o, NestLimit, FALSE)>> \in Seq(Entries(objects))
    BY <1>0, ObjectEntry
  <2>2. QED
    BY <1>1, <2>1, BeginTyped DEF Pack
<1>2. ASSUME NEW pairs \in Seq(objects \X objects), Short(pairs), PackMapPairs(pairs)
      PROVE  Typed(objects)'
  <2> DEFINE header == <<Write(pack_map(OfInt(Len(pairs))), TRUE)>>
             rest == Objects(KeysAndValues(pairs), NestLimit)
  <2>1. header \in Seq(Entries(objects))
    BY <1>2, LengthBytes, HeaderBytes, WriteEntry
  <2>2. rest \in Seq(Entries(objects))
    BY <1>0, KeysAndValuesType, ObjectsType
  <2>3. Begin("pack_map_pairs", header \o rest)
    BY <1>2 DEF PackMapPairs
  <2> HIDE DEF header, rest
  <2>4. header \o rest \in Seq(Entries(objects))
    BY <2>1, <2>2, ConcatProperties
  <2>5. QED
    BY <2>3, <2>4, BeginTyped
<1>3. ASSUME NEW method \in Headers, NEW size \in Num, PackHeader(method, size)
      PROVE  Typed(objects)'
  <2> DEFINE header == <<Write(IF method = "pack_array_header" THEN pack_array(size)
                                                               ELSE pack_map(size), TRUE)>>
  <2>1. header \in Seq(Entries(objects))
    BY HeaderBytes, WriteEntry
  <2>2. Begin(method, header) \/ Refuse("ValueError")
    BY <1>3 DEF PackHeader
  <2>3. Refuse("ValueError") => Typed(objects)'
    BY DEF Refuse, memory, running, Typed
  <2> HIDE DEF header
  <2>4. QED
    BY <2>1, <2>2, <2>3, BeginTyped
<1>4. ASSUME NEW typecode \in Int, NEW data \in ByteString, Short(data),
             PackExtType(typecode, data)
      PROVE  Typed(objects)'
  <2> DEFINE ext == <<"ext", typecode, data>>
             inner == PackInner(ext, options)
  <2>1. Packable(ext, objects)
    BY <1>4 DEF Packable
  <2>2. \A x \in objects : Packable(x, objects)
    BY DEF World
  <2>3. Begin("pack_ext_type", Writing(inner))
    BY <1>4 DEF PackExtType
  <2> HIDE DEF ext
  <2>4. inner.writes \in Seq(ByteString) /\ inner.checked \in BOOLEAN
    BY <2>1, <2>2, PackInnerType
  <2> HIDE DEF inner
  <2>5. QED
    BY <2>3, <2>4, WritingType, BeginTyped
<1>5. QED
  BY <1>1, <1>2, <1>3, <1>4

(* A call that fails forgets the rest. *)
LEMMA FailTyped ==
  ASSUME NEW objects, Typed(objects), NEW e, Fail(e),
         UNCHANGED <<buf_size, dangling>>, exports' \in Nat
  PROVE  Typed(objects)'
<1>1. <<>> \in ByteString /\ <<>> \in Seq(Entries(objects))
  BY DEF ByteString
<1>2. content' = content \/ content' = <<>>
  BY DEF Fail, Kept
<1>3. content' \in ByteString
  BY <1>1, <1>2 DEF Typed
<1>4. QED
  BY <1>1, <1>3 DEF Typed, Fail

(* The entries behind the first, and those put in front of them. *)
LEMMA RestTyped ==
  ASSUME NEW objects, Typed(objects), todo # <<>>
  PROVE  /\ Head(todo) \in Entries(objects)
         /\ Tail(todo) \in Seq(Entries(objects))
         /\ \A entries \in Seq(Entries(objects)) :
              entries \o Tail(todo) \in Seq(Entries(objects))
<1>1. /\ Head(todo) \in Entries(objects)
      /\ Tail(todo) \in Seq(Entries(objects))
  BY HeadTailProperties, Zenon DEF Typed
<1>2. QED
  BY <1>1, ConcatProperties, Zenon

(* What is written is a byte string, whether or not realloc() succeeds. *)
LEMMA DoWriteTyped ==
  ASSUME NEW objects, Typed(objects), DoWrite
  PROVE  Typed(objects)'
<1> DEFINE bytes == Head(todo).bytes
           fits == Len(content) + Len(bytes) <= buf_size
<1>1. todo # <<>> /\ Head(todo).kind = "write" /\ exports' = exports
  BY DEF DoWrite
<1>2. /\ Head(todo) \in Entries(objects)
      /\ Tail(todo) \in Seq(Entries(objects))
  BY <1>1, RestTyped
<1>3. bytes \in ByteString
  BY <1>1, <1>2 DEF Entries, Writable, ToPack
<1>4. content \in ByteString /\ buf_size \in Nat
  BY DEF Typed
<1>5. CASE /\ content' = content \o bytes
           /\ IF fits THEN UNCHANGED <<buf_size, dangling>>
              ELSE /\ buf_size' = Grown(Len(bytes))
                   /\ dangling' = (exports > 0)
           /\ todo' = Tail(todo)
           /\ UNCHANGED <<call, pending, answer>>
  <2>1. content' \in ByteString
    BY <1>3, <1>4, <1>5, ConcatProperties, Zenon DEF ByteString
  <2>2. Grown(Len(bytes)) \in Nat
    <3> HIDE DEF bytes
    <3>1. Len(content) \in Nat /\ Len(bytes) \in Nat
      BY <1>3, <1>4, LenProperties DEF ByteString
    <3>2. QED
      BY <3>1 DEF Grown
  <2>3. buf_size' = buf_size \/ buf_size' = Grown(Len(bytes))
    BY <1>5, Zenon
  <2>4. dangling' = dangling \/ dangling' = (exports > 0)
    BY <1>5, Zenon
  <2>5. dangling' \in BOOLEAN
    <3>1. dangling \in BOOLEAN
      BY DEF Typed
    <3>2. (exports > 0) \in BOOLEAN
      OBVIOUS
    <3>3. QED
      BY <2>4, <3>1, <3>2, Zenon
  <2>6. buf_size' \in Nat
    BY <1>4, <2>2, <2>3, Zenon
  <2>7. QED
    BY <1>1, <1>2, <1>5, <2>1, <2>5, <2>6 DEF Typed
<1>6. CASE /\ IF Head(todo).checked THEN Fail("MemoryError")
              ELSE /\ pending' = TRUE
                   /\ todo' = Tail(todo)
                   /\ UNCHANGED <<call, content, answer>>
           /\ UNCHANGED <<buf_size, dangling>>
  <2>1. CASE Fail("MemoryError")
    BY <1>1, <1>6, <2>1, FailTyped DEF Typed
  <2>2. CASE pending' = TRUE /\ todo' = Tail(todo) /\ content' = content
    BY <1>1, <1>2, <1>6, <2>2 DEF Typed
  <2>3. QED
    BY <1>6, <2>1, <2>2
<1>7. QED
  BY <1>5, <1>6, Zenon DEF DoWrite

(* The next object becomes its writes and the objects in it, or what       *)
(* default() made of it, or the call fails.                                *)
LEMMA PackNextTyped ==
  ASSUME NEW objects, World(objects), Typed(objects), PackNext
  PROVE  Typed(objects)'
<1>1. PICK entry \in {Head(todo)} : \E inner \in {PackInner(entry.obj, options)} :
        LET nest == IF entry.asked THEN entry.nest ELSE entry.nest - 1 IN
        IF ~entry.asked /\ entry.nest < 0
          THEN Fail("nesting") /\ UNCHANGED exports
        ELSE IF inner.status = "ok"
          THEN Replace(Writing(inner) \o Objects(inner.parts, nest)) /\ UNCHANGED exports
        ELSE IF ~inner.unknown \/ entry.asked \/ ~options.default
          THEN Fail(inner.status) /\ UNCHANGED exports
        ELSE /\ IF Default(entry.obj) = <<"raises">> THEN Fail("HookError")
                ELSE Replace(<<Converted(Default(entry.obj), nest)>>)
             /\ exports' \in IF HookViews THEN {exports, exports + 1} ELSE {exports}
  BY Zenon DEF PackNext
<1> DEFINE inner == PackInner(entry.obj, options)
           nest == IF entry.asked THEN entry.nest ELSE entry.nest - 1
           opened == Writing(inner) \o Objects(inner.parts, nest)
           converted == <<Converted(Default(entry.obj), nest)>>
<1>2. /\ exports' = exports \/ exports' = exports + 1
      /\ \/ \E e : Fail(e)
         \/ Replace(opened)
         \/ Default(entry.obj) # <<"raises">> /\ Replace(converted)
  BY <1>1, Zenon
<1>3. todo # <<>> /\ Head(todo).kind = "object" /\ UNCHANGED <<buf_size, dangling>>
  BY DEF PackNext
<1>4. entry \in Entries(objects) /\ entry.kind = "object"
  BY <1>3, RestTyped
<1>5. entry.obj \in objects /\ nest \in Int
  BY <1>4 DEF Entries, Writable, ToPack
<1>6. exports' \in Nat
  BY <1>2 DEF Typed
<1>7. opened \in Seq(Entries(objects))
  <2>1. /\ inner.writes \in Seq(ByteString) /\ inner.checked \in BOOLEAN
        /\ inner.parts \in Seq(objects)
    BY <1>5, PackInnerType DEF World
  <2> HIDE DEF inner, nest
  <2>2. /\ Writing(inner) \in Seq(Entries(objects))
        /\ Objects(inner.parts, nest) \in Seq(Entries(objects))
    BY <1>5, <2>1, WritingType, ObjectsType
  <2>3. QED
    BY <2>2, ConcatProperties, Zenon
<1>8. Default(entry.obj) # <<"raises">> => converted \in Seq(Entries(objects))
  BY <1>5, ObjectEntry DEF World, Converted
<1>9. ASSUME NEW entries \in Seq(Entries(objects)), Replace(entries)
      PROVE  Typed(objects)'
  <2>1. todo' \in Seq(Entries(objects))
    BY <1>3, <1>9, RestTyped DEF Replace
  <2>2. QED
    BY <1>3, <1>6, <1>9, <2>1 DEF Typed, Replace
<1>10. ASSUME NEW e, Fail(e) PROVE Typed(objects)'
  BY <1>3, <1>6, <1>10, FailTyped
<1> HIDE DEF opened, converted
<1>11. QED
  BY <1>2, <1>7, <1>8, <1>9, <1>10

LEMMA LegalStepTyped ==
  ASSUME NEW objects, World(objects), Typed(objects), [LegalStep(objects)]_vars
  PROVE  Typed(objects)'
<1>0. <<>> \in ByteString
  BY DEF ByteString
<1>1. CASE Reset
  BY <1>0, <1>1 DEF Reset, Typed, running
<1>2. CASE Bytes \/ UNCHANGED vars
  BY <1>2 DEF Bytes, Typed, memory, running, vars
<1>3. CASE GetBuffer
  BY <1>3 DEF GetBuffer, Typed, memory, running
<1>4. CASE ReleaseBuffer
  <2>1. exports' \in Nat
    BY <1>4 DEF ReleaseBuffer, Typed
  <2>2. dangling' \in BOOLEAN
    BY <1>4, Zenon DEF ReleaseBuffer
  <2>3. QED
    BY <1>4, <2>1, <2>2 DEF ReleaseBuffer, Typed, running
<1>5. CASE Packing
  <2>1. CASE Finish
    <3>1. content' = <<>> \/ content' = content
      BY <2>1 DEF Finish
    <3>2. content' \in ByteString
      BY <1>0, <3>1 DEF Typed
    <3>3. QED
      BY <2>1, <3>2 DEF Finish, Typed
  <2>2. QED
    BY <1>5, <2>1, DoWriteTyped, PackNextTyped DEF Packing
<1>6. QED
  BY <1>1, <1>2, <1>3, <1>4, <1>5, MethodsTyped DEF LegalStep

(* Whatever a program packs, with any options, any default() and memory    *)
(* that runs out anywhere, only byte strings reach msgpack_pack_write():   *)
(* every writer narrows to the width of its field, and what goes into the  *)
(* same byte as a format fits beside it.                                   *)
THEOREM TypeOKAlways ==
  ASSUME NEW objects, World(objects)
  PROVE  Init /\ [][LegalStep(objects)]_vars => []TypeOK
<1>1. Init => Typed(objects)
  BY InitTyped
<1>2. Typed(objects) /\ [LegalStep(objects)]_vars => Typed(objects)'
  BY LegalStepTyped
<1>3. Typed(objects) => TypeOK
  BY TypedTypeOK
<1> QED
  BY <1>1, <1>2, <1>3, PTL

(* So the content never leaves the block, however often it has grown,      *)
(* failed to grow or been reset.                                           *)
THEOREM BoundsAlways ==
  ASSUME NEW objects, World(objects)
  PROVE  Init /\ [][LegalStep(objects)]_vars => []Bounds
<1>1. [LegalStep(objects)]_vars => [Step]_vars
  <2>1. LegalStep(objects) => Step
    BY Zenon DEF LegalStep, Step
  <2>2. QED
    BY <2>1
<1>2. TypeOK => WritesBytes
  BY DEF TypeOK
<1> QED
  BY <1>1, <1>2, TypeOKAlways, ContentInBlock, PTL
===============================================================================
