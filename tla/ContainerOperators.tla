-------------------------- MODULE ContainerOperators ------------------------
(***************************************************************************)
(* The operators of HILTI's containers, streams, references and records,   *)
(* and those of any type (hilti/toolchain/include/ast/operators/).  A      *)
(* struct or union has one field.                                          *)
(***************************************************************************)
EXTENDS OperatorTable

-----------------------------------------------------------------------------
(* Bytes and streams *)

\* What iterators over bytes and over streams have.
DataIteratorOperators(ns, it, elem) ==
  {Operator(ns, "Deref", "Deref", <<Const(it)>>, elem),
   Operator(ns, "Difference", "Difference", <<Const(it), Const(it)>>, SignedInteger),
   Operator(ns, "Sum", "Sum", <<Const(it), UnsignedInteger>>, it),
   Operator(ns, "SumAssign", "SumAssign", <<it, UnsignedInteger>>, it)}
  \cup Operators(ns, {"IncrPostfix", "IncrPrefix"}, <<it>>, it)
  \cup Operators(ns, Equalities \cup Orders, <<Const(it), Const(it)>>, Bool)
\* The ways to cut out a part: two iterators, the end only, or two offsets.
SubOperators(ns, t, it) ==
  {Method(ns, "SubIterators", "sub", Const(t), <<Req(it), Req(it)>>, t),
   Method(ns, "SubIterator", "sub", Const(t), <<Req(it)>>, t),
   Later(Method(ns, "SubOffsets", "sub", Const(t), <<Req(UnsignedInteger), Req(UnsignedInteger)>>, t))}
BytesOperators ==
  LET t == Plain("bytes")
      ct == Const(t)
  IN  DataIteratorOperators("bytes::iterator", Plain("bytes_iter"), IntType("uint", Narrow))
      \cup Operators("bytes", Equalities \cup Orders \cup {"In"}, <<ct, ct>>, Bool)
      \cup {Operator("bytes", "Size", "Size", <<ct>>, UnsignedInteger),
            Operator("bytes", "Sum", "Sum", <<ct, ct>>, ct),
            Operator("bytes", "SumAssignBytes", "SumAssign", <<t, ct>>, t),
            Later(Operator("bytes", "SumAssignStreamView", "SumAssign", <<t, Const(Plain("view"))>>, t)),
            Later(Later(Operator("bytes", "SumAssignUInt8", "SumAssign", <<t, IntType("uint", Narrow)>>, t)))}
BytesSearching ==
  LET t == Plain("bytes")
      ct == Const(t)
      it == Plain("bytes_iter")
      folding == <<Opt(Plain("enum")), Opt(Plain("enum"))>>
  IN  {Method("bytes", "Find", "find", ct, <<Req(ct)>>, Pair(Bool, it)),
       Method("bytes", "LowerCase", "lower", ct, folding, t),
       Method("bytes", "UpperCase", "upper", ct, folding, t),
       Method("bytes", "At", "at", ct, <<Req(UnsignedInteger)>>, it),
       Method("bytes", "Split", "split", ct, <<Opt(ct)>>, Of("vector", t)),
       Method("bytes", "Split1", "split1", ct, <<Opt(ct)>>, Pair(t, t)),
       Method("bytes", "StartsWith", "starts_with", ct, <<Req(ct)>>, Bool)}
BytesCutting ==
  LET t == Plain("bytes")
      ct == Const(t)
  IN  SubOperators("bytes", t, Plain("bytes_iter"))
      \cup {Method("bytes", "Strip", "strip", ct, <<Opt(Plain("enum")), Opt(ct)>>, t),
            Method("bytes", "Join", "join", ct, <<Req(Plain("vector"))>>, t)}
BytesConversions ==
  LET ct == Const(Plain("bytes"))
      enum == Plain("enum")
      ascii(cls, id, res) == Method("bytes", cls, id, ct, <<Opt(UnsignedInteger)>>, res)
      binary(cls, id, res) == Later(Method("bytes", cls, id, ct, <<Req(enum)>>, res))
  IN  {ascii("ToIntAscii", "to_int", SignedInteger), binary("ToIntBinary", "to_int", SignedInteger),
       ascii("ToUIntAscii", "to_uint", UnsignedInteger), binary("ToUIntBinary", "to_uint", UnsignedInteger),
       ascii("ToTimeAscii", "to_time", Plain("time")), binary("ToTimeBinary", "to_time", Plain("time")),
       Method("bytes", "Decode", "decode", ct, <<Opt(enum), Opt(enum)>>, String),
       Method("bytes", "Match", "match", ct, <<Req(Plain("regexp")), Opt(UnsignedInteger)>>,
              Of("result", Plain("bytes")))}
StreamViewOperators ==
  LET t == Plain("view")
      ct == Const(t)
      it == Plain("stream_iter")
      bytes == Const(Plain("bytes"))
      offset == <<Req(UnsignedInteger)>>
  IN  UNION {{Operator("stream::view", k \o "Bytes", k, <<ct, bytes>>, Bool),
              Later(Operator("stream::view", k \o "View", k, <<ct, ct>>, Bool))} : k \in Equalities}
      \cup {Operator("stream::view", "Size", "Size", <<ct>>, UnsignedInteger),
            Operator("stream::view", "InBytes", "In", <<ct, bytes>>, Bool),
            Later(Operator("stream::view", "InView", "In", <<bytes, ct>>, Bool)),
            Method("stream::view", "Offset", "offset", ct, <<>>, UnsignedInteger),
            Method("stream::view", "AdvanceBy", "advance", ct, <<Req(it)>>, t),
            Later(Method("stream::view", "AdvanceTo", "advance", ct, offset, t)),
            Method("stream::view", "AdvanceToNextData", "advance_to_next_data", ct, <<>>, t),
            Method("stream::view", "Limit", "limit", ct, offset, t)}
StreamViewSearching ==
  LET ct == Const(Plain("view"))
      it == Plain("stream_iter")
      bytes == Const(Plain("bytes"))
  IN  SubOperators("stream::view", Plain("view"), it)
      \cup {Method("stream::view", "Find", "find", ct, <<Req(bytes)>>, Pair(Bool, it)),
            Method("stream::view", "At", "at", ct, <<Req(UnsignedInteger)>>, it),
            Method("stream::view", "StartsWith", "starts_with", ct, <<Req(bytes)>>, Bool)}
StreamOperators ==
  LET t == Plain("stream")
      it == Plain("stream_iter")
      bytes == Const(Plain("bytes"))
  IN  DataIteratorOperators("stream::iterator", it, UnsignedInteger)
      \cup {KeywordCtor("stream", "Ctor", "stream", <<Req(bytes)>>, t),
            Method("stream::iterator", "Offset", "offset", Const(it), <<>>, UnsignedInteger),
            Method("stream::iterator", "IsFrozen", "is_frozen", Const(it), <<>>, Bool),
            Operator("stream", "Size", "Size", <<Const(t)>>, UnsignedInteger),
            Operator("stream", "Unequal", "Unequal", <<Const(t), Const(t)>>, Bool),
            Operator("stream", "SumAssignBytes", "SumAssign", <<t, bytes>>, t),
            Later(Operator("stream", "SumAssignView", "SumAssign", <<t, Const(Plain("view"))>>, t)),
            Method("stream", "Freeze", "freeze", t, <<>>, Void),
            Method("stream", "Unfreeze", "unfreeze", t, <<>>, Void),
            Method("stream", "IsFrozen", "is_frozen", Const(t), <<>>, Bool),
            Method("stream", "At", "at", Const(t), <<Req(UnsignedInteger)>>, it),
            Method("stream", "Trim", "trim", t, <<Req(it)>>, Void)}

-----------------------------------------------------------------------------
(* Containers *)

\* What every container has; its iterators are of a kind of their own.
CommonOperators(k, it) ==
  IteratorOperators(k \o "::iterator", Plain(it))
  \cup Operators(k, Equalities, <<Const(Plain(k)), SameTypeAs(1)>>, Bool)
  \cup {Operator(k, "Size", "Size", <<Const(Plain(k))>>, UnsignedInteger)}
ListOperators == CommonOperators("list", "list_iter")
SetOperators ==
  LET t == Plain("set")
  IN  CommonOperators("set", "set_iter")
      \cup Operators("set", {"Add", "Delete"}, <<t, ConstantElementType(1)>>, Void)
      \cup {Operator("set", "In", "In", <<Any, Const(t)>>, Bool),
            Method("set", "Clear", "clear", t, <<>>, Void)}
MapOperators ==
  LET t == Plain("map")
      key == ConstantKeyType(1)
  IN  CommonOperators("map", "map_iter")
      \cup {Operator("map", "In", "In", <<Any, Const(t)>>, Bool),
            Operator("map", "Delete", "Delete", <<t, key>>, Void),
            Operator("map", "IndexNonConst", "Index", <<t, key>>, ElementType(1)),
            Later(Operator("map", "IndexConst", "Index", <<Const(t), key>>, ConstantElementType(1))),
            Operator("map", "IndexAssign", "IndexAssign", <<t, key, Any>>, Void),
            Method("map", "Get", "get", t, <<Req(Any), Opt(Any)>>, ElementType(1)),
            Method("map", "Clear", "clear", t, <<>>, Void)}
VectorOperators ==
  LET t == Plain("vector")
      ct == Const(t)
      n == Req(UnsignedInteger)
  IN  CommonOperators("vector", "vector_iter")
      \cup Operators("vector", {"Sum", "SumAssign"}, <<t, SameTypeAs(1)>>, SameTypeAs(1))
      \cup {Operator("vector", "IndexNonConst", "Index", <<t, UnsignedInteger>>, ElementType(1)),
            Later(Operator("vector", "IndexConst", "Index", <<ct, UnsignedInteger>>, ConstantElementType(1))),
            Method("vector", "Assign", "assign", t, <<n, Req(Any)>>, Void),
            Method("vector", "PushBack", "push_back", t, <<Req(Any)>>, Void),
            Method("vector", "PopBack", "pop_back", t, <<>>, Void),
            Method("vector", "Front", "front", ct, <<>>, ConstantElementType(1)),
            Method("vector", "Back", "back", ct, <<>>, ConstantElementType(1)),
            Method("vector", "Reserve", "reserve", t, <<n>>, Void),
            Method("vector", "Resize", "resize", t, <<n>>, Void),
            Method("vector", "At", "at", ct, <<n>>, IteratorType(1)),
            Method("vector", "SubRange", "sub", ct, <<n, n>>, SameTypeAs(1)),
            Method("vector", "SubEnd", "sub", ct, <<n>>, SameTypeAs(1))}

-----------------------------------------------------------------------------
(* Wrapped values, records and any types *)

ReferenceOperators(k) ==
  {Operator(k, "Deref", "Deref", <<Const(Plain(k))>>, ReferencedType(1))}
  \cup Operators(k, Equalities, <<Const(Plain(k)), SameTypeAs(1)>>, Bool)
WrapperOperators ==
  {Operator(k, "Deref", "Deref", <<Const(Plain(k))>>, DereferencedType(1)) : k \in {"optional", "result"}}
  \cup {Method("result", "Error", "error", Plain("result"), <<>>, Plain("error"))}
TupleOperators ==
  LET t == Plain("tuple")
  IN  Operators("tuple", Equalities, <<Const(t), SameTypeAs(1)>>, Bool)
      \cup {Normal(Operator("tuple", "Index", "Index", <<t, UnsignedInteger>>, MemberType(1)))}
\* Operators on a field, which has not been looked up yet.
FieldOperator(ns, cls, kind, t, result) == Normal(Operator(ns, cls, kind, <<t>>, result))
StructOperators ==
  LET t == Plain("struct")
  IN  {FieldOperator("struct", "Unset", "Unset", t, Void),
       FieldOperator("struct", "MemberNonConst", "Member", t, MemberType(1)),
       FieldOperator("struct", "MemberConst", "Member", Const(t), ConstantMemberType(1)),
       FieldOperator("struct", "TryMember", "TryMember", t, MemberType(1)),
       FieldOperator("struct", "HasMember", "HasMember", Const(t), Bool)}
UnionOperators ==
  LET t == Plain("union")
  IN  Operators("union", Equalities, <<Const(t), SameTypeAs(1)>>, Bool)
      \cup {FieldOperator("union", "MemberConst", "Member", Const(t), MemberType(1)),
            FieldOperator("union", "MemberNonConst", "Member", t, MemberType(1)),
            FieldOperator("union", "HasMember", "HasMember", t, Bool)}
PackOperators ==
  {Normal(op) : op \in
     {Operator("generic", "Pack", "Pack", <<Plain("tuple")>>, Plain("bytes")),
      Operator("generic", "Unpack", "Unpack", <<Plain("type"), Plain("tuple"), Bool>>, UnpackedType)}}
GenericOperators ==
  {Normal(op) : op \in
     {Operator("generic", "Begin", "Begin", <<Any>>, IteratorType(1)),
      Operator("generic", "End", "End", <<Any>>, IteratorType(1)),
      Operator("generic", "New", "New", <<Any>>, AllocatedType(1))}}
AllOperators ==
  UNION {AddressOperators, BoolOperators, EnumOperators, ErrorOperators, ExceptionOperators,
         IntervalOperators, TimeOperators, NetworkOperators, PortOperators, RealOperators,
         SignedIntegerOperators, UnsignedIntegerOperators, StringOperators, RegExpOperators,
         BytesOperators, BytesSearching, BytesCutting, BytesConversions,
         StreamOperators, StreamViewOperators, StreamViewSearching, ListOperators, SetOperators, MapOperators,
         VectorOperators, WrapperOperators, TupleOperators, StructOperators, UnionOperators,
         PackOperators, GenericOperators}
  \cup UNION {ReferenceOperators(k) : k \in References}
\* OperatorRegistry::byKind().
ByKind == [k \in {op.kind : op \in AllOperators} |-> {op \in AllOperators : op.kind = k}]
=============================================================================
