---------------------------- MODULE PQStatement ----------------------------
(***************************************************************************)
(* pq/preparedstatement.cpp and .h: the parameters of a PreparedStatement, *)
(* which libpq gets as an array of pointers into m_paramValues; and the    *)
(* types of result.cpp.  A value is what the program passed: "Null" or a   *)
(* type with a number.  Growing m_paramValues moves its strings: a pointer *)
(* is the number of the storage it points into, 0 is NULL.                 *)
(***************************************************************************)
EXTENDS Naturals, Sequences, SequencesExt

CONSTANTS
    Types,        \* C++ types of the values that are bound, besides Null
    MaxParams,    \* bound: parameters
    MaxStorage    \* bound: how often m_paramValues moves

VARIABLES
    named,        \* m_name is not empty: prepared on the server
    statement,    \* values: m_paramValues, params: m_params, lengths, types, storage
    bound,        \* bound[i]: what was last bound to i, or "nothing"
    sent          \* args of the last execute(...), and the values libpq saw

statementVars == <<named, statement, bound, sent>>

Values == {"Null"} \cup Types

\* The type and the length that bind() gives to a value of each C++ type.
OidOf(T) == CASE T = "bool" -> "BOOL" [] T = "char" -> "CHAR" [] T = "short" -> "INT2"
              [] T = "int" -> "INT4" [] T = "long long" -> "INT8" [] T = "float" -> "FLOAT4"
              [] T = "double" -> "FLOAT8" [] T = "ptime" -> "TIMESTAMP"
              [] T \in {"string", "Null"} -> "0"
LengthOf(T) == CASE T \in {"bool", "char"} -> 1 [] T = "short" -> 2 [] T \in {"int", "float"} -> 4
                 [] T \in {"long long", "double", "ptime"} -> 8 [] T = "Null" -> 0
                 [] T = "string" -> 3                 \* of any length

\* What Result::get<T>() asserts of the column's type and the value's length; a ptime
\* may be absent.
Gets(T, oid, length) ==
    CASE T = "string" -> TRUE
      [] T = "bool" -> oid = "BOOL" /\ length = 1
      [] T = "char" -> oid = "CHAR" /\ length = 1
      [] T = "short" -> oid = "INT2" /\ length = 2
      [] T = "int" -> <<oid, length>> \in {<<"INT2", 2>>, <<"INT4", 4>>}
      [] T = "long long" -> <<oid, length>> \in {<<"INT2", 2>>, <<"INT4", 4>>, <<"INT8", 8>>}
      [] T = "float" -> oid = "FLOAT4" /\ length = 4
      [] T = "double" -> <<oid, length>> \in {<<"FLOAT4", 4>>, <<"FLOAT8", 8>>}
      [] T = "ptime" -> oid \in {"TIMESTAMP", "TIMESTAMPTZ"} /\ length \in {0, 8}

StatementInit ==
    /\ named \in BOOLEAN
    /\ statement = [values |-> <<>>, params |-> <<>>, lengths |-> <<>>, types |-> <<>>, storage |-> 1]
    /\ bound = <<>>
    /\ sent = [args |-> <<>>, values |-> <<>>]

-----------------------------------------------------------------------------
Grown(s, n, x) == [i \in 1..n |-> IF i <= Len(s) THEN s[i] ELSE x]

\* Mutant: only the new pointers are set.
ensureNewOnly(st, n) ==
    IF Len(st.params) >= n THEN st
    ELSE [values |-> Grown(st.values, n, "empty"), params |-> Grown(st.params, n, st.storage + 1),
          lengths |-> Grown(st.lengths, n, 0),
          types |-> IF named THEN st.types ELSE Grown(st.types, n, "0"),
          storage |-> st.storage + 1]

\* ensure(): a longer list of parameters; all pointers are taken anew.
ensure(st, n) ==
    IF Len(st.params) >= n THEN st
    ELSE [values |-> Grown(st.values, n, "empty"), params |-> [i \in 1..n |-> st.storage + 1],
          lengths |-> Grown(st.lengths, n, 0),
          types |-> IF named THEN st.types ELSE Grown(st.types, n, "0"),
          storage |-> st.storage + 1]

\* bind() of any type.
BindTo(st, i, v) ==
    LET e == ensure(st, i)
    IN [e EXCEPT !.values[i] = IF v = "Null" THEN "empty" ELSE v,
                 !.params[i] = IF v = "Null" THEN 0 ELSE e.storage,
                 !.lengths[i] = LengthOf(v),
                 !.types = IF named THEN @ ELSE [@ EXCEPT ![i] = OidOf(v)]]

\* What libpq reads through the arrays.
Seen(st) == [i \in DOMAIN st.params |->
                CASE st.params[i] = 0 -> "Null"
                  [] st.params[i] = st.storage -> st.values[i]
                  [] OTHER -> "dangling"]

bind(i, v) ==
    /\ statement.storage < MaxStorage
    /\ statement' = BindTo(statement, i, v)
    /\ bound' = [Grown(bound, IF i > Len(bound) THEN i ELSE Len(bound), "nothing") EXCEPT ![i] = v]
    /\ UNCHANGED <<named, sent>>

\* execute(param1, param2, ...): binds the last parameter first, then PQsendQueryParams.
BindAll(st, args) ==
    FoldLeft(LAMBDA s, i : BindTo(s, i, args[i]), st, Reverse([i \in 1..Len(args) |-> i]))
executeWith(args) ==
    /\ statement.storage < MaxStorage
    /\ statement' = BindAll(statement, args)
    /\ bound' = args \o SubSeq(bound, Len(args) + 1, Len(bound))
    /\ sent' = [args |-> args, values |-> SubSeq(Seen(BindAll(statement, args)), 1, Len(args))]
    /\ UNCHANGED named

StatementNext ==
    \/ \E i \in 1..MaxParams : \E v \in Values : bind(i, v)
    \/ \E n \in 1..MaxParams : \E args \in [1..n -> Values] : executeWith(args)

StatementSpec == StatementInit /\ [][StatementNext]_statementVars

-----------------------------------------------------------------------------
\* No pointer outlives the strings it points into; the arrays have one length; a value
\* that was bound is what libpq reads, but for a Null that was bound before the list grew,
\* which becomes an empty string; execute(...), which binds backwards, never meets that,
\* so that it sends exactly its arguments.  And get<T>() takes what bind(T) stores.
SendsWhatWasBound ==
    LET seen == Seen(statement)
    IN /\ \A i \in DOMAIN seen :
             /\ seen[i] # "dangling"
             /\ bound[i] \notin {"nothing", "Null"} =>
                   /\ seen[i] = bound[i] /\ statement.lengths[i] = LengthOf(bound[i])
                   /\ ~named => Gets(bound[i], statement.types[i], statement.lengths[i])
       /\ Len(bound) = Len(statement.params)
       /\ ~named => Len(statement.types) = Len(statement.params)
       /\ sent.values = sent.args

\* The same of Null.
NullStaysNull == \A i \in DOMAIN bound : bound[i] = "Null" => Seen(statement)[i] = "Null"
=============================================================================
