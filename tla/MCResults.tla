------------------------------ MODULE MCResults ------------------------------
(* Instances of the parts that deal with the results of statements: the      *)
(* actor of a connection, what of a result may be edited, the changes of its *)
(* grid, the order of its values and the views of it.  One of the parts acts *)
(* in each behaviour.                                                        *)
EXTENDS MCQueryActor, EditShape, GridEdit, ValueOrder, RowView, SequencesExt

CONSTANTS row1, row2, plain, opaque

VARIABLE part

resultsVars == <<vars, esVars, geVars, voVars, rvVars, part>>

-----------------------------------------------------------------------------
(* Statements over a table t of a key k and a value v. *)

Item(tokens, name, origin) == [tokens |-> tokens, name |-> name, origin |-> origin]
Ws(words) == [i \in DOMAIN words |-> Word(words[i])]
\* The items of a list, where the table is called n.
ItemsOf(n) == {
    Item(Ws(<<"k">>), "k", "k"), Item(Ws(<<n, ".", "v">>), "v", "v"),
    Item(Ws(<<"k", "AS", "v">>), "v", "k"), Item(Ws(<<"v", "k">>), "k", "v"), Item(Ws(<<n, ".", "v", "v">>), "v", "v"),
    Item(Ws(<<"k", "+", "1", "AS", "k">>), "k", ""), Item(Ws(<<"f", "(", "k", ",", "v", ")">>), "f", ""),
    Item(Ws(<<"f", "(", ")", "v">>), "v", ""), Item(<<Quoted("literal"), Word("k")>>, "k", ""),
    Item(Ws(<<"DISTINCT", "v">>), "v", "v"),
    Item(Ws(<<"comment", "k">>), "k", ""), Item(Ws(<<"escape">>), "k", ""), Item(Ws(<<"v", "FROM", "k">>), "v", "") }
\* What follows the table, and whether each row of the result is still one of its rows.
Tails ==
    {[tokens |-> Ws(t), rows |-> TRUE] : t \in {<<>>, <<"WHERE", "k", ";">>, <<"LIMIT", "1">>}}
    \cup {[tokens |-> Ws(t), rows |-> FALSE] : t \in {
            <<",", "u">>, <<"JOIN", "u">>, <<"NATURAL", "JOIN", "u">>, <<"STRAIGHT", "u">>,
            <<"WHERE", "k", "UNION", "TABLE", "u">>, <<"WHERE", "k", "GROUP", "BY", "v">>,
            <<"WHERE", "k", ";", "TABLE", "u">>}}
NoTail == [tokens |-> <<>>, rows |-> TRUE]
Aliases == {[tokens |-> <<>>, name |-> "t"], [tokens |-> Ws(<<"AS", "a">>), name |-> "a"],
            [tokens |-> Ws(<<"a">>), name |-> "a"]}
AColumn(n, nullable, generated) == [name |-> n, nullable |-> nullable, generated |-> generated]
Index(columns, primary, whole) == [columns |-> columns, primary |-> primary, whole |-> whole]
TheTable == [name |-> "t", kind |-> "table", transactional |-> TRUE,
    columns |-> <<AColumn("k", FALSE, FALSE), AColumn("v", TRUE, FALSE)>>,
    indexes |-> <<Index({"k"}, TRUE, TRUE)>>,
    foreign |-> {[from |-> <<"v">>, to |-> "u", found |-> TRUE]}]
Joined(lists) == FoldLeft(LAMBDA all, s : IF all = <<>> THEN s ELSE all \o Ws(<<",">>) \o s, <<>>, lists)
Query(d, alias, items, tail) ==
    [driver |-> d, shadowed |-> FALSE, table |-> TheTable,
     tokens |-> Ws(<<"SELECT">>) \o Joined([i \in DOMAIN items |-> items[i].tokens]) \o Ws(<<"FROM", "t">>)
                \o alias.tokens \o tail.tokens,
     outputs |-> [i \in DOMAIN items |-> items[i].name],
     origins |-> [i \in DOMAIN items |-> items[i].origin],
     rows |-> tail.rows]
Lists(n) == {<<x>> : x \in ItemsOf(n)} \cup {<<x, y>> : x, y \in ItemsOf(n)}
Few(n) == {<<x>> : x \in {i \in ItemsOf(n) : i.origin = "k"}}
MCQueries ==
    UNION {{Query(d, alias, items, NoTail) : items \in Lists(alias.name)}
           \cup {Query(d, alias, items, tail) : items \in Few(alias.name), tail \in Tails} :
                alias \in Aliases, d \in {"postgres", "mysql"}}

\* SELECT * of every kind of table; SQLite alone has tables hidden by a temporary one.
Keys == {<<>>} \cup {<<Index(c, p, h)>> : c \in {{"k"}, {"v"}, {"k", "v"}}, p, h \in BOOLEAN}
        \cup {<<Index({"k"}, p, h), Index({"v"}, FALSE, TRUE)>> : p, h \in BOOLEAN}
References2 == {[from |-> <<"v">>, to |-> "u", found |-> TRUE], [from |-> <<"v", "k">>, to |-> "w", found |-> TRUE],
                [from |-> <<"k">>, to |-> "w", found |-> FALSE]}
MCTablesOf(d) ==
    {t \in {[TheTable EXCEPT !.kind = kind, !.transactional = tr, !.indexes = keys,
                             !.columns = <<AColumn("k", n1, g1), AColumn("v", n2, FALSE)>>] :
                kind \in {"table", "view"}, tr, n1, n2, g1 \in BOOLEAN, keys \in Keys}
           \cup {[TheTable EXCEPT !.foreign = foreign] : foreign \in SUBSET References2} :
        \A i \in DOMAIN t.indexes :
            t.indexes[i].primary => t.indexes[i].whole /\ (d # "sqlite" => NotNull(t, t.indexes[i].columns))}
Whole(d, t, hidden) ==
    [driver |-> d, shadowed |-> hidden, table |-> t, tokens |-> Ws(<<"SELECT", "*", "FROM", "t">>),
     outputs |-> <<"k", "v">>, origins |-> IF hidden \/ t.kind = "view" THEN <<"", "">> ELSE <<"k", "v">>,
     rows |-> ~hidden /\ t.kind = "table"]
MCTables ==
    UNION {{Whole(d, t, hidden) : t \in MCTablesOf(d), hidden \in IF d = "sqlite" THEN BOOLEAN ELSE {FALSE}} :
            d \in {"sqlite", "postgres", "mysql"}}
MCStatements == MCQueries \cup MCTables
AnyStatement == CHOOSE c \in MCTables : TRUE

-----------------------------------------------------------------------------
(* Values to be compared. *)

Digits(n) == UNION {[1 .. i -> {0, 1}] : i \in 0 .. n}
Decimals == [negative : BOOLEAN, whole : Digits(2), fraction : Digits(1), exponent : {-1, 0, 1}]
Dates == [year : {1600, 1899, 1900, 1999, 2000, 2100}, month : {0, 1, 2, 3, 12, 13}, day : {0, 1, 28, 29, 30, 31}]
Around == {d \in Dates : d.month \in {1, 2, 3} /\ d.day \in {1, 28, 31} /\ d.year \in {1900, 2000}}
Times == [negative : BOOLEAN, hours : {0, 30}, minutes : {0, 59}, seconds : {0, 1},
          fraction : {<<>>, <<0>>, <<5>>, <<5, 0>>, <<5, 1>>}]
ADate(y, m, d) == [year |-> y, month |-> m, day |-> d]
Clock(h, f) == [negative |-> FALSE, hours |-> h, minutes |-> 0, seconds |-> 0, fraction |-> f]
\* With an offset in minutes, or without one.
Stamps == {[date |-> d, time |-> Clock(h, f), aware |-> o # 1, offset |-> IF o = 1 THEN 0 ELSE o] :
            d \in {ADate(1999, 12, 31), ADate(2000, 1, 1), ADate(2000, 2, 28), ADate(2000, 3, 1)},
            h \in {0, 23}, f \in {<<>>, <<5>>}, o \in {1, 0, 60, -120}}
Pairs(sort, l, r) == [sort |-> sort, lefts |-> l, rights |-> r]
MCValues == {Pairs("decimal", Decimals, Decimals), Pairs("real", -8 .. 7, -20 .. 20), Pairs("date", Dates, Around),
             Pairs("time", Times, Times), Pairs("timestamp", Stamps, Stamps)}

-----------------------------------------------------------------------------
(* Results to be viewed: three rows of plain values, or one or two of any. *)

Val(kind, n) == [kind |-> kind, n |-> n]
PlainValues == {Val("null", 0), Val("integer", 1), Val("integer", 2)}
AnyValues == PlainValues \cup {Val("text", 1), Val("nan", 0), Val("malformed", 1), Val("partial", 0)}
\* The first row is a page of its own; the second row is large.
Cut(values) ==
    LET rows == [i \in DOMAIN values |-> [id |-> i, value |-> values[i], size |-> IF i = 2 THEN 2 ELSE 1]]
    IN  <<SubSeq(rows, 1, 1), SubSeq(rows, 2, Len(rows))>>
MCResults == {<<<<>>>>} \cup {<<Cut(<<x>>)[1]>> : x \in AnyValues} \cup {Cut(<<x, y>>) : x, y \in AnyValues}
             \cup {Cut(<<x, y, z>>) : x, y, z \in PlainValues}
Filter(op, operand) == [op |-> op, operand |-> operand]
NotNulls == Filter("isNotNull", Val("null", 0))
Simple ==
    {Filter(op, Val("integer", 2)) : op \in {"equals", "notEquals", "less", "atLeast", "like", "notLike"}}
    \cup {Filter(op, Val("text", 1)) : op \in {"equals", "contains", "less"}}
    \cup {Filter("in", x) : x \in {{Val("null", 0)}, {Val("null", 0), Val("integer", 1)}, {Val("integer", 1), Val("text", 1)}}}
    \cup {Filter(op, Val("null", 0)) : op \in {"isNull", "sqlOfOthers", "unreadable"}} \cup {NotNulls}
MCFilters == {<<>>} \cup {<<f>> : f \in Simple} 
             \cup {<<NotNulls, f>> : f \in {g \in Simple : g.op \in {"less", "in"}}}

-----------------------------------------------------------------------------
Parts == {"actor", "shape", "grid", "order", "view"}

\* A part that does not act has one of its cases.
EsRests == esCase = AnyStatement /\ esTarget = EsUnread /\ esCells = <<>>
VoRests == voCase = [sort |-> "real", left |-> 0, right |-> 0] /\ voAnswer = VoPending
PlainRow == [c \in GeColumns |-> "x"]
GeRests ==
    /\ geDriver = "sqlite" /\ geFolds = FALSE /\ geComparable = TRUE
    /\ geTable = (row1 :> PlainRow @@ row2 :> NoRow) /\ geWork = [k \in GeKeys |-> Kept]
    /\ geGrid = Shown(geTable) /\ gePlan = <<>> /\ geState = "editing" /\ geEdited = 0 /\ geWritten = 0
RvRests ==
    /\ rvResult = <<<<>>>> /\ rvCursor = "open" /\ rvStored = 0 /\ rvView = NoView /\ rvJob = Resting
    /\ rvCancelled = FALSE /\ rvAnswer = [kind |-> "none", rows |-> 0] /\ rvAsked = 0

ResultsInit ==
    /\ part \in Parts /\ Init
    /\ IF part = "shape" THEN EsInit ELSE EsRests
    /\ IF part = "order" THEN VoInit ELSE VoRests
    /\ IF part = "view" THEN RvInit ELSE RvRests
    \* What the grid shows at first: a row of any other column, and perhaps a plain one.
    /\ IF part = "grid"
       THEN GeInit /\ geTable[row1] # NoRow /\ geTable[row1][plain] = "x" /\ geTable[row2] \in {NoRow, PlainRow}
       ELSE GeRests

\* The first view of a result is a plain one; the one after it is any.
Asking == rvAsked = 0 /\ rvAsked' = 1 => rvJob'.filters = <<>> /\ rvJob'.sort # "json" /\ rvJob'.size = 2

ResultsNext ==
    \/ part = "actor" /\ Next /\ UNCHANGED <<esVars, geVars, voVars, rvVars, part>>
    \/ part = "shape" /\ EsNext /\ UNCHANGED <<vars, geVars, voVars, rvVars, part>>
    \/ part = "grid" /\ GeNext /\ UNCHANGED <<vars, esVars, voVars, rvVars, part>>
    \/ part = "order" /\ VoNext /\ UNCHANGED <<vars, esVars, geVars, rvVars, part>>
    \/ part = "view" /\ RvNext /\ Asking /\ UNCHANGED <<vars, esVars, geVars, voVars, part>>

ResultsSpec == ResultsInit /\ [][ResultsNext]_resultsVars

\* The states of all parts are of their types.
ResultsTypeOK ==
    CASE part = "actor" -> TypeOK
      [] part = "shape" -> EsTypeOK
      [] part = "grid" -> GeTypeOK
      [] part = "order" -> VoTypeOK
      [] part = "view" -> RvTypeOK
=============================================================================
