------------------------------- MODULE SysConf -------------------------------
(***************************************************************************)
(* Configuration files with conditions (sys_conf/sys_conf.c and the yacc   *)
(* grammar sys_conf/parser.y).  The semantic actions run while the file is *)
(* read: a statement takes effect when iftrue is set at its end, and the   *)
(* brackets and labels around it set and clear iftrue.  A file is read     *)
(* item by item, an item being what one action of the grammar stands for;  *)
(* the first that the grammar does not allow ends the reading.  The static *)
(* variables of the parser are not initialised by yyparse: they are as the *)
(* previous file left them, and so is the scanner's buffer.                *)
(***************************************************************************)
EXTENDS Integers, Sequences, FiniteSets, FiniteSetsExt

CONSTANTS Names,            \* <<word, case it is written in>>
          Presets,          \* <<name, value>>, given with the file
          Files,            \* sequences of items (a file may also end early)
          SpecTags,         \* the characters of special-student-rules
          MAX_INT_STK_LEN, MaxLoads

VARIABLES sysconf_entry,    \* the variables, newest first
          key_pointer,      \* sysconf_key_pointer, counted from the oldest (0: NULL)
          sstru,
          iftrue, ifevertrue, sw_value, sw_tf, gstk, intstk,
          ctx,              \* where in the grammar yyparse is ("none": not called,
                            \* "gone": the program has ended)
          unread,           \* the items yyparse has not come to
          loads,
          written,           \* history: the items of this file,
          before,           \* the variables before it,
          spoilt,           \* whether an earlier file was refused,
          lucky             \* and whether else-if has read the variable it names

flagvars == <<iftrue, ifevertrue, sw_value, sw_tf>>
stackvars == <<gstk, intstk>>
tablevars == <<sysconf_entry, key_pointer, sstru>>
sysconfvars == <<tablevars, flagvars, stackvars, ctx, unread, loads, written, before, spoilt, lucky>>

NullStr == -1
Entry(ivalue, value, list, slist) ==
    [ivalue |-> ivalue, value |-> value, list |-> list, slist |-> slist]
NoEntry == Entry(-1, NullStr, <<>>, <<>>)

----------------------------------------------------------------------------
\* The table of variables.

\* sysconf_ptr: where the first entry of that name is, 0 for none.
sysconf_ptr(d, key) ==
    LET at == {i \in DOMAIN d : d[i].key[1] = key[1]} IN IF at = {} THEN 0 ELSE Min(at)

Found(d, key) == LET i == sysconf_ptr(d, key) IN IF i = 0 THEN NoEntry ELSE d[i].e

sysconf_int(d, key) == Found(d, key).ivalue
sysconf_str(d, key) == Found(d, key).value
sysconf_get_int_list(d, key) == Found(d, key).list
sysconf_get_str_list(d, key) == Found(d, key).slist

\* addentry_string and what the functions around it set afterwards.
addentry(d, key, e) ==
    LET i == sysconf_ptr(d, key)
    IN  IF i = 0 THEN <<[key |-> key, e |-> e]>> \o d ELSE [d EXCEPT ![i].e = e]

addentry_int(d, key, n) == addentry(d, key, Entry(n, NullStr, <<>>, <<>>))
addentry_string(d, key, s) == addentry(d, key, Entry(-1, s, <<>>, <<>>))
addentry_flag_on(d, key) == addentry(d, key, Entry(1, NullStr, <<>>, <<>>))
addentry_flag_off(d, key) == addentry(d, key, Entry(0, NullStr, <<>>, <<>>))
addentry_intlist(d, key, l) == addentry(d, key, Entry(Len(l), NullStr, l, <<>>))
addentry_strlist(d, key, l) == addentry(d, key, Entry(Len(l), NullStr, <<>>, l))

sysconf_get_first_key ==
    /\ ctx = "none" /\ key_pointer' = Len(sysconf_entry)
    /\ UNCHANGED <<sysconf_entry, sstru, flagvars, stackvars, ctx, unread, loads, written, before, spoilt,
                   lucky>>

sysconf_get_next_key ==
    /\ ctx = "none" /\ key_pointer > 0 /\ key_pointer' = key_pointer - 1
    /\ UNCHANGED <<sysconf_entry, sstru, flagvars, stackvars, ctx, unread, loads, written, before, spoilt,
                   lucky>>

----------------------------------------------------------------------------
\* The grammar: in which context which item may come, and what follows.
Statement == {"number", "string", "on", "off", "ints", "strs", "print", "exit"}

Blocks == {<<"if0", "if1">>, <<"elif0", "elif1">>, <<"else0", "else1">>, <<"labels", "case">>,
           <<"default", "default">>, <<"special", "rest">>}

Grammar ==
    {<<c, s, "top">> : c \in {"start", "top"}, s \in Statement}
        \cup {<<c, "if", "if0">> : c \in {"start", "top"}}
        \cup {<<c, "switch", "switch0">> : c \in {"start", "top"}}
        \cup {<<b[i], s, b[2]>> : b \in Blocks, i \in 1 .. 2, s \in Statement}
        \cup {<<"if1", "close", "top">>, <<"if1", "elif", "elif0">>, <<"if1", "else", "else0">>,
              <<"elif1", "else", "else0">>, <<"else1", "close", "top">>}
        \cup {<<c, "case", "labels">> : c \in {"switch0", "labels", "case", "break"}}
        \cup {<<c, "default", "default">> : c \in {"switch0", "labels", "case", "break"}}
        \cup {<<c, "break", "break">> : c \in {"labels", "case"}}
        \cup {<<"default", "break", "last">>}
        \cup {<<c, "close", "top">> : c \in {"case", "break", "last"}}
        \cup {<<"top", "special", "tags0">>, <<"tags0", "tag", "tags1">>,
              <<"tags1", "tag", "tags1">>, <<"tags1", "close", "special">>}

Lookup(t) == {g \in Grammar : g[1] = ctx /\ g[2] = t}

\* The next item, of kind t, is read where the grammar allows it.  An item is
\* a record: its kind t, a name x, a number or string n and a list l.
Read(t) == ctx \notin {"none", "gone"} /\ unread # <<>> /\ Head(unread).t = t /\ Lookup(t) # {}

\* The history is kept as long as it is of use.
Record == written' = IF spoilt THEN <<>>
                     ELSE Append(written, [item |-> Head(unread),
                                           value |-> Found(sysconf_entry, Head(unread).x).ivalue])
Forget == written' = <<>> /\ before' = sysconf_entry

Accept(t) ==
    /\ Read(t) /\ ctx' = (CHOOSE g \in Lookup(t) : TRUE)[3]
    /\ Record /\ unread' = Tail(unread)
    /\ UNCHANGED <<key_pointer, loads, before, spoilt>>

X == Head(unread).x
N == Head(unread).n
L == Head(unread).l

Truth(b) == IF b THEN 1 ELSE 0

start_if_stm ==
    /\ Accept("if")
    /\ iftrue' = Truth(sysconf_int(sysconf_entry, X) > 0) /\ ifevertrue' = iftrue'
    /\ UNCHANGED <<sysconf_entry, sstru, sw_value, sw_tf, stackvars, lucky>>

\* The condition is taken from $3, which is the bracket: its value is that of
\* the last word before it, whose memory has been given back.  It reads as the
\* name that follows, as any other, or as none; giving it back a second time
\* may end the program.
start_elif_stm ==
    /\ Accept("elif")
    /\ IF ifevertrue = 1
       THEN iftrue' = 0 /\ UNCHANGED <<ifevertrue, lucky>>
       ELSE \E val \in {sysconf_int(sysconf_entry, y) : y \in Names} \cup {-1} :
                /\ iftrue' = Truth(val > 0) /\ ifevertrue' = iftrue'
                /\ lucky' = (lucky /\ val = sysconf_int(sysconf_entry, X))
    /\ UNCHANGED <<sysconf_entry, sstru, sw_value, sw_tf, stackvars>>

ElifAborts ==
    /\ Read("elif") /\ ifevertrue = 0 /\ ctx' = "gone"
    /\ UNCHANGED <<tablevars, flagvars, stackvars, unread, loads, written, before, spoilt, lucky>>

\* Mutant: else looks at the last condition only.
ElseOfLast ==
    /\ Accept("else")
    /\ iftrue' = 1 - iftrue
    /\ UNCHANGED <<sysconf_entry, sstru, ifevertrue, sw_value, sw_tf, stackvars, lucky>>

start_else_stm ==
    /\ Accept("else")
    /\ iftrue' = 1 - ifevertrue
    /\ UNCHANGED <<sysconf_entry, sstru, ifevertrue, sw_value, sw_tf, stackvars, lucky>>

\* A closing bracket: stop_if_stm, stop_else_stm, end_sw_stm, or the end of
\* the special rules.
stop_stm ==
    /\ Accept("close")
    /\ iftrue' = (IF ctx = "tags1" THEN iftrue ELSE 1)
    /\ ifevertrue' = (IF ctx = "else1" THEN 0 ELSE ifevertrue)
    /\ UNCHANGED <<sysconf_entry, sstru, sw_value, sw_tf, stackvars, lucky>>

start_sw_stm ==
    /\ Accept("switch")
    /\ sw_value' = sysconf_int(sysconf_entry, X) /\ iftrue' = 0 /\ sw_tf' = 0
    /\ UNCHANGED <<sysconf_entry, sstru, ifevertrue, stackvars, lucky>>

case_label ==
    /\ Accept("case")
    /\ IF sw_value = N THEN iftrue' = 1 /\ sw_tf' = 1 ELSE UNCHANGED <<iftrue, sw_tf>>
    /\ UNCHANGED <<sysconf_entry, sstru, ifevertrue, sw_value, stackvars, lucky>>

default_label ==
    /\ Accept("default")
    /\ iftrue' = (IF sw_tf = 0 THEN 1 ELSE iftrue)
    /\ UNCHANGED <<sysconf_entry, sstru, ifevertrue, sw_value, sw_tf, stackvars, lucky>>

break_stm ==
    /\ Accept("break")
    /\ iftrue' = 0
    /\ UNCHANGED <<sysconf_entry, sstru, ifevertrue, sw_value, sw_tf, stackvars, lucky>>

\* print writes to stderr only.
print_statement ==
    /\ Accept("print")
    /\ UNCHANGED <<sysconf_entry, sstru, flagvars, stackvars, lucky>>

exit_statement ==
    /\ Read("exit")
    /\ ctx' = (IF iftrue = 1 THEN "gone" ELSE (CHOOSE g \in Lookup("exit") : TRUE)[3])
    /\ Record /\ unread' = Tail(unread)
    /\ UNCHANGED <<tablevars, flagvars, stackvars, loads, before, spoilt, lucky>>

\* The statement of kind t makes the table d, if it counts.
variable_statement(t, d) ==
    /\ Accept(t)
    /\ sysconf_entry' = (IF iftrue = 1 THEN d ELSE sysconf_entry)
    /\ UNCHANGED <<sstru, flagvars, stackvars, lucky>>

Number == variable_statement("number", addentry_int(sysconf_entry, X, N))
String == variable_statement("string", addentry_string(sysconf_entry, X, N))
FlagOn == variable_statement("on", addentry_flag_on(sysconf_entry, X))
FlagOff == variable_statement("off", addentry_flag_off(sysconf_entry, X))

\* comma_list_number and comma_list_string are reduced from the last element
\* to the first, each pushed when there is room; popping restores the order.
Pushed(l) ==
    LET room == MAX_INT_STK_LEN - Len(gstk)
        n == IF Len(l) < room THEN Len(l) ELSE room
    IN  IF iftrue = 1 THEN gstk \o [i \in 1 .. n |-> l[Len(l) + 1 - i]] ELSE gstk

Popped(s) == [i \in 1 .. Len(s) |-> s[Len(s) + 1 - i]]

list_statement(t, isint, d) ==
    /\ Accept(t)
    /\ intstk' = isint /\ gstk' = <<>>
    /\ sysconf_entry' = (IF iftrue = 1 THEN d ELSE sysconf_entry)
    /\ UNCHANGED <<sstru, flagvars, lucky>>

NumberList == list_statement("ints", 1, addentry_intlist(sysconf_entry, X, Popped(Pushed(L))))
StringList == list_statement("strs", 0, addentry_strlist(sysconf_entry, X, Popped(Pushed(L))))

special_definition ==
    /\ Accept("special")
    /\ UNCHANGED <<sysconf_entry, sstru, flagvars, stackvars, lucky>>

\* tag_definition, add_tag_percent and sysconf_add_special, whatever iftrue is.
\* The rule is one of increase (1), lower (2) and normal (3).
tag_definition ==
    /\ Accept("tag")
    /\ sstru' = [sstru EXCEPT ![X] = N]
    /\ UNCHANGED <<sysconf_entry, flagvars, stackvars, lucky>>

----------------------------------------------------------------------------
\* initial_sysconf_module up to yyparse: the new file comes after what the
\* scanner holds of an earlier one.
initial_sysconf_module(preset, file) ==
    /\ ctx = "none" /\ loads < MaxLoads
    /\ loads' = loads + 1 /\ ctx' = "start"
    /\ unread' = unread \o file
    /\ sysconf_entry' = addentry_int(sysconf_entry, preset[1], preset[2])
    /\ before' = sysconf_entry'
    /\ UNCHANGED <<key_pointer, sstru, flagvars, stackvars, written, spoilt, lucky>>

\* The file cannot be opened: the variable has been set all the same.
OpenFails(preset) ==
    /\ ctx = "none" /\ loads < MaxLoads
    /\ loads' = loads + 1
    /\ sysconf_entry' = addentry_int(sysconf_entry, preset[1], preset[2])
    /\ before' = sysconf_entry'
    /\ UNCHANGED <<key_pointer, sstru, flagvars, stackvars, ctx, unread, written, spoilt, lucky>>

\* The file ends, here or after the items that are left.
EndOfFile ==
    /\ ctx \notin {"none", "gone"}
    /\ ctx' = "none" /\ unread' = <<>> /\ Forget
    /\ spoilt' = (spoilt \/ ctx \notin {"top", "special", "rest"})
    /\ UNCHANGED <<tablevars, flagvars, stackvars, loads, lucky>>

\* What is left of an item whose first token is refused, in pieces that will
\* each be refused as the beginning of a file.
Pieces(item) ==
    LET n == CASE item.t \in {"close", "token"} -> 0
               [] item.t \in {"break", "default", "exit", "special"} -> 1
               [] item.t \in {"else", "case", "print"} -> 2
               [] item.t \in {"if", "switch", "number", "string", "on", "off"} -> 3
               [] item.t \in {"elif", "tag"} -> 4
               [] OTHER -> 2 * Len(item.l) + 3
    IN  [i \in 1 .. n |-> [item EXCEPT !.t = "token"]]

\* A syntax error: the static variables stay as they are, and what is left of
\* the text stays in the scanner's buffer for the next call.
SyntaxError ==
    /\ ctx \notin {"none", "gone"} /\ unread # <<>> /\ Lookup(Head(unread).t) = {}
    /\ ctx' = "none" /\ unread' = Pieces(Head(unread)) \o Tail(unread) /\ spoilt' = TRUE /\ Forget
    /\ UNCHANGED <<tablevars, flagvars, stackvars, loads, lucky>>

\* A list without its semicolon: the elements stay on the stack.
ListError ==
    /\ \E t \in {"ints", "strs"} : Read(t) /\ intstk' = Truth(t = "ints")
    /\ ctx' = "none" /\ spoilt' = TRUE /\ Forget
    /\ unread' = IF Len(unread) = 1 THEN <<>>
                 ELSE Pieces(unread[2]) \o SubSeq(unread, 3, Len(unread))
    /\ gstk' = Pushed(L)
    /\ UNCHANGED <<tablevars, flagvars, loads, lucky>>

SysInit ==
    /\ sysconf_entry = <<>> /\ key_pointer = 0 /\ sstru = [c \in SpecTags |-> 0]
    /\ iftrue = 1 /\ ifevertrue = 0 /\ sw_value = 0 /\ sw_tf = 0
    /\ gstk = <<>> /\ intstk = 1
    /\ ctx = "none" /\ unread = <<>> /\ loads = 0
    /\ written = <<>> /\ before = <<>>
    /\ spoilt = FALSE /\ lucky = TRUE

SysNext ==
    \/ sysconf_get_first_key \/ sysconf_get_next_key
    \/ \E p \in Presets : OpenFails(p) \/ \E f \in Files : initial_sysconf_module(p, f)
    \/ start_if_stm \/ start_elif_stm \/ ElifAborts \/ start_else_stm \/ stop_stm
    \/ start_sw_stm \/ case_label \/ default_label \/ break_stm
    \/ Number \/ String \/ FlagOn \/ FlagOff \/ NumberList \/ StringList
    \/ print_statement \/ exit_statement \/ special_definition \/ tag_definition
    \/ EndOfFile \/ SyntaxError \/ ListError

----------------------------------------------------------------------------
\* What a file says, read as a whole.

\* Whether its item i is to be carried out.
Carried(i) ==
    LET is(t) == {j \in 1 .. i : written[j].item.t \in t}
        opened == is({"if", "switch"})
        o == Max(opened)
        conds == {j \in is({"if", "elif", "else"}) : j >= o}
        true(j) == written[j].item.t = "else" \/ written[j].value > 0
        case(j) == written[j].item.t = "case" /\ written[j].item.n = written[o].value
        reached(j) == \/ case(j)
                      \/ written[j].item.t = "default" /\ \A k \in o .. j : ~ case(k)
    IN  \/ opened = {} \/ \E j \in is({"close"}) : j > o
        \/ /\ written[o].item.t = "if"
           /\ true(Max(conds)) /\ \A j \in conds \ {Max(conds)} : ~ true(j)
        \/ /\ written[o].item.t = "switch"
           /\ \E j \in o .. i : reached(j) /\ ~ \E k \in is({"break"}) : k > j

LastOf(l) == IF Len(l) <= MAX_INT_STK_LEN THEN l
             ELSE SubSeq(l, Len(l) - MAX_INT_STK_LEN + 1, Len(l))

Given(item) ==
    LET l == LastOf(item.l)
    IN  CASE item.t = "number" -> Entry(item.n, NullStr, <<>>, <<>>)
          [] item.t = "string" -> Entry(-1, item.n, <<>>, <<>>)
          [] item.t = "on" -> Entry(1, NullStr, <<>>, <<>>)
          [] item.t = "off" -> Entry(0, NullStr, <<>>, <<>>)
          [] item.t = "ints" -> Entry(Len(l), NullStr, l, <<>>)
          [] item.t = "strs" -> Entry(Len(l), NullStr, <<>>, l)

Meant(x) ==
    LET given == {i \in DOMAIN written : /\ written[i].item.t \in Statement \ {"print", "exit"}
                                         /\ written[i].item.x[1] = x[1] /\ Carried(i)}
    IN  IF given = {} THEN Found(before, x) ELSE Given(written[Max(given)].item)

\* As long as no file has been refused, the variables are what the file read as
\* a structured text says: of the branches of an if the first whose condition
\* holds, of a switch the statements from the label of its value to the next
\* break, lists in their order (the last MAX_INT_STK_LEN elements of them), and
\* nothing else, through the names in any case; an else-if that has read some
\* other name excepted.  An exit that is due ends the program.
ReadAsWritten ==
    ~ spoilt /\ lucky =>
        /\ \A x \in Names :
               /\ sysconf_int(sysconf_entry, x) = Meant(x).ivalue
               /\ sysconf_str(sysconf_entry, x) = Meant(x).value
               /\ sysconf_get_int_list(sysconf_entry, x) = Meant(x).list
               /\ sysconf_get_str_list(sysconf_entry, x) = Meant(x).slist
        /\ \A i \in DOMAIN written :
               written[i].item.t = "exit" /\ Carried(i) => i = Len(written) /\ ctx = "gone"
=============================================================================
