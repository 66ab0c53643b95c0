------------------------------ MODULE Settings ------------------------------
(***************************************************************************)
(* The command line of the server (main() of beosserver/ServerMain.cxx)    *)
(* and what it sets: the parameters of rfb/Configuration.cxx, the log      *)
(* levels of rfb/LogWriter.cxx and the list of rfb/secTypes.cxx.  A text   *)
(* is a sequence of words and of the marks - = : , *.                      *)
(***************************************************************************)
EXTENDS Integers, FiniteSets, SequencesExt

CONSTANTS
  Arguments,  \* what can be given
  MaxArgs,    \* bound on how many
  Kind,       \* of each parameter: "bool", "int", "string" or "log"
  Default,    \* its value
  Numerals,   \* the numbers that words stand for
  OtherCase,  \* words in another case, as the program writes them
  Writers,    \* the names of the log writers
  Loggers     \* the names of the loggers

VARIABLES
  argv, i,   \* the arguments, and the next one
  value,     \* of each parameter
  log,       \* of each log writer: its logger and level
  status,   \* "typing" by the user, "reading", "started" or "usage"
  priority   \* of the thread that runs the server

vars == <<argv, i, value, log, status, priority>>

Name == DOMAIN Kind
-----------------------------------------------------------------------------
(* strcasecmp() *)
Plain(word) == IF word \in DOMAIN OtherCase THEN OtherCase[word] ELSE word
Same(text, word) == Len(text) = 1 /\ Plain(text[1]) = Plain(word)

(* The part of a text before the first of a mark, and that behind it. *)
Before(text, mark) ==
  IF Contains(text, mark)
  THEN SubSeq(text, 1, (CHOOSE k \in DOMAIN text : text[k] = mark /\ \A j \in 1 .. k - 1 : text[j] # mark) - 1)
  ELSE text
Behind(text, mark) == SubSeq(text, Len(Before(text, mark)) + 2, Len(text))

(* The items of a list, by one strSplit() after the other. *)
Items(text) ==
  LET items[k \in 0 .. Len(text)] ==
        IF k = 0 THEN <<<<>>>>
        ELSE IF text[k] = "," THEN Append(items[k - 1], <<>>)
        ELSE [items[k - 1] EXCEPT ![Len(items[k - 1])] = Append(@, text[k])]
  IN  items[Len(text)]

atoi(text) ==
  LET negative == text # <<>> /\ text[1] = "-"
      digits == IF negative THEN Tail(text) ELSE text
      number == IF digits # <<>> /\ digits[1] \in DOMAIN Numerals THEN Numerals[digits[1]] ELSE 0
  IN  IF negative THEN -number ELSE number

(* secTypeNum() knows these; the others are passed over. *)
SecurityTypes == {"None", "VncAuth", "RA2", "RA2ne"}
parseSecTypes(text) ==
  LET items == Items(text)
      types[k \in 0 .. Len(items)] ==
        IF k = 0 THEN <<>>
        ELSE IF \E t \in SecurityTypes : Same(items[k], t) THEN Append(types[k - 1], Plain(items[k][1]))
        ELSE types[k - 1]
  IN  types[Len(items)]

-----------------------------------------------------------------------------
(* LogWriter::setLogParams(): <log>:<target>:<level>.  A target that is    *)
(* not there counts as none.                                               *)
WellFormed(item) ==
  /\ Contains(item, ":") /\ Contains(Behind(item, ":"), ":")
  /\ Before(item, ":") = <<"*">> \/ \E w \in Writers : Same(Before(item, ":"), w)

Logger(text) == IF \E l \in Loggers : Same(text, l) THEN Plain(text[1]) ELSE "none"

TargetOf(item) ==
  LET rest == Behind(item, ":") IN [logger |-> Logger(Before(rest, ":")), level |-> atoi(Behind(rest, ":"))]

setLogParams(item, writers) ==
  [w \in Writers |-> IF Before(item, ":") = <<"*">> \/ Same(Before(item, ":"), w) THEN TargetOf(item) ELSE writers[w]]

(* One item after the other, up to the first that is not understood. *)
SetOne(done, item) ==
  IF ~done.ok \/ item = <<>> THEN done
  ELSE IF WellFormed(item) THEN [ok |-> TRUE, log |-> setLogParams(item, done.log)]
  ELSE [ok |-> FALSE, log |-> done.log]

SetAll(items, writers) ==
  LET done[k \in 0 .. Len(items)] == IF k = 0 THEN [ok |-> TRUE, log |-> writers] ELSE SetOne(done[k - 1], items[k])
  IN  done[Len(items)]

NoTarget == [logger |-> "none", level |-> 0]

(* Mutant: the levels that were set before stay. *)
KeepLevels(text, writers) == SetAll(Items(text), writers)

(* LogParameter::setParam() switches every writer off first. *)
LogParameter(text, writers) == SetAll(Items(text), [w \in Writers |-> NoTarget])

On == {"1", "on", "true", "yes"}
Off == {"0", "off", "false", "no"}

(* setParam(name, val): what it returns, and what it changes. *)
Unknown == [ok |-> FALSE, value |-> value, log |-> log]

setParam(name, val) ==
  IF \A n \in Name : ~Same(name, n) THEN Unknown
  ELSE LET n == Plain(name[1])
           Taken(v) == [ok |-> TRUE, value |-> [value EXCEPT ![n] = v], log |-> log]
       IN  CASE Kind[n] = "bool" -> IF val = <<>> \/ \E w \in On : Same(val, w) THEN Taken(TRUE)
                                    ELSE IF \E w \in Off : Same(val, w) THEN Taken(FALSE)
                                    ELSE Unknown
             [] Kind[n] = "int" -> Taken(atoi(val))
             [] Kind[n] = "string" -> Taken(val)
             [] Kind[n] = "log" -> LET set == LogParameter(val, log)
                                   IN  [ok |-> set.ok, value |-> [value EXCEPT ![n] = val], log |-> set.log]

(* setParam() without a value is for what can be turned on. *)
turnOn(name) ==
  IF \E n \in Name : Same(name, n) /\ Kind[n] = "bool"
  THEN [Unknown EXCEPT !.ok = TRUE, !.value[Plain(name[1])] = TRUE] ELSE Unknown

(* setParam(config) of one argument *)
Dashed(text) == text # <<>> /\ text[1] = "-"

Stripped(text) ==
  IF ~Dashed(text) THEN text
  ELSE IF Len(text) > 1 /\ text[2] = "-" THEN Tail(Tail(text))
  ELSE Tail(text)

setConfig(text) ==
  LET config == Stripped(text)
  IN  IF Contains(config, "=") THEN setParam(Before(config, "="), Behind(config, "="))
      ELSE IF config # text THEN turnOn(config)
      ELSE Unknown

-----------------------------------------------------------------------------
Init ==
  /\ argv = <<>> /\ i = 1
  /\ value = Default
  /\ log = [w \in Writers |-> [logger |-> "stdout", level |-> 30]]
  /\ status = "typing"
  /\ priority = 10

Give(argument) ==
  /\ status = "typing" /\ Len(argv) < MaxArgs
  /\ argv' = Append(argv, argument)
  /\ UNCHANGED <<i, value, log, status, priority>>

Launch ==
  /\ status = "typing"
  /\ status' = "reading"
  /\ UNCHANGED <<argv, i, value, log, priority>>

Take(set, n) ==
  /\ value' = set.value /\ log' = set.log
  /\ i' = i + n
  /\ UNCHANGED <<argv, status, priority>>

(* Once round the loop of main(): the argument by itself, else with the    *)
(* next one as its value, else usage() ends the program.                   *)
ReadArgument ==
  /\ status = "reading" /\ i <= Len(argv)
  /\ LET alone == setConfig(argv[i])
         pair == setParam(Tail(argv[i]), argv[i + 1])
     IN  IF alone.ok THEN Take(alone, 1)
         ELSE IF Dashed(argv[i]) /\ i < Len(argv) /\ pair.ok THEN Take(pair, 2)
         ELSE status' = "usage" /\ UNCHANGED <<argv, i, value, log, priority>>

Limited(n) == IF n < 1 THEN 1 ELSE IF n > 20 THEN 20 ELSE n

Start ==
  /\ status = "reading" /\ i > Len(argv)
  /\ status' = "started"
  /\ priority' = Limited(value["ThreadPriority"])
  /\ UNCHANGED <<argv, i, value, log>>

Next == (\E a \in Arguments : Give(a)) \/ Launch \/ ReadArgument \/ Start

Spec == Init /\ [][Next]_vars

-----------------------------------------------------------------------------
(* The arguments are texts, no mark is a parameter, and the program writes *)
(* its own words as it means them.  Log is the parameter with the levels.  *)
WordsAssumption ==
  /\ Arguments \subseteq Seq(STRING)
  /\ {"Log", "ThreadPriority", "SecurityTypes"} \subseteq Name /\ DOMAIN Default = Name
  /\ \A n \in Name : Kind[n] \in {"bool", "int", "string", "log"} /\ (Kind[n] = "log" <=> n = "Log")
  /\ Kind["ThreadPriority"] = "int" /\ Default["ThreadPriority"] \in Int
  /\ Kind["SecurityTypes"] = "string" /\ Default["SecurityTypes"] \in Seq(STRING)
  /\ \A word \in DOMAIN Numerals : Numerals[word] \in Int
  /\ \A word \in Name \cup SecurityTypes \cup On \cup Off : Plain(word) = word
  /\ Plain("-") \notin Name /\ Plain("=") \notin Name

(* What usage() says: an argument is -<param>, -<param> <value>,           *)
(* <param>=<value>, -<param>=<value> or --<param>=<value>.  (--<param> is  *)
(* taken too.)                                                             *)
NameOf(a) == Before(Stripped(a), "=")
Names(a, n) == Same(NameOf(a), n)
Joined(a) == Contains(a, "=")
WantsValue(a) == Dashed(a) /\ ~Joined(a) /\ \A n \in Name : Names(a, n) => Kind[n] # "bool"

(* The arguments that are the value of the one before. *)
Values ==
  CHOOSE V \in SUBSET (2 .. Len(argv)) :
    \A k \in 2 .. Len(argv) : k \in V <=> k - 1 \notin V /\ WantsValue(argv[k - 1])

Options == DOMAIN argv \ Values

(* The value that option k gives. *)
Given(k) == IF Joined(argv[k]) THEN Behind(argv[k], "=") ELSE IF WantsValue(argv[k]) THEN argv[k + 1] ELSE <<>>

Understood(items) == \A j \in DOMAIN items : items[j] = <<>> \/ WellFormed(items[j])

(* A value of the kind of a parameter, and what it means. *)
Fits(n, text) ==
  /\ Kind[n] = "bool" => text = <<>> \/ \E w \in On \cup Off : Same(text, w)
  /\ Kind[n] = "log" => Understood(Items(text))

Meaning(n, text) ==
  CASE Kind[n] = "bool" -> IF \E w \in Off : Same(text, w) THEN FALSE ELSE TRUE
    [] Kind[n] = "int" -> atoi(text)
    [] OTHER -> text

Right(k) ==
  /\ WantsValue(argv[k]) => k < Len(argv) /\ ~(Len(argv[k]) > 1 /\ argv[k][2] = "-")
  /\ Joined(argv[k]) \/ Dashed(argv[k])
  /\ \E n \in Name : Names(argv[k], n) /\ Fits(n, Given(k))

LastOf(n) == {k \in Options : Names(argv[k], n) /\ \A m \in Options : Names(argv[m], n) => m <= k}

(* The target that a list of items gives a log writer in the end. *)
Target(items, w) ==
  LET about == {j \in DOMAIN items : items[j] # <<>> /\ (items[j][1] = "*" \/ Same(Before(items[j], ":"), w))}
  IN  IF about = {} THEN NoTarget ELSE TargetOf(items[CHOOSE j \in about : \A m \in about : m <= j])

(* The server starts if and only if every argument has one of the forms    *)
(* and a value of its kind, whatever stands next to what, and then each    *)
(* parameter has the last value that was given for it, each log writer the *)
(* last target of the last Log option that speaks of it or of all, or none *)
(* if that option speaks of neither.                                       *)
SettingsAreTaken ==
  /\ status = "usage" => \E k \in Options : ~Right(k)
  /\ status = "started" =>
       /\ \A k \in Options : Right(k)
       /\ \A n \in Name :
            IF LastOf(n) = {} THEN value[n] = Default[n]
            ELSE \E k \in LastOf(n) : value[n] = Meaning(n, Given(k))
       /\ \A w \in Writers :
            log[w] = IF LastOf("Log") = {} THEN [logger |-> "stdout", level |-> 30]
                     ELSE Target(Items(value["Log"]), w)
       /\ \A t \in SecurityTypes :
            Cardinality({j \in DOMAIN parseSecTypes(value["SecurityTypes"]) :
                           parseSecTypes(value["SecurityTypes"])[j] = t}) =
            Cardinality({j \in DOMAIN Items(value["SecurityTypes"]) :
                           Same(Items(value["SecurityTypes"])[j], t)})
       /\ priority \in 1 .. 20

=============================================================================
