-------------------------------- MODULE Options --------------------------------
(***************************************************************************)
(* The command line of the benchmark command and the endpoint: gobench/    *)
(* config.go, with the flag and strconv packages it calls, and             *)
(* src/config.ts, with Number.parseInt.                                    *)
(*                                                                         *)
(* --iterations and --concurrency stand for the ten counts, which are      *)
(* parsed alike; the options that are strings without an effect of their   *)
(* own are left out, and so are -x and --x=y.                              *)
(***************************************************************************)
EXTENDS Sorting, OperationTypes, Names

CONSTANTS
  MaxInt,         \* the largest int of the Go program
  MaxSafe         \* the largest number up to which a double has every integer

ASSUME RangesAssumption == MaxInt \in Nat /\ MaxSafe \in Nat

Flags == {"--iterations", "--concurrency", "--operations", "--endpoint",
          "--keep-buckets", "--help"}

Counts == {"--iterations", "--concurrency"}

\* The flags of Go that take no value.
Switches == {"--keep-buckets", "--help"}

\* Values of an option: that it was not given, and `true` in TypeScript.
Absent == "(absent)"
Bare == "(true)"

StartsWith(token, start) ==
  Len(token) >= Len(start) /\ SubSeq(token, 1, Len(start)) = start

\* The entries of a comma-separated list, trimmed.
Entries(text) ==
  CASE text \in {"", " "} -> <<"">>
    [] text = "," -> <<"", "">>
    [] text = "put-new,get-local" -> <<"put-new", "get-local">>
    [] text = "put-new,put-new" -> <<"put-new", "put-new">>
    [] text = "put-new," -> <<"put-new", "">>
    [] OTHER -> <<text>>

\* What a parser returns.
Rejected ==
  [status |-> "rejected", iterations |-> 0, concurrency |-> 0, operations |-> <<>>,
   keep |-> FALSE, endpoint |-> ""]
Help == [Rejected EXCEPT !.status = "help"]

\* The options that a parser has, each with its value.
NothingGiven == [f \in Flags |-> Absent]
Give(given, flag, value) ==
  [f \in DOMAIN given \union {flag} |-> IF f = flag THEN value ELSE given[f]]
-----------------------------------------------------------------------------
(***************************************************************************)
(* Numerals, each the sequence of its characters                           *)
(***************************************************************************)

Digits ==
  <<"0", "1", "2", "3", "4", "5", "6", "7", "8", "9", "a", "b", "c", "d", "e", "f">>

Decimal == {Digits[i] : i \in 1 .. 10}

LowerCase(c) == IF c \in DOMAIN Lower THEN Lower[c] ELSE c

\* The digit that c is, in capitals or not, and one of no base if it is none.
DigitOf(c) ==
  LET places == {i \in 1 .. 16 : Digits[i] = LowerCase(c)}
  IN  IF places = {} THEN 16 ELSE (CHOOSE i \in places : TRUE) - 1

\* What the digits say; an underscore says nothing.
Numeral(digits, base) ==
  LET value[i \in 0 .. Len(digits)] ==
        IF i = 0 THEN 0
        ELSE IF digits[i] = "_" THEN value[i - 1] ELSE value[i - 1] * base + DigitOf(digits[i])
  IN  value[Len(digits)]

Signs == {"+", "-"}
Unsigned(text) == IF text # <<>> /\ text[1] \in Signs THEN Tail(text) ELSE text

\* Less than any number.
NotANumber == -(MaxInt + 2)

\* An underscore comes after a digit or a base and before a digit.
IsSeparator(digits, i, based) ==
  /\ i > 1 \/ based
  /\ i < Len(digits) /\ digits[i + 1] # "_"

\* strconv.ParseInt(text, 0, strconv.IntSize): a zero in front gives the base,
\* with a letter or alone; the whole text is a numeral, and no larger than an int.
Bases == [b |-> 2, o |-> 8, x |-> 16]

GoNumber(text) ==
  LET s == Unsigned(text)
      zero == s # <<>> /\ s[1] = "0"
      letter == zero /\ Len(s) >= 3 /\ LowerCase(s[2]) \in DOMAIN Bases
      base == IF letter THEN Bases[LowerCase(s[2])] ELSE IF zero THEN 8 ELSE 10
      digits == SubSeq(s, IF letter THEN 3 ELSE IF zero THEN 2 ELSE 1, Len(s))
      isNumeral ==
        /\ s # <<>>
        /\ \A i \in DOMAIN digits :
             IF digits[i] = "_" THEN IsSeparator(digits, i, zero) ELSE DigitOf(digits[i]) < base
      value == Numeral(digits, base)
  IN  CASE isNumeral /\ text[1] # "-" /\ value \in 0 .. MaxInt -> value
        [] isNumeral /\ text[1] = "-" /\ value \in 0 .. MaxInt + 1 -> -value
        [] OTHER -> NotANumber

Blank == {" ", "\t", "\n"}

\* How many characters of a kind the text begins with.
Leading(text, kind) ==
  Cardinality({n \in DOMAIN text : \A i \in 1 .. n : text[i] \in kind})

\* MaxSafe + 1 stands for whatever a larger number is rounded to.
Rounded(value) == IF value \in 0 .. MaxSafe THEN value ELSE MaxSafe + 1

\* Number.parseInt(text, 10): the decimal digits in front are enough.  (NaN is
\* not written for numbers of more than 308 digits, which are Infinity.)
TsNumber(text) ==
  LET trimmed == SubSeq(text, Leading(text, Blank) + 1, Len(text))
      s == Unsigned(trimmed)
      digits == SubSeq(s, 1, Leading(s, Decimal))
      value == Rounded(Numeral(digits, 10))
  IN  CASE digits = <<>> -> NotANumber
        [] digits # <<>> /\ trimmed[1] # "-" -> value
        [] OTHER -> -value
-----------------------------------------------------------------------------
(***************************************************************************)
(* The environment                                                         *)
(***************************************************************************)

\* LoadDotEnv: a line of .env sets what is not set, so the first one counts.
GoEnvironment(env, file) ==
  IF env # Absent \/ file = <<>> THEN env ELSE file[1]

\* dotenv/config: the last line of a name counts, if it is not set.
TsEnvironment(env, file) ==
  IF env # Absent \/ file = <<>> THEN env ELSE file[Len(file)]

\* LoadAuthConfig: the option, unless it is empty; then the environment.
AuthEndpoint(option, environment) ==
  CASE option \notin {Absent, Bare, ""} -> option
    [] environment = Absent -> ""
    [] OTHER -> environment
-----------------------------------------------------------------------------
(***************************************************************************)
(* Go                                                                      *)
(***************************************************************************)

\* What is no flag ends them, a lone dash as well; so does --.
EndsFlags(token) == ~StartsWith(token, "-") \/ token \in {"-", "--"}

\* One token of flag.FlagSet.Parse: the value of a flag, whatever it looks like,
\* or a flag, or the end of the flags.  The first value that is no number where
\* one is asked for is an error, and so is an unknown flag.
GoToken(s, token) ==
  CASE s.state # "flags" -> s
    [] s.state = "flags" /\ s.flag # Absent ->
         IF s.flag \in Counts /\ GoNumber(Characters(token)) = NotANumber
         THEN [s EXCEPT !.state = "error"]
         ELSE [given |-> Give(s.given, s.flag, token), flag |-> Absent, state |-> "flags"]
    [] s.state = "flags" /\ s.flag = Absent ->
         CASE token \in Switches -> [s EXCEPT !.given = Give(@, token, Bare)]
           [] token \in Flags \ Switches -> [s EXCEPT !.flag = token]
           [] OTHER -> [s EXCEPT !.state = IF EndsFlags(token) THEN "rest" ELSE "error"]

\* flag.FlagSet.Parse takes one token after another.
GoParse(args) ==
  LET s[k \in 0 .. Len(args)] ==
        IF k = 0 THEN [given |-> NothingGiven, flag |-> Absent, state |-> "flags"]
                 ELSE GoToken(s[k - 1], args[k])
  IN  s[Len(args)]

\* parseOperations: a list with an empty entry is an error.
GoOperations(text) ==
  IF text \in {Absent, "", " "} THEN OperationNames ELSE Entries(text)

\* What Parse has left in a count.
GoCount(text, default) ==
  IF text = Absent THEN default ELSE GoNumber(Characters(text))

\* Mutant of GoConcurrency: the option is taken as it is.
GoConcurrencyRaw(text) == GoCount(text, 1)

\* max(1, *concurrency)
GoConcurrency(text) ==
  LET count == GoCount(text, 1) IN IF count < 1 THEN 1 ELSE count

\* ParseBenchmarkArgs; --help is looked at once all flags have been parsed.
GoOptions(args, env, file) ==
  LET parsed == GoParse(args)
      given == parsed.given
      operations == GoOperations(given["--operations"])
      wrong == parsed.state = "error" \/ parsed.flag # Absent
  IN  CASE wrong -> Rejected
        [] ~wrong /\ given["--help"] # Absent -> Help
        [] ~wrong /\ given["--help"] = Absent
             /\ \E i \in DOMAIN operations : operations[i] \notin OperationName -> Rejected
        [] OTHER ->
             [status |-> "accepted",
              iterations |-> GoCount(given["--iterations"], 50),
              concurrency |-> GoConcurrency(given["--concurrency"]),
              operations |-> operations,
              keep |-> given["--keep-buckets"] # Absent,
              endpoint |-> AuthEndpoint(given["--endpoint"], GoEnvironment(env, file))]
-----------------------------------------------------------------------------
(***************************************************************************)
(* TypeScript                                                              *)
(***************************************************************************)

\* One token of parseArgs: the value of the flag before it, unless it is empty
\* or a flag itself.  Every flag takes a value, and no flag is unknown.
TsToken(s, token) ==
  CASE StartsWith(token, "--") ->
         [given |-> Give(s.given, token, Bare), flag |-> token]
    [] ~StartsWith(token, "--") /\ token # "" /\ s.flag # Absent ->
         [given |-> Give(s.given, s.flag, token), flag |-> Absent]
    [] OTHER -> [s EXCEPT !.flag = Absent]

TsParse(args) ==
  LET s[k \in 0 .. Len(args)] ==
        IF k = 0 THEN [given |-> NothingGiven, flag |-> Absent] ELSE TsToken(s[k - 1], args[k])
  IN  s[Len(args)]

\* parseOperations: empty entries are passed over.
TsOperations(text) ==
  LET entries == Entries(text)
      kept == Ascending({i \in DOMAIN entries : entries[i] # ""})
  IN  IF text \in {Absent, Bare} \/ kept = <<>> THEN OperationNames
      ELSE [k \in DOMAIN kept |-> entries[kept[k]]]

\* parseInteger, whose error for what is no number or below zero TsOptions sees
\* to; true is no number.
TsCount(text, default) ==
  CASE text = Absent -> default
    [] text = Bare -> NotANumber
    [] OTHER -> TsNumber(Characters(text))

\* loadAuthConfig and loadBenchmarkOptions, after the test for --help in main().
TsOptions(args, env, file) ==
  LET given == TsParse(args).given
      operations == TsOperations(given["--operations"])
      concurrency == TsCount(given["--concurrency"], 1)
  IN  CASE given["--help"] # Absent -> Help
        [] given["--help"] = Absent /\ \E f \in Counts : TsCount(given[f], 1) < 0 -> Rejected
        [] given["--help"] = Absent
             /\ \E i \in DOMAIN operations : operations[i] \notin OperationName -> Rejected
        [] OTHER ->
             [status |-> "accepted",
              iterations |-> TsCount(given["--iterations"], 50),
              concurrency |-> IF concurrency < 1 THEN 1 ELSE concurrency,
              operations |-> operations,
              keep |-> given["--keep-buckets"] # Absent,
              endpoint |-> AuthEndpoint(given["--endpoint"], TsEnvironment(env, file))]
-----------------------------------------------------------------------------
(***************************************************************************)
(* What the help text allows                                               *)
(***************************************************************************)

\* A count as one writes it: decimal digits, none of them in vain, that neither
\* tool finds too large.
IsCount(value) ==
  LET text == Characters(value)
  IN  /\ text \in Seq(Decimal) \ {<<>>}
      /\ text[1] = "0" => Len(text) = 1
      /\ Numeral(text, 10) \in (0 .. MaxInt) \intersect (0 .. MaxSafe)

\* A count, operations or a URL, which looks like no option.
IsDocumentedValue(flag, value) ==
  /\ value \notin {"", Absent, Bare} /\ ~StartsWith(value, "--")
  /\ flag \in Counts => IsCount(value)
  /\ flag = "--operations" =>
       \A i \in DOMAIN Entries(value) : Entries(value)[i] \in OperationName

\* A switch, or an option with its value.
IsDocumented(piece) ==
  \/ Len(piece) = 1 /\ piece[1] \in Switches
  \/ /\ Len(piece) = 2 /\ piece[1] \in Flags \ Switches
     /\ IsDocumentedValue(piece[1], piece[2])
=============================================================================
