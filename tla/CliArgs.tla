------------------------------ MODULE CliArgs ------------------------------
(***************************************************************************)
(* The command line of "myqueue server": Config::fromArgs                 *)
(* (src/src/core/config.cpp), which fills the daemon's configuration from *)
(* argv, and the second pass of handleServer (src/src/cli/main.cpp) that  *)
(* picks out its own flags.  Both read the same argv, each in its own     *)
(* loop.  And the option loop of "myqueue sb" (handleSubmit, main.cpp)    *)
(* up to the request it sends.                                             *)
(*                                                                         *)
(* An argument is a sequence of characters.  An option name is one symbol *)
(* (<<"--log">>): every conversion of the code stops at its leading '-'   *)
(* and a letter, so its other characters are never told apart.  The       *)
(* conversions of the values (stoul, stod, stoi, getline on ',' and       *)
(* expandPath) are modelled over the characters.                          *)
(***************************************************************************)
EXTENDS IdRange

CONSTANTS
  Values,     \* the value arguments, as character sequences
  MaxArgs,    \* bound: arguments after "myqueue server"
  IntWidth,   \* bits of int (std::stoi)
  Home,       \* $HOME, one path symbol
  Cwd         \* the working directory, one path symbol

VARIABLE argv

LOG == <<"--log">>
GPUMEM == <<"--gpumemory">>
CPUUSAGE == <<"--cpuusage">>
JOBLOG == <<"--joblog">>
EXCPUS == <<"--excpus">>
EXGPUS == <<"--exgpus">>
FOREGROUND == <<"--foreground">>
F == <<"-f">>
INIT == <<"--init">>

\* The options of "myqueue sb"; each takes a value.
NCPU == <<"--ncpu">>
N == <<"-n">>
NGPU == <<"--ngpu">>
G == <<"-g">>
CPUS == <<"--cpus">>
GPUS == <<"--gpus">>
W == <<"-w">>
WORKDIR == <<"--workdir">>
WS == <<"-ws">>
WORKDIRS == <<"--workdirs">>
LOGFILE == <<"--logfile">>
SubmitOptions == {NCPU, N, NGPU, G, CPUS, GPUS, W, WORKDIR, WS, WORKDIRS, LOGFILE}

\* The options fromArgs reads with a value, and every option name.
ValueOptions == {LOG, GPUMEM, CPUUSAGE, EXCPUS, EXGPUS}
Options == ValueOptions \cup {JOBLOG, FOREGROUND, F, INIT}

\* argv of "myqueue server ..." and of "myqueue sb ...".
ServerArgvs == {<<<<"myqueue">>, <<"server">>>> \o a : a \in BoundedSeq(Options \cup Values, MaxArgs)}
SubmitArgvs == {<<<<"myqueue">>, <<"sb">>>> \o a : a \in BoundedSeq(SubmitOptions \cup Values, MaxArgs)}
Argvs == ServerArgvs \cup SubmitArgvs

IntMin == -(2 ^ (IntWidth - 1))
IntMax == 2 ^ (IntWidth - 1) - 1

-----------------------------------------------------------------------------
(* The conversions.                                                        *)

\* expandPath: a leading '~' is replaced by the home directory (getenv
\* HOME, else getpwuid; one of them is taken to answer).
ExpandPath(s) == IF s # <<>> /\ Head(s) = "~" THEN <<Home>> \o Tail(s) ELSE s

\* getAbsolutePath (main.cpp): an absolute path as it is, a leading '~'
\* replaced by $HOME, anything else under the working directory (HOME is
\* set and getcwd succeeds).
GetAbsolutePath(s) ==
  CASE s = <<>>        -> s
    [] Head(s) = "/"   -> s
    [] Head(s) = "~"   -> <<Home>> \o Tail(s)
    [] OTHER           -> <<Cwd, "/">> \o s

\* The sign and digits strtol/strtod take after leading white space.
SignedPrefix(s) ==
  LET t == SkipSpace(s)
      u == IF t # <<>> /\ Head(t) \in {"+", "-"} THEN Tail(t) ELSE t
  IN  [digits |-> DigitPrefix(u),
       val    |-> IF t # <<>> /\ Head(t) = "-" THEN -DecimalValue(DigitPrefix(u))
                  ELSE DecimalValue(DigitPrefix(u))]

\* std::stoi: no digit throws invalid_argument, a value outside int throws
\* out_of_range.
Stoi(s) ==
  LET p == SignedPrefix(s)
  IN  [ok |-> p.digits # <<>> /\ p.val \in IntMin .. IntMax, val |-> p.val]

\* std::stod: no digit throws; the alphabet has no '.', 'e', "inf" or
\* "nan", and no value of it leaves the range of a double.
Stod(s) ==
  LET p == SignedPrefix(s) IN [ok |-> p.digits # <<>>, val |-> p.val]

\* std::getline(ss, item, ','): the pieces between commas; a comma at the
\* end ends the stream without an empty last piece.
RECURSIVE Fields(_)
Fields(s) ==
  LET k == SelectInSeq(s, LAMBDA c : c = ",")
  IN  CASE s = <<>> -> <<>>
        [] k = 0    -> <<s>>
        [] OTHER    -> <<SubSeq(s, 1, k - 1)>> \o Fields(SubSeq(s, k + 1, Len(s)))

\* Mutation: the loop gives up at the first invalid entry.
ParseIntListStopAtInvalid(s) ==
  LET fs == Fields(s)
      n  == SelectInSeq(fs, LAMBDA f : ~Stoi(f).ok)
      ok == IF n = 0 THEN fs ELSE SubSeq(fs, 1, n - 1)
  IN  [k \in DOMAIN ok |-> Stoi(ok[k]).val]

\* parseIntList: stoi of every piece, an invalid one skipped.
ParseIntList(s) ==
  LET ok == SelectSeq(Fields(s), LAMBDA f : Stoi(f).ok)
  IN  [k \in DOMAIN ok |-> Stoi(ok[k]).val]

-----------------------------------------------------------------------------
(* Config::fromArgs and the flag loop of handleServer.                      *)

\* The members fromArgs sets, at their defaults (config.h).
DefaultConfig ==
  [enable_logging |-> FALSE, log_dir |-> <<>>, gpu_memory_threshold_mb |-> 2000,
   cpu_util_threshold |-> 40, enable_job_log |-> FALSE,
   excluded_cpus |-> <<>>, excluded_gpus |-> <<>>]

\* One pass of the loop over argv[i..argc-1] (args).  An option that takes
\* a value and is followed by an argument consumes it (++i), whatever that
\* argument is; a conversion that throws keeps the member as it was.
RECURSIVE ParseArgs(_, _)
ParseArgs(cfg, args) ==
  IF args = <<>> THEN cfg
  ELSE LET arg  == Head(args)
           more == Len(args) > 1
           v    == IF more THEN args[2] ELSE <<>>
           next == IF more THEN Tail(Tail(args)) ELSE <<>>
       IN  CASE arg = LOG /\ more ->
                  ParseArgs([cfg EXCEPT !.enable_logging = TRUE,
                                        !.log_dir = ExpandPath(v)], next)
             [] arg = GPUMEM /\ more ->
                  ParseArgs(IF Stoull(v).ok
                            THEN [cfg EXCEPT !.gpu_memory_threshold_mb = Stoull(v).val]
                            ELSE cfg, next)
             [] arg = CPUUSAGE /\ more ->
                  ParseArgs(IF Stod(v).ok
                            THEN [cfg EXCEPT !.cpu_util_threshold = Stod(v).val]
                            ELSE cfg, next)
             [] arg = JOBLOG ->
                  ParseArgs([cfg EXCEPT !.enable_job_log = TRUE], Tail(args))
             [] arg = EXCPUS /\ more ->
                  ParseArgs([cfg EXCEPT !.excluded_cpus = ParseIntList(v)], next)
             [] arg = EXGPUS /\ more ->
                  ParseArgs([cfg EXCEPT !.excluded_gpus = ParseIntList(v)], next)
             [] OTHER -> ParseArgs(cfg, Tail(args))

\* Config::fromArgs: the loop starts at argv[1].
FromArgs(a) == ParseArgs(DefaultConfig, Tail(a))

\* handleServer's own loop from argv[2]: every argument equal to a flag
\* sets it, whether or not fromArgs took it as a value.
ServerFlags(a) ==
  [foreground |-> \E i \in 3 .. Len(a) : a[i] \in {FOREGROUND, F},
   init_queue |-> \E i \in 3 .. Len(a) : a[i] = INIT]

-----------------------------------------------------------------------------
(* What a well-formed command line means (spec section 2, config.h): an    *)
(* option that takes a value is followed by it, the value of its last      *)
(* occurrence that converts is the setting, and a list is the integers     *)
(* written between its commas.                                             *)

HasDigit(v) == \E k \in DOMAIN v : v[k] \in Digits
IsIntText(f) == IsNumber(f) \/ (f # <<>> /\ Head(f) = "-" /\ IsNumber(Tail(f)))
IntRef(f) == IF Head(f) = "-" THEN -NumberRef(Tail(f)) ELSE NumberRef(f)

\* The entries of a comma-separated list, by their first position.
EntryStarts(s) == {i \in 1 .. Len(s) : i = 1 \/ s[i - 1] = ","}
EntryAt(s, i) ==
  SubSeq(s, i, CHOOSE j \in i - 1 .. Len(s) :
                 /\ j = Len(s) \/ s[j + 1] = ","
                 /\ \A k \in i .. j : s[k] # ",")

\* The integers of a list that fit an int, in the order written.
RefEntries(s) ==
  LET good  == {i \in EntryStarts(s) : IsIntText(EntryAt(s, i))
                                       /\ IntRef(EntryAt(s, i)) \in IntMin .. IntMax}
      order == SetToSortSeq(good, <)
  IN  [k \in DOMAIN order |-> IntRef(EntryAt(s, order[k]))]

\* A value is not an option; a number or a list is written in digits (or
\* has none at all, and is refused).
WellFormedValue(o, v) ==
  /\ v \notin Options
  /\ o \in {GPUMEM, CPUUSAGE} => IsNumber(v) \/ ~HasDigit(v)
  /\ o \in {EXCPUS, EXGPUS} =>
       \A i \in EntryStarts(v) : IsIntText(EntryAt(v, i)) \/ ~HasDigit(EntryAt(v, i))
WellFormedArgv(a) ==
  \A k \in 3 .. Len(a) - 1 : a[k] \in ValueOptions => WellFormedValue(a[k], a[k + 1])

\* The last position where option o is given a value that Good accepts.
LastGiven(a, o, Good(_)) ==
  LET ks == {k \in 3 .. Len(a) - 1 : a[k] = o /\ Good(a[k + 1])}
  IN  IF ks = {} THEN 0 ELSE Max(ks)

RefConfig(a) ==
  LET log == LastGiven(a, LOG, LAMBDA v : TRUE)
      gpu == LastGiven(a, GPUMEM, LAMBDA v : IsNumber(v) /\ NumberRef(v) < Modulus)
      cpu == LastGiven(a, CPUUSAGE, IsNumber)
      exc == LastGiven(a, EXCPUS, LAMBDA v : TRUE)
      exg == LastGiven(a, EXGPUS, LAMBDA v : TRUE)
      Set(k, Conv(_), default) == IF k > 0 THEN Conv(a[k + 1]) ELSE default
  IN  [enable_logging |-> log > 0,
       log_dir |-> Set(log, ExpandPath, <<>>),
       gpu_memory_threshold_mb |-> Set(gpu, NumberRef, DefaultConfig.gpu_memory_threshold_mb),
       cpu_util_threshold |-> Set(cpu, NumberRef, DefaultConfig.cpu_util_threshold),
       enable_job_log |-> \E k \in 3 .. Len(a) : a[k] = JOBLOG,
       excluded_cpus |-> Set(exc, RefEntries, <<>>),
       excluded_gpus |-> Set(exg, RefEntries, <<>>)]

-----------------------------------------------------------------------------
(* handleSubmit of "myqueue sb <script> [options]" (main.cpp), up to the   *)
(* request it sends.                                                        *)

\* Mutation: a submit without --ngpu asks for no GPU.
DefaultSubmitNoGpu ==
  [ncpu |-> 1, ngpu |-> 0, specific_cpus |-> <<>>, specific_gpus |-> <<>>,
   workdir |-> <<>>, workdirs_file |-> <<>>, log_file |-> <<>>, aborted |-> FALSE]

\* The request's members at their initial values in handleSubmit.
DefaultSubmit ==
  [ncpu |-> 1, ngpu |-> 1, specific_cpus |-> <<>>, specific_gpus |-> <<>>,
   workdir |-> <<>>, workdirs_file |-> <<>>, log_file |-> <<>>, aborted |-> FALSE]

\* The option loop from argv[3].  Every option takes a value and consumes
\* the next argument; the stoi of --ncpu and --ngpu is not guarded, so a
\* count it refuses throws out of main and std::terminate aborts the CLI.
RECURSIVE ParseSubmit(_, _)
ParseSubmit(req, args) ==
  IF Len(args) < 2 THEN req
  ELSE LET arg  == Head(args)
           v    == args[2]
           next == Tail(Tail(args))
       IN  CASE arg \in {NCPU, N} /\ ~Stoi(v).ok -> [req EXCEPT !.aborted = TRUE]
             [] arg \in {NCPU, N}  -> ParseSubmit([req EXCEPT !.ncpu = Stoi(v).val], next)
             [] arg \in {NGPU, G} /\ ~Stoi(v).ok -> [req EXCEPT !.aborted = TRUE]
             [] arg \in {NGPU, G}  -> ParseSubmit([req EXCEPT !.ngpu = Stoi(v).val], next)
             [] arg = CPUS -> ParseSubmit([req EXCEPT !.specific_cpus = ParseIntList(v)], next)
             [] arg = GPUS -> ParseSubmit([req EXCEPT !.specific_gpus = ParseIntList(v)], next)
             [] arg \in {W, WORKDIR}   -> ParseSubmit([req EXCEPT !.workdir = GetAbsolutePath(v)], next)
             [] arg \in {WS, WORKDIRS} -> ParseSubmit([req EXCEPT !.workdirs_file = GetAbsolutePath(v)], next)
             [] arg = LOGFILE -> ParseSubmit([req EXCEPT !.log_file = v], next)
             [] OTHER -> ParseSubmit(req, Tail(args))

\* What "myqueue sb" does before it connects: the usage error without a
\* script, the abort, or the request (with the script's absolute path and
\* the working directory as default workdir), sent once ("single") or per
\* directory of the workdirs file ("batch").
SubmitCommand(a) ==
  IF Len(a) < 3 THEN [outcome |-> "usage"]
  ELSE LET r  == ParseSubmit(DefaultSubmit, SubSeq(a, 4, Len(a)))
           wd == IF r.workdir = <<>> /\ r.workdirs_file = <<>> THEN <<Cwd>> ELSE r.workdir
       IN  IF r.aborted THEN [outcome |-> "aborted"]
           ELSE [ncpu |-> r.ncpu, ngpu |-> r.ngpu, specific_cpus |-> r.specific_cpus,
                 specific_gpus |-> r.specific_gpus, workdir |-> wd,
                 workdirs_file |-> r.workdirs_file, log_file |-> r.log_file,
                 script |-> GetAbsolutePath(a[3]),
                 outcome |-> IF r.workdirs_file # <<>> THEN "batch" ELSE "single"]

-----------------------------------------------------------------------------
(* What a well-formed "myqueue sb" command line means: the Submit request *)
(* of spec section 7, each setting from its last option given, one CPU    *)
(* and one GPU (the usage text of main.cpp) when none is.                 *)

WellFormedSubmitValue(o, v) ==
  /\ v \notin SubmitOptions
  /\ o \in {NCPU, N, NGPU, G} => IsIntText(v) \/ ~HasDigit(v)
  /\ o \in {CPUS, GPUS} =>
       \A i \in EntryStarts(v) : IsIntText(EntryAt(v, i)) \/ ~HasDigit(EntryAt(v, i))
WellFormedSubmit(a) ==
  \A k \in 4 .. Len(a) - 1 : a[k] \in SubmitOptions => WellFormedSubmitValue(a[k], a[k + 1])

\* The last position where one of the names os is given a value.
LastOf(a, os) ==
  LET ks == {k \in 4 .. Len(a) - 1 : a[k] \in os}
  IN  IF ks = {} THEN 0 ELSE Max(ks)

\* A count the CLI cannot take: no digit, or outside int.
BadCount(v) == ~(IsIntText(v) /\ IntRef(v) \in IntMin .. IntMax)

RefSubmit(a) ==
  LET Given(os, Conv(_), default) ==
        IF LastOf(a, os) > 0 THEN Conv(a[LastOf(a, os) + 1]) ELSE default
      wd  == Given({W, WORKDIR}, GetAbsolutePath, <<>>)
      wds == Given({WS, WORKDIRS}, GetAbsolutePath, <<>>)
  IN  CASE Len(a) < 3 -> [outcome |-> "usage"]
        [] \E k \in 4 .. Len(a) - 1 : a[k] \in {NCPU, N, NGPU, G} /\ BadCount(a[k + 1]) ->
             [outcome |-> "aborted"]
        [] OTHER ->
             [ncpu |-> Given({NCPU, N}, IntRef, 1), ngpu |-> Given({NGPU, G}, IntRef, 1),
              specific_cpus |-> Given({CPUS}, RefEntries, <<>>),
              specific_gpus |-> Given({GPUS}, RefEntries, <<>>),
              workdir |-> IF wd = <<>> /\ wds = <<>> THEN <<Cwd>> ELSE wd,
              workdirs_file |-> wds, log_file |-> Given({LOGFILE}, LAMBDA v : v, <<>>),
              script |-> GetAbsolutePath(a[3]),
              outcome |-> IF wds # <<>> THEN "batch" ELSE "single"]

-----------------------------------------------------------------------------
(* Each command line is parsed once; IdRange's arguments are parsed beside *)
(* it, with an empty command line, and the reverse.                        *)

CliVars == <<input, argv>>
CliInit ==
  \/ Init /\ argv = <<<<"myqueue">>, <<"server">>>>
  \/ input = <<>> /\ argv \in Argvs
CliNext == UNCHANGED CliVars
CliSpec == CliInit /\ [][CliNext]_CliVars

\* On a command line whose value options are each given a value of their
\* form, Config::fromArgs sets each member from the last occurrence of its
\* option whose value converts (a value stoul/stod refuses keeps the one
\* before), takes a list's entries that fit an int in order, and
\* handleServer's loop sets exactly the flags given.
FromArgsAgreesWithReference ==
  argv \in ServerArgvs /\ WellFormedArgv(argv) =>
    /\ FromArgs(argv) = RefConfig(argv)
    /\ ServerFlags(argv) =
         [foreground |-> \E k \in 3 .. Len(argv) : argv[k] \in {FOREGROUND, F},
          init_queue |-> INIT \in {argv[k] : k \in 3 .. Len(argv)}]

\* On a well-formed "myqueue sb" command line the CLI sends the request the
\* reference reads, taking for each setting the last of its long and short
\* option names given, or aborts exactly when some count is not an int.
SubmitArgsAgreesWithReference ==
  argv \in SubmitArgvs /\ WellFormedSubmit(argv) => SubmitCommand(argv) = RefSubmit(argv)

=============================================================================
