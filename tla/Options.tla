------------------------------ MODULE Options ------------------------------
(***************************************************************************)
(* The options of DLB (support/options.c) and the types of their values    *)
(* (support/types.c): every option is taken from the arguments of          *)
(* DLB_Init, from DLB_ARGS or from a variable of its own, parsed by its    *)
(* type, and printed back.                                                 *)
(*                                                                         *)
(* A text is a sequence of words: the part between two separators of a     *)
(* list is one word.  Of a long list of choices, the model keeps some.     *)
(***************************************************************************)
EXTENDS Integers, Sequences, FiniteSets, SequencesExt

-----------------------------------------------------------------------------
(* Types *)

(* A choice of one value.  alias has deprecated words.                     *)
Choice(names, alias) == [kind |-> "choice", names |-> names, alias |-> alias]

NoAlias == [w \in {} |-> {}]

(* A set of flags: names in the order of printing; words with a meaning of *)
(* their own; the words that are looked at only if they are the whole      *)
(* text; and the values that are printed as one word.                      *)
Flags(names, words, whole, printed) ==
    [kind |-> "flags", names |-> names, words |-> words, whole |-> whole, printed |-> printed]

FlagNames(names, more) ==
    [w \in ToSet(names) \cup DOMAIN more |-> IF w \in DOMAIN more THEN more[w] ELSE {w}]

bool == [kind |-> "bool"]

(* The words of the numbers that the model uses.                           *)
int == [kind |-> "int", numbers |-> [w \in {"0", "7", "8"} |-> CASE w = "0" -> 0 [] w = "7" -> 7 [] w = "8" -> 8]]

text == [kind |-> "text"]

(* VB_ALL and INST_ALL have bits that no name has.                         *)
verbose_opts ==
    LET names == <<"api", "mngo">>
        all == {"api", "mngo", "other bits"}
    IN  Flags(names, FlagNames(names, [w \in {"no", "all"} |-> IF w = "no" THEN {} ELSE all]),
              [w \in {"yes"} |-> all], << <<{}, "no">>, <<all, "all">> >>)

verbose_fmt ==
    LET names == <<"node", "spid">>
    IN  Flags(names, FlagNames(names, NoAlias), NoAlias, << >>)

instrument_items ==
    LET names == <<"mpi", "lewi">>
        all == {"mpi", "lewi", "other bits"}
    IN  Flags(names, FlagNames(names, [w \in {"none", "all"} |-> IF w = "none" THEN {} ELSE all]),
              [w \in {"yes", "no"} |-> IF w = "yes" THEN all ELSE {}],
              << <<{}, "none">>, <<all, "all">> >>)

debug_opts ==
    LET names == <<"werror", "return-stolen">>
    IN  Flags(names, FlagNames(names, NoAlias), NoAlias, << >>)

lewi_affinity ==
    Choice(<<"auto", "none", "mask", "nearby-first">>, [w \in {"any"} |-> "mask"])

(* SUMMARY_ALL leaves out pop-raw and node.                                *)
talp_summary ==
    LET names == <<"pop-metrics", "pop-raw", "node", "process">>
        all == {"pop-metrics", "process", "other bits"}
    IN  Flags(names,
              FlagNames(names, [w \in {"none", "all", "app"} |->
                 CASE w = "none" -> {} [] w = "all" -> all [] w = "app" -> {"pop-metrics"}]),
              [w \in {"yes", "no"} |-> IF w = "yes" THEN {"pop-metrics"} ELSE {}],
              << <<{}, "none">>, <<all, "all">> >>)

mngo_mode == Choice(<<"helper-thread", "regions">>, NoAlias)

talp_model == Choice(<<"hybrid-v1", "hybrid-v2">>, NoAlias)

talp_component ==
    LET names == <<"default", "mpi", "openmp", "gpu", "hwc">>
    IN  Flags(names,
              FlagNames(names, [w \in {"cuda", "omp", "papi"} |->
                 CASE w = "cuda" -> {"gpu"} [] w = "omp" -> {"openmp"} [] w = "papi" -> {"hwc"}]),
              [w \in {"yes", "no", "none"} |-> IF w = "yes" THEN {"default"} ELSE {}],
              << <<{}, "none">> >>)

mode == Choice(<<"polling", "async">>, NoAlias)

mpiset == Choice(<<"none", "all", "barrier", "collectives">>, NoAlias)

omptool_opts ==
    LET names == <<"borrow", "lend">>
    IN  Flags(names, FlagNames(names, [w \in {"none"} |-> {}]), NoAlias, << >>)

omptm_version == Choice(<<"none", "omp5", "free-agents", "role-shift">>, NoAlias)

(* Mutant: a list is read up to its first word. *)
parse_flags_first(t, str) ==
    IF str # << >> /\ str[1] \in DOMAIN t.words THEN t.words[str[1]] ELSE {}

(* Unknown words are left out.                                             *)
parse_flags(t, str) ==
    IF Len(str) = 1 /\ str[1] \in DOMAIN t.whole THEN t.whole[str[1]]
    ELSE UNION {t.words[str[i]] : i \in {i \in DOMAIN str : str[i] \in DOMAIN t.words}}

(* The value of a text; none if it is not one of the type.                 *)
set_value(t, str) ==
    CASE t.kind = "flags" -> {parse_flags(t, str)}
      [] t.kind = "choice" -> {w \in ToSet(t.names) : \/ str = <<w>>
                                                      \/ \E a \in DOMAIN t.alias : str = <<a>> /\ t.alias[a] = w}
      [] t.kind = "bool" -> {b \in BOOLEAN : str \in IF b THEN {<<"yes">>, <<"1">>} ELSE {<<"no">>, <<"0">>}}
      [] t.kind = "int" -> {n \in {t.numbers[w] : w \in DOMAIN t.numbers} :
                              \E w \in DOMAIN t.numbers : str = <<w>> /\ t.numbers[w] = n}
      [] t.kind = "text" -> {str}

(* Flags are written to a static buffer of their type, which holds the     *)
(* text old; without a flag and without a word for none it stays.          *)
get_value(t, value, old) ==
    CASE t.kind = "flags" ->
           LET one == SelectInSeq(t.printed, LAMBDA p : p[1] = value)
               some == SelectSeq(t.names, LAMBDA w : w \in value)
           IN  IF one > 0 THEN <<t.printed[one][2]>> ELSE IF some = << >> THEN old ELSE some
      [] t.kind = "choice" -> <<value>>
      [] t.kind = "bool" -> IF value THEN <<"yes">> ELSE <<"no">>
      [] t.kind = "int" -> <<CHOOSE w \in DOMAIN t.numbers : t.numbers[w] = value>>
      [] t.kind = "text" -> value

-----------------------------------------------------------------------------
(* The dictionary *)

Option(arg, var, type, default, flags) ==
    [arg |-> arg, var |-> var, type |-> type, default |-> default, flags |-> flags]

(* An option of every type, and those that change others.                  *)
options_dictionary ==
    <<Option("lewi", "LB_LEWI", bool, <<"no">>, {"READONLY"}),
      Option("drom", "LB_DROM", bool, <<"no">>, {"READONLY"}),
      Option("talp", "LB_TALP", talp_component, <<"none">>, {}),
      Option("mngo", "LB_MNGO", bool, <<"no">>, {}),
      Option("mode", "LB_MODE", mode, <<"polling">>, {"READONLY"}),
      Option("verbose", "LB_VERBOSE", verbose_opts, <<"no">>, {"READONLY"}),
      Option("verbose-format", "LB_VERBOSE_FORMAT", verbose_fmt, <<"node", "spid">>, {"READONLY"}),
      Option("instrument", "LB_NULL", instrument_items, <<"all">>, {"READONLY"}),
      Option("lewi-respect-mask", "LB_NULL", bool, <<"yes">>, {"DEPRECATED", "UNUSED"}),
      Option("lewi-mpi-calls", "LB_NULL", mpiset, <<"all">>, {}),
      Option("lewi-affinity", "LB_NULL", lewi_affinity, <<"auto">>, {}),
      Option("lewi-ompt", "LB_NULL", omptool_opts, <<"borrow">>, {}),
      Option("talp-openmp", "LB_NULL", bool, <<"no">>, {"READONLY", "DEPRECATED"}),
      Option("talp-papi", "LB_NULL", bool, <<"no">>, {"READONLY", "DEPRECATED"}),
      Option("talp-summary", "LB_TALP_SUMM", talp_summary, <<"pop-metrics">>, {"READONLY"}),
      Option("talp-external-profiler", "LB_NULL", bool, <<"no">>, {"READONLY"}),
      Option("talp-gpu-backend", "LB_NULL", text, << >>, {"READONLY"}),
      Option("talp-model", "LB_NULL", talp_model, <<"hybrid-v2">>, {"READONLY"}),
      Option("mngo-mode", "LB_NULL", mngo_mode, <<"regions">>, {"READONLY"}),
      Option("shm-key", "LB_SHM_KEY", text, << >>, {"READONLY"}),
      Option("preinit-pid", "LB_PREINIT_PID", int, <<"0">>, {"READONLY"}),
      Option("ompt-thread-manager", "LB_NULL", omptm_version, <<"omp5">>, {}),
      Option("plugin", "LB_NULL", text, << >>, {"READONLY", "DEPRECATED"}),
      Option("debug-opts", "LB_DEBUG_OPTS", debug_opts, << >>, {})>>

Used == {e \in ToSet(options_dictionary) : "UNUSED" \notin e.flags}

(* The first entry of the name, if there is one.                           *)
get_entry_by_name(name) ==
    LET i == SelectInSeq(options_dictionary, LAMBDA e : name \in {e.arg, e.var})
    IN  IF i = 0 THEN {} ELSE {options_dictionary[i]}

GPU_PLUGINS == {<<"cupti">>, <<"rocprofiler-sdk">>, <<"rocprofilerv2">>}

-----------------------------------------------------------------------------
(* Arguments: a token is an option with a value, which may be empty, or    *)
(* the option alone, or the option with --no-.                             *)

Valued(name, value) == [name |-> name, form |-> "value", value |-> value]

Alone(name) == [name |-> name, form |-> "alone", value |-> <<"yes">>]

Negated(name) == [name |-> name, form |-> "no", value |-> <<"no">>]

(* The last value of the option, and the arguments without it.             *)
parse_dlb_args(args, name) ==
    LET found == SelectSeq(args, LAMBDA token : token.name = name /\ token.value # << >>)
    IN  [value |-> IF found = << >> THEN << >> ELSE Last(found).value,
         rest |-> SelectSeq(args, LAMBDA token : token.name # name)]

(* env is the environment: a function of the variables that are set.       *)
EnvArgs(env) ==
    IF "DLB_ARGS" \in DOMAIN env THEN env["DLB_ARGS"]
    ELSE IF "LB_ARGS" \in DOMAIN env THEN env["LB_ARGS"] ELSE << >>

(* The text of an option, if there is one: DLB_ARGS before the arguments   *)
(* of DLB_Init before the variable of the option.                          *)
rhs(e, api, args, env) ==
    IF parse_dlb_args(args, e.arg).value # << >> THEN {parse_dlb_args(args, e.arg).value}
    ELSE IF parse_dlb_args(api, e.arg).value # << >> THEN {parse_dlb_args(api, e.arg).value}
    ELSE IF e.var \in DOMAIN env THEN {env[e.var]} ELSE {}

(* The value of the text, or the default one.                              *)
ValueOf(e, str) ==
    LET values == UNION {set_value(e.type, t) : t \in str}
    IN  CHOOSE v \in IF values # {} THEN values ELSE set_value(e.type, e.default) : TRUE

(* One turn of the loop: the option is set and leaves the arguments.       *)
SetOption(state, e, env) ==
    [options |-> [o \in DOMAIN state.options |->
                    IF o = e.arg THEN ValueOf(e, rhs(e, state.api, state.args, env)) ELSE state.options[o]],
     api |-> parse_dlb_args(state.api, e.arg).rest,
     args |-> parse_dlb_args(state.args, e.arg).rest]

(* Deprecated options and MNGO change others.                              *)
Implied(options) ==
    LET gpu == options["plugin"] \in GPU_PLUGINS
        talp == options["talp"] \cup (IF options["talp-openmp"] THEN {"openmp"} ELSE {})
                               \cup (IF options["talp-papi"] THEN {"hwc"} ELSE {})
                               \cup (IF gpu THEN {"gpu"} ELSE {})
                               \cup (IF options["mngo"] THEN {"mpi"} ELSE {})
    IN  [options EXCEPT !["talp"] = talp,
           !["talp-gpu-backend"] = IF gpu /\ @ = << >> THEN options["plugin"] ELSE @,
           !["talp-external-profiler"] = @ \/ options["mngo"]]

(* The options, and whether unknown arguments are fatal.                   *)
options_init(api, env) ==
    LET first == [options |-> [o \in {e.arg : e \in Used} |-> {}], api |-> api, args |-> EnvArgs(env)]
        end == FoldLeft(LAMBDA state, e : SetOption(state, e, env), first, options_dictionary)
        options == Implied(end.options)
    IN  [options |-> options,
         fatal |-> "werror" \in options["debug-opts"] /\ (end.api # << >> \/ end.args # << >>)]

(* What a tool that has not called DLB_Init reads.                         *)
options_parse_entry(name, env) ==
    LET e == CHOOSE e \in get_entry_by_name(name) : TRUE
        value == parse_dlb_args(IF "DLB_ARGS" \in DOMAIN env THEN env["DLB_ARGS"] ELSE << >>, e.arg).value
    IN  ValueOf(e, {value} \ {<< >>})

options_set_variable(options, name, str) ==
    LET settable == {e \in get_entry_by_name(name) : "READONLY" \notin e.flags}
        values == UNION {set_value(e.type, str) : e \in settable}
    IN  [o \in DOMAIN options |->
           IF values # {} /\ (\E e \in settable : o = e.arg) THEN CHOOSE v \in values : TRUE ELSE options[o]]

options_get_variable(options, name, old) ==
    LET e == CHOOSE e \in get_entry_by_name(name) : TRUE IN get_value(e.type, options[e.arg], old)

-----------------------------------------------------------------------------
(* The environment of the process that is going to be executed *)

(* Mutant: the arguments replace those of the user. *)
dlb_setenv_overwrite(env, name, value, condition) ==
    IF name \notin DOMAIN env /\ condition = "ENV_UPDATE_IF_EXISTS" THEN env
    ELSE [n \in DOMAIN env \cup {name} |-> IF n = name THEN value ELSE env[n]]

dlb_setenv(env, name, value, condition) ==
    IF \/ name \notin DOMAIN env /\ condition = "ENV_UPDATE_IF_EXISTS"
       \/ name \in DOMAIN env /\ condition = "ENV_OVERWRITE_NEVER"
    THEN env
    ELSE [n \in DOMAIN env \cup {name} |->
            IF n # name THEN env[n]
            ELSE IF n \in DOMAIN env /\ condition = "ENV_APPEND" THEN env[n] \o value ELSE value]

(* DLB_DROM_PreInit with the words of the pid and of the number of CPUs;   *)
(* the number is 0 if there is no mask.                                    *)
DLB_DROM_PreInit(env, pid, return_stolen, ncpus) ==
    LET drom_args == <<Valued("drom", <<"1">>), Valued("preinit-pid", <<pid>>)>>
                       \o (IF return_stolen THEN <<Valued("debug-opts", <<"return-stolen">>)>> ELSE << >>)
        next == dlb_setenv(env, "DLB_ARGS", drom_args, "ENV_APPEND")
    IN  IF ncpus = "0" THEN next
        ELSE dlb_setenv(next, "OMP_NUM_THREADS", <<ncpus>>, "ENV_UPDATE_IF_EXISTS")

-----------------------------------------------------------------------------
(* Properties, of the arguments api of DLB_Init and the environment env *)

(* A process that is executed with the environment of DLB_DROM_PreInit     *)
(* takes the place that was reserved for it, whatever its own arguments    *)
(* say, in the shared memory that the tool uses; and all its other options *)
(* are those of its user.                                                  *)
ChildTakesItsPlace(api, env, return_stolen) ==
    LET child == DLB_DROM_PreInit(env, "7", return_stolen, "8")
        with == options_init(api, child).options
        without == options_init(api, env).options
        changed == {"drom", "preinit-pid"} \cup (IF return_stolen THEN {"debug-opts"} ELSE {})
    IN  /\ with["drom"] /\ with["preinit-pid"] = 7
        /\ return_stolen => "return-stolen" \in with["debug-opts"]
        /\ \A o \in DOMAIN with \ changed : with[o] = without[o]
        /\ options_parse_entry("LB_SHM_KEY", env) = options_parse_entry("LB_SHM_KEY", child)
        /\ "LB_SHM_KEY" \notin DOMAIN env /\ (\A i \in DOMAIN api : api[i].name # "shm-key") =>
             with["shm-key"] = options_parse_entry("LB_SHM_KEY", child)
        /\ "OMP_NUM_THREADS" \in DOMAIN child <=> "OMP_NUM_THREADS" \in DOMAIN env
        /\ "OMP_NUM_THREADS" \in DOMAIN env => child["OMP_NUM_THREADS"] = <<"8">>

(* No flag, in a type that has no word for it.                             *)
Unprinted(t, value) ==
    t.kind = "flags" /\ value = {} /\ \A i \in DOMAIN t.printed : t.printed[i][1] # {}

(* A program that saves an option with DLB_GetVariable and restores it     *)
(* with DLB_SetVariable has the option as it was, whatever flags were      *)
(* printed before; except an option without flags whose type has no word   *)
(* for none, once flags of that type were printed (types.c:357, :875).     *)
SavedIsRestored(api, env) ==
    LET options == options_init(api, env).options IN
    \A e \in {e \in Used : "READONLY" \notin e.flags} :
      \A w \in {<<"none">>, <<"yes">>, <<"all">>} :
        LET before == options_set_variable(options, e.arg, w)
            printed == IF Unprinted(e.type, options[e.arg]) THEN << >>
                       ELSE options_get_variable(before, e.arg, << >>)
        IN  options_set_variable(before, e.arg, options_get_variable(options, e.arg, printed)) = options
=============================================================================
