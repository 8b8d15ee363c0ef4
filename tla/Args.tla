-------------------------------- MODULE Args --------------------------------
(***************************************************************************)
(* The command line of gta02-gps (c/parse_args.h, main in c/gta02-gps.c):  *)
(* options are looked for and removed one after the other, wherever they   *)
(* stand; what is then in the first place is the device, and what is left  *)
(* behind that belongs to the command.                                     *)
(*                                                                         *)
(* Whether a device can be opened is up to the system: Devices can.        *)
(***************************************************************************)
EXTENDS SequencesExt, Integers

CONSTANTS
    Lines,    (* command lines, each a sequence of words                   *)
    Devices   (* words that name a file which can be opened for writing    *)

ASSUME LinesAssumption ==
    (\A args \in Lines : args = <<>> \/ args \in Seq(STRING)) /\ "-" \notin Devices

Commands == {"--dump-agps", "--load-agps", "--sleep", "--wake-up"}
TakesFile == {"--dump-agps", "--load-agps"}

(* What is left of words when those in gone are taken out.                 *)
Remaining(words, gone) ==
    LET kept[i \in 0 .. Len(words)] ==
            IF i = 0 THEN <<>>
            ELSE IF words[i] \in gone THEN kept[i - 1]
            ELSE Append(kept[i - 1], words[i])
    IN  kept[Len(words)]

VARIABLES
    args,      (* the command line the program was called with             *)
    argv,      (* what is left of it; argv[0] is left out                  *)
    pc,        (* where in Stages main is                                  *)
    status,    (* "running", or the exit code                              *)
    VERBOSE,
    p_setup_serial,
    dev,       (* the device: "none", "-" for stdin and stdout, or a path  *)
    dump_file, (* the file of a dump or load, or "none"                    *)
    done       (* what has been done with the device, in order             *)

(* Faulty variant: the device is taken before --setup-serial is.           *)
DeviceTooEarly ==
    <<"--help", "--verbose", "device", "--setup-serial",
      "--dump-agps", "--load-agps", "--sleep", "--wake-up", "none">>

(* The order in which main looks at the words.                             *)
Stages ==
    <<"--help", "--verbose", "--setup-serial", "device",
      "--dump-agps", "--load-agps", "--sleep", "--wake-up", "none">>

vars == <<args, argv, pc, status, VERBOSE, p_setup_serial, dev,
          dump_file, done>>

Init ==
    /\ args \in Lines
    /\ argv = args
    /\ pc = 1 /\ status = "running"
    /\ VERBOSE = FALSE /\ p_setup_serial = FALSE
    /\ dev = "none" /\ dump_file = "none"
    /\ done = <<>>

(* Faulty variant: only the first match is removed.                        *)
RemovesFirst(param) == RemoveFirst(argv, param)

(* parse_args_find: whether there is a match, and what is left once all    *)
(* matches are removed.                                                    *)
Found(param) == param \in Range(argv)
Without(param) == Remaining(argv, {param})

Exit(code) == status' = code /\ UNCHANGED pc

GoOn == pc' = pc + 1 /\ UNCHANGED status

At(stage) == status = "running" /\ Stages[pc] = stage

(* parse_args_help.                                                        *)
parse_args_help ==
    /\ At("--help")
    /\ IF Found("--help") THEN done' = <<"help">> /\ Exit("exit_0")
                          ELSE done' = done /\ GoOn
    /\ argv' = Without("--help")
    /\ UNCHANGED <<args, VERBOSE, p_setup_serial, dev, dump_file>>

parse_args_verbose ==
    /\ At("--verbose")
    /\ VERBOSE' = Found("--verbose")
    /\ argv' = Without("--verbose")
    /\ GoOn
    /\ UNCHANGED <<args, p_setup_serial, dev, dump_file, done>>

parse_args_setup_serial ==
    /\ At("--setup-serial")
    /\ p_setup_serial' = Found("--setup-serial")
    /\ argv' = Without("--setup-serial")
    /\ GoOn
    /\ UNCHANGED <<args, VERBOSE, dev, dump_file, done>>

(* parse_args_get_first, then open() unless it is "-".                     *)
parse_args_device ==
    /\ At("device")
    /\ IF argv = <<>>
       THEN Exit("exit_1") /\ UNCHANGED <<argv, dev>>
       ELSE /\ argv' = Tail(argv)
            /\ IF Head(argv) \in Devices \cup {"-"}
               THEN dev' = Head(argv) /\ GoOn
               ELSE dev' = dev /\ Exit("exit_1")
    /\ UNCHANGED <<args, VERBOSE, p_setup_serial, dump_file, done>>

-----------------------------------------------------------------------------
(* parse_args_get_first_last and parse_args_find_last: rest is what        *)
(* belongs to the command, and no more.                                    *)
Fits(command, rest) ==
    Len(rest) = (IF command \in TakesFile THEN 1 ELSE 0)

(* setup_serial_if_needed(), then the command; setting up is all there is  *)
(* to do if there is none.                                                 *)
Performs(command) == (IF p_setup_serial THEN <<"raw">> ELSE <<>>) \o <<command>>

(* One if of main: is this the command?                                    *)
Command ==
    /\ status = "running" /\ Stages[pc] \in Commands
    /\ LET command == Stages[pc]
           rest == Without(command)
       IN  CASE ~Found(command) -> GoOn /\ UNCHANGED <<argv, dump_file, done>>
             [] Found(command) /\ ~Fits(command, rest) ->
                    Exit("exit_1") /\ argv' = rest
                    /\ UNCHANGED <<dump_file, done>>
             [] OTHER ->
                    /\ Exit("exit_0") /\ argv' = <<>>
                    /\ dump_file' = IF command \in TakesFile THEN Head(rest)
                                                              ELSE "none"
                    /\ done' = Performs(command)
    /\ UNCHANGED <<args, VERBOSE, p_setup_serial, dev>>

(* The end of main: no command.                                            *)
NoCommand ==
    /\ At("none")
    /\ IF p_setup_serial THEN done' = <<"raw">> /\ Exit("exit_0")
                         ELSE done' = done /\ Exit("exit_1")
    /\ UNCHANGED <<args, argv, VERBOSE, p_setup_serial, dev, dump_file>>

Next ==
    \/ parse_args_help \/ parse_args_verbose \/ parse_args_setup_serial
    \/ parse_args_device \/ Command \/ NoCommand

Spec == Init /\ [][Next]_vars

-----------------------------------------------------------------------------
TypeOK ==
    /\ args \in Lines
    /\ argv \in Seq(Range(args))
    /\ pc \in DOMAIN Stages
    /\ status \in {"running", "exit_0", "exit_1"}
    /\ VERBOSE \in BOOLEAN /\ p_setup_serial \in BOOLEAN
    /\ dev \in Devices \cup {"-", "none"}
    /\ dump_file \in Range(args) \cup {"none"}
    /\ done \in Seq({"help", "raw"} \cup Commands)

(* The invocations of c/README.md and invocation.h, and what each promises *)
(* for the device d and the file f.                                        *)
Verbose == {<<>>, <<"--verbose">>}
SetUp(raw) == IF raw THEN <<"--setup-serial">> ELSE <<>>
Raw(raw) == IF raw THEN <<"raw">> ELSE <<>>

Does(line, d, f, does) ==
    [line |-> line, dev |-> d, file |-> f, done |-> does]

Documented(d, f) ==
    {Does(<<"--help">>, "none", "none", <<"help">>)}
    \cup {Does(v \o <<"--setup-serial", d>>, d, "none", <<"raw">>) : v \in Verbose}
    \cup {Does(v \o SetUp(raw) \o <<d, c, f>>, d, f, Raw(raw) \o <<c>>) :
              v \in Verbose, raw \in BOOLEAN, c \in TakesFile}
    \cup {Does(v \o SetUp(raw) \o <<d, c>>, d, "none", Raw(raw) \o <<c>>) :
              v \in Verbose, raw \in BOOLEAN, c \in Commands \ TakesFile}

Options == {"--help", "--verbose", "--setup-serial"} \cup Commands

(* Every documented invocation does what it says, in this order, with this *)
(* device and file, and succeeds (c/README.md:4-11, c/gta02-gps.c:16-52).  *)
DocumentedWorks ==
    status # "running" =>
        \A d \in (Devices \cup {"-"}) \ Options, f \in Range(args) \ Options :
            \A doc \in Documented(d, f) :
                doc.line = args =>
                    /\ status = "exit_0" /\ dev = doc.dev
                    /\ dump_file = doc.file /\ done = doc.done

(* The words of the command line but for the options.                      *)
Operands == Remaining(args, {"--verbose", "--setup-serial"})

(* A run that succeeds with more than help has for its device the first    *)
(* word that is no option.  If it carries out a command, the words behind  *)
(* the device, without the command itself, wherever it stands and however  *)
(* often, are the command's file, or there are none; the file may be a     *)
(* word that reads like another command.  If it only sets the device up,   *)
(* no word behind the device is a command: other words there are passed    *)
(* over, which a command does not do                                       *)
(* (c/parse_args.h:7-30, 32-42, 67-77, 94-136, c/gta02-gps.c:21-49).       *)
WordsAccountedFor ==
    status = "exit_0" /\ Last(done) # "help" =>
        LET command == Last(done)
            behind == Tail(Operands)
        IN  /\ Operands # <<>> /\ dev = Head(Operands)
            /\ IF command \in Commands
               THEN Remaining(behind, {command})
                      = IF command \in TakesFile THEN <<dump_file>> ELSE <<>>
               ELSE Range(behind) \cap Commands = {}

(* "Passing -h or --help argument gives you this message", "Passing -v or  *)
(* --verbose argument prints some debug information" (c/help.h:41-46).     *)
ShortOptionsWork ==
    status # "running" =>
        /\ "-h" \in Range(args) => done = <<"help">>
        /\ "-v" \in Range(args) /\ "--help" \notin Range(args) => VERBOSE

-----------------------------------------------------------------------------
(* The inductive invariant: where main is, what it has left, and how it    *)
(* ended, as a function of the command line.                               *)
OptionsTaken ==
    /\ pc > 1 => "--help" \notin Range(args)
    /\ p_setup_serial <=> (pc > 3 /\ "--setup-serial" \in Range(args))

DeviceTaken ==
    IF pc > 4
    THEN /\ Operands # <<>>
         /\ dev = Head(Operands) /\ dev \in Devices \cup {"-"}
         /\ \A n \in 5 .. pc - 1 : Stages[n] \notin Range(Tail(Operands))
    ELSE dev = "none"

StillRunning ==
    status = "running" =>
        /\ done = <<>> /\ dump_file = "none"
        /\ argv = CASE pc \in {1, 2} -> args
                    [] pc = 3      -> Remaining(args, {"--verbose"})
                    [] pc = 4      -> Operands
                    [] OTHER       -> Tail(Operands)

(* At a command: it was there, and fits or not.                            *)
EndedAt(command) ==
    LET rest == Remaining(Tail(Operands), {command})
    IN  /\ command \in Range(Tail(Operands))
        /\ IF Fits(command, rest)
           THEN /\ status = "exit_0" /\ done = Performs(command)
                /\ dump_file = IF command \in TakesFile THEN Head(rest)
                                                         ELSE "none"
           ELSE status = "exit_1" /\ done = <<>> /\ dump_file = "none"

Ended ==
    status # "running" =>
        \/ /\ Stages[pc] = "--help" /\ "--help" \in Range(args)
           /\ status = "exit_0" /\ done = <<"help">> /\ dump_file = "none"
        \/ /\ Stages[pc] = "device"
           /\ Operands = <<>> \/ Head(Operands) \notin Devices \cup {"-"}
           /\ status = "exit_1" /\ done = <<>> /\ dump_file = "none"
        \/ /\ Stages[pc] \in Commands /\ EndedAt(Stages[pc])
        \/ /\ Stages[pc] = "none" /\ dump_file = "none"
           /\ IF p_setup_serial THEN status = "exit_0" /\ done = <<"raw">>
                                ELSE status = "exit_1" /\ done = <<>>

IInv == TypeOK /\ OptionsTaken /\ DeviceTaken /\ StillRunning /\ Ended

=============================================================================
