-------------------------------- MODULE Args --------------------------------
(***************************************************************************)
(* The frame init_args (sys/init.c) builds at the top of the main thread's *)
(* stack: argv, envp and auxv in MaxArgv words, which the C library of the *)
(* program finds from argc and the address of argv alone.                  *)
(*                                                                         *)
(* The stack is in .noinit: a word that is not stored holds Junk.  A word  *)
(* of auxv is a pair of its role and its type.  A communication area       *)
(* without the magic number has the effect of one with no arguments.       *)
(***************************************************************************)
EXTENDS Integers, Sequences

CONSTANTS
  CommMaxArgs,  \* CONFIG_COMM_MAX_ARGS
  CommMaxEnvs,  \* CONFIG_COMM_MAX_ENVS
  ArgCounts     \* num_args of the communication area, written by the host

ASSUME ArgsAssumption ==
  {CommMaxArgs, CommMaxEnvs} \cup ArgCounts \subseteq Nat

MaxArgv == CommMaxArgs + 1 + CommMaxEnvs + 1 + 10

Junk == <<"junk">>
Null == <<"null">>
KernelName == <<"kernel">>
Arg(i) == <<"arg", i>>
Typ(t) == <<"type", t>>
Value(t) == <<"value", t>>

\* argv and index_argv
Empty == [argv |-> [i \in 0 .. MaxArgv - 1 |-> Junk], index |-> 0]

\* add_argv and add_env
AddArgv(v, p) ==
  IF v.index >= MaxArgv
    THEN v
    ELSE [argv |-> [v.argv EXCEPT ![v.index] = p], index |-> v.index + 1]

\* add_aux; AT_NULL has no value.
AddAux(v, t) ==
  IF v.index >= MaxArgv - 1
    THEN v
    ELSE [argv |-> [v.argv EXCEPT ![v.index] = Typ(t),
                                  ![v.index + 1] = IF t = "NULL" THEN Null ELSE Value(t)],
          index |-> v.index + 2]

\* The loop of map_argv, which goes on when there are too many arguments.
MapArgv(n) ==
  LET mapped[i \in 0 .. n] == IF i = 0 THEN Empty ELSE AddArgv(mapped[i - 1], Arg(i - 1))
  IN  mapped[n]

\* A missing program name is replaced.
Named(v) ==
  IF v.index = 0 THEN [argv |-> [v.argv EXCEPT ![0] = KernelName], index |-> 1] ELSE v

\* The sentinel of argv is skipped; the mutant forgets it.
AfterArgvNoSentinel(v) == v
AfterArgv(v) == [v EXCEPT !.index = @ + 1]

\* The calls of add_aux, with or without a program header.
AddAuxs(v, valid) ==
  LET always == AddAux(AddAux(v, "RANDOM"), "PAGESZ")
      header == AddAux(AddAux(AddAux(always, "PHENT"), "PHNUM"), "PHDR")
  IN  AddAux(IF valid THEN header ELSE always, "NULL")

InitArgs(n, valid) ==
  LET args == Named(MapArgv(n))
      env == AddArgv(AfterArgv(args), Null)
  IN  [argc |-> args.index, argv |-> AddAuxs(env, valid).argv]

\* The end of the environment, as the C library finds it behind argv[argc].
EnvEnd(f) ==
  CHOOSE i \in f.argc + 1 .. MaxArgv - 1 :
    f.argv[i] = Null /\ \A j \in f.argc + 1 .. i - 1 : f.argv[j] # Null

\* What the C library reads in a frame: the arguments, the environment and
\* the auxiliary vectors up to AT_NULL.
ReadsArgs(f, n) ==
  IF n = 0 THEN f.argc = 1 /\ f.argv[0] = KernelName
           ELSE f.argc = n /\ \A i \in 0 .. n - 1 : f.argv[i] = Arg(i)
AuxTypes(valid) ==
  IF valid THEN <<"RANDOM", "PAGESZ", "PHENT", "PHNUM", "PHDR", "NULL">>
           ELSE <<"RANDOM", "PAGESZ", "NULL">>
ReadsNoEnv(f) == f.argv[f.argc + 1] = Null
ReadsAux(f, types) ==
  \A k \in DOMAIN types :
    LET i == EnvEnd(f) + 2 * k - 1 IN
    /\ i + 1 < MaxArgv
    /\ f.argv[i] = Typ(types[k])
    /\ types[k] # "NULL" => f.argv[i + 1] = Value(types[k])
=============================================================================
