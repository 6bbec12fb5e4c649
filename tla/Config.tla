------------------------------- MODULE Config -------------------------------
(***************************************************************************)
(* The configuration (src/src/config.cpp): the arguments of the command    *)
(* line in order, each applied to a Config that starts with the defaults;  *)
(* --config applies the lines of a file to it, in order, and validates it; *)
(* what is left at the end is validated and handed out.                    *)
(*                                                                         *)
(* A text is the number that strtoull() and strtol() find at its start (0  *)
(* where there is none), and whether something follows the number.  The    *)
(* texts of addresses are read by conn_util's Endpoint::parse().           *)
(***************************************************************************)
EXTENDS Integers, Sequences

CONSTANTS Files,      \* paths of files that can be read, with their lines
          Texts,      \* what may be written as a number: [num, junk]
          Addresses,  \* what may be written as an address: [addr, valid]
          WordBits,   \* width of unsigned long long and std::size_t
          MaxInt,     \* the 1000000 that ParseInt() accepts at most
          MaxArgs     \* bound on the arguments of a command line

ASSUME WidthsAssumption == WordBits \in Nat /\ MaxInt \in 4 .. (2 ^ WordBits - 1)

VARIABLES
  cfg,      \* the Config being put together
  out,      \* *out, what the caller sees
  pc,       \* "args", "file", "done", or "failed"
  lines,    \* the lines of the file that are still to be read
  given,    \* the settings applied so far, in order
  nargs     \* the number of arguments so far

vars == <<cfg, out, pc, lines, given, nargs>>

AddressKeys == {"listen", "redis"}
IntKeys == {"workers", "backend_conns_per_worker", "connect_timeout_ms",
            "read_timeout_ms", "write_timeout_ms"}
SizeKeys == {"max_request_bytes", "max_bulk_bytes", "max_array_elements",
             "max_pipeline_commands_per_read"}
Keys == AddressKeys \cup IntKeys \cup SizeKeys

\* The defaults: an address is named by its key, and MaxInt stands for the limits
\* and the times.
Defaults ==
  [k \in Keys |-> CASE k \in AddressKeys -> k
                    [] k \in {"workers", "backend_conns_per_worker"} -> 1
                    [] OTHER -> MaxInt]

\* strtoull(): a negative number wraps round, and digits that do not fit the word
\* read as the largest number, with either sign.  Nothing at all reads as 0.
ParseSize(text) ==
  LET max == 2 ^ WordBits - 1
  IN  [ok    |-> ~text.junk,
       value |-> IF text.num \in -max .. max THEN text.num % (max + 1) ELSE max]

ParseInt(text) ==
  [ok |-> ~text.junk /\ text.num >= 0 /\ text.num <= MaxInt, value |-> text.num]

\* Endpoint::parse() (external).
EndpointParse(text) == [ok |-> text.valid, value |-> text.addr]

Parsed(key, text) ==
  CASE key \in AddressKeys -> EndpointParse(text)
    [] key \in IntKeys     -> ParseInt(text)
    [] key \in SizeKeys    -> ParseSize(text)
    [] OTHER               -> [ok |-> FALSE, value |-> 0]

ValidateConfig(c) ==
  /\ c["workers"] > 0
  /\ c["backend_conns_per_worker"] \in 1 .. 4
  /\ \A k \in SizeKeys : c[k] # 0

-----------------------------------------------------------------------------
Init ==
  /\ cfg = Defaults /\ out = Defaults
  /\ pc = "args" /\ lines = <<>> /\ given = <<>> /\ nargs = 0

Fail == pc' = "failed" /\ UNCHANGED <<cfg, out, lines, given>>

Apply(key, text) ==
  /\ cfg' = [cfg EXCEPT ![key] = Parsed(key, text).value]
  /\ given' = Append(given, <<key, Parsed(key, text).value>>)

ArgKeys == {"listen", "redis", "workers", "backend_conns_per_worker"}
TextsOf(key) == IF key \in AddressKeys THEN Addresses ELSE Texts

\* --listen, --redis, --workers and --backend-conns.
Argument(key, text) ==
  /\ pc = "args" /\ nargs < MaxArgs
  /\ nargs' = nargs + 1
  /\ IF Parsed(key, text).ok
     THEN Apply(key, text) /\ UNCHANGED <<out, pc, lines>>
     ELSE Fail

\* An argument that is not known, or whose value is missing, or a file that
\* cannot be opened.
BadArgument ==
  /\ pc = "args" /\ nargs < MaxArgs
  /\ nargs' = nargs + 1
  /\ Fail

\* Variant: a file is read into a Config of its own.
ConfigAnew(path) ==
  /\ pc = "args" /\ nargs < MaxArgs
  /\ nargs' = nargs + 1
  /\ pc' = "file" /\ lines' = Files[path] /\ cfg' = Defaults
  /\ UNCHANGED <<out, given>>

ConfigArgument(path) ==
  /\ pc = "args" /\ nargs < MaxArgs
  /\ nargs' = nargs + 1
  /\ pc' = "file" /\ lines' = Files[path]
  /\ UNCHANGED <<cfg, out, given>>

\* A line of LoadConfigFile(): a comment, or a setting.
Line ==
  /\ pc = "file" /\ lines # <<>>
  /\ UNCHANGED nargs
  /\ LET line == Head(lines)
     IN  \/ /\ line.kind = "comment"
            /\ lines' = Tail(lines)
            /\ UNCHANGED <<cfg, out, pc, given>>
         \/ /\ line.kind = "setting" /\ Parsed(line.key, line.text).ok
            /\ Apply(line.key, line.text)
            /\ lines' = Tail(lines)
            /\ UNCHANGED <<out, pc>>
         \/ /\ line.kind = "setting" /\ ~Parsed(line.key, line.text).ok
            /\ Fail
         \/ /\ line.kind = "no equals sign"
            /\ Fail

FileEnds ==
  /\ pc = "file" /\ lines = <<>>
  /\ UNCHANGED nargs
  /\ \/ ValidateConfig(cfg) /\ pc' = "args" /\ UNCHANGED <<cfg, out, lines, given>>
     \/ ~ValidateConfig(cfg) /\ Fail

\* Variant: only files are validated.
ArgsEndAnyhow ==
  /\ pc = "args"
  /\ out' = cfg /\ pc' = "done"
  /\ UNCHANGED <<cfg, lines, given, nargs>>

ArgsEnd ==
  /\ pc = "args"
  /\ UNCHANGED nargs
  /\ \/ /\ ValidateConfig(cfg)
        /\ out' = cfg /\ pc' = "done"
        /\ UNCHANGED <<cfg, lines, given>>
     \/ ~ValidateConfig(cfg) /\ Fail

Next ==
  \/ \E k \in ArgKeys : \E t \in TextsOf(k) : Argument(k, t)
  \/ BadArgument
  \/ \E path \in DOMAIN Files : ConfigArgument(path)
  \/ Line \/ FileEnds \/ ArgsEnd

Spec == Init /\ [][Next]_vars

-----------------------------------------------------------------------------
(* Properties *)

\* The program runs with a configuration it can work with, whatever files and
\* arguments it was put together from and in whatever order: a worker at least,
\* one to four connections each, limits that let a request through and fit a
\* word, and times that poll() accepts.
LoadedIsUsable ==
  pc = "done" =>
    /\ out["workers"] \in 1 .. MaxInt /\ out["backend_conns_per_worker"] \in 1 .. 4
    /\ \A k \in SizeKeys : out[k] \in 1 .. (2 ^ WordBits - 1)
    /\ \A k \in IntKeys : out[k] \in 0 .. MaxInt

\* LoadConfigFromArgs() hands out the last setting of every key, whether it stands
\* in a file or on the command line, and the default of a key that is never set;
\* and an error anywhere leaves the caller's Config without half of the settings.
LastSettingWins ==
  out = IF pc # "done" THEN Defaults ELSE
        [k \in Keys |->
          LET at == {i \in DOMAIN given : given[i][1] = k}
          IN  IF at = {} THEN Defaults[k]
              ELSE given[CHOOSE i \in at : \A j \in at : j <= i][2]]
=============================================================================
