---------------------------- MODULE CommandLine -----------------------------
(***************************************************************************)
(* The command line parser and what each command asks it for.  An argument *)
(* is a word, a pair KEY=VALUE, a pair with an empty or an overlong key or *)
(* value, or blank; of a value only its number is kept, in the base its    *)
(* command uses.                                                           *)
(***************************************************************************)
EXTENDS Header, Sequences, FiniteSets

CONSTANT ArgMax   \* CMD_MAXIMUM_CMDLINE_ARGS

ASSUME ArgMaxAssumption == ArgMax \in Nat \ {0, 1, 2}

Kinds == {"word", "pair", "bad", "blank"}

Word == [kind |-> "word", key |-> "", num |-> FALSE, n |-> 0]

Blank == [Word EXCEPT !.kind = "blank"]

BadPair == [Word EXCEPT !.kind = "bad"]

Text(key) == [Word EXCEPT !.kind = "pair", !.key = key]

Number(key, n) == [Text(key) EXCEPT !.num = TRUE, !.n = n]

First(S) == IF S = {} THEN 0 ELSE CHOOSE i \in S : \A j \in S : i <= j

-----------------------------------------------------------------------------
(* cmd_parse keeps the arguments it has room for, in their order, and the  *)
(* pairs among them a second time, numbered in theirs.                     *)
kept(args) == SubSeq(args, 1, IF Len(args) < ArgMax THEN Len(args) ELSE ArgMax)

cmd_parse_fails(args) == \E i \in DOMAIN kept(args) : kept(args)[i].kind = "bad"

arg_pairs(args) == {i \in DOMAIN kept(args) : kept(args)[i].kind = "pair"}

(* The argument that is the first pair with this key, 0 for none ...       *)
cmd_get_pair(args, key) == First({i \in arg_pairs(args) : kept(args)[i].key = key})

(* ... and its number among the pairs.                                     *)
cmd_get_value_index(args, key) ==
  Cardinality({i \in arg_pairs(args) : i <= cmd_get_pair(args, key)})

(* What the getters for these keys mark as used: the argument that has the *)
(* number of the pair.                                                     *)
args_used(args, keys) == {cmd_get_value_index(args, k) : k \in keys} \ {0}

(* The argument that is taken for data, 0 for none.                        *)
cmd_get_last_argument(args, used) ==
  First({i \in DOMAIN kept(args) \ used : kept(args)[i].kind # "blank"})

(* Mutant: the last argument is not looked at.                             *)
AllButLastUsed(args, used) ==
  \A i \in DOMAIN kept(args) \ (used \cup {Len(args)}) :
    \E j \in 1..i : kept(args)[j].kind = "blank"

(* cmd_check_all_args_used finds nothing; it ends at a blank argument.     *)
all_args_used(args, used) ==
  \A i \in DOMAIN kept(args) \ used : \E j \in 1..i : kept(args)[j].kind = "blank"

-----------------------------------------------------------------------------
(* The keys each command asks for.                                         *)
Keys == [open     |-> {"dev"},
         clear    |-> {"dev"},
         validate |-> {"dev"},
         read     |-> {"dev", "ts_gteq", "limit"},
         write    |-> {"dev", "appdata", "timestamp", "faketimestamp"},
         init     |-> {"dev", "bs", "hpad", "padchar"}]

(* The value converts and passes the checks on its range.                  *)
converts(key, a) ==
  \/ key = "dev"
  \/ key \in {"ts_gteq", "appdata", "timestamp"} /\ a.num
  \/ key \in {"limit", "bs", "hpad"} /\ a.num /\ a.n >= 0
  \/ key = "faketimestamp" /\ a.num /\ ToInt(a.n) >= 0
  \/ key = "padchar" /\ a.num /\ a.n \in 0..255

HasKey(args, key) == cmd_get_value_index(args, key) # 0

Value(args, key) == kept(args)[cmd_get_pair(args, key)]

(* The data argument of a write, 0 for the other commands.                 *)
data_argument(command, args) ==
  IF command = "write"
  THEN cmd_get_last_argument(args, args_used(args, Keys[command]))
  ELSE 0

(* bdl_interpret_command gets past its checks of the arguments.            *)
arguments_accepted(command, args) ==
  /\ command = "open" => HasKey(args, "dev")
  /\ command = "write" => data_argument(command, args) # 0
  /\ \A key \in Keys[command] : HasKey(args, key) => converts(key, Value(args, key))
  /\ all_args_used(args, args_used(args, Keys[command]) \cup {data_argument(command, args)})

(* A number given for the key, or what the command takes otherwise.        *)
NumberOr(args, key, default) == IF HasKey(args, key) THEN Value(args, key).n ELSE default

=============================================================================
