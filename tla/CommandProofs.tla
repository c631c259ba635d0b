---------------------------- MODULE CommandProofs ----------------------------
(***************************************************************************)
(* Proofs about the commands, for any command lines, sizes of devices and  *)
(* numbers of runs.                                                        *)
(***************************************************************************)
EXTENDS CommandProperties, FiniteSetTheorems, WellFoundedInduction, TLAPS

(* Where the exit status comes from: in the loop and on the way to it      *)
(* nothing has failed yet, and a session that is left open makes it 1.     *)
StatusInv ==
  /\ pc = "main" \/ (pc = "operate" /\ request.from = "main") => held = 0 /\ ~failed
  /\ pc = "loop" \/ (pc = "operate" /\ request.from = "loop") => held > 0 /\ ~failed
  /\ pc = "cleanup" => (ret = 0 => ~failed) /\ (usercount = 0 => (ret = 0 <=> ~failed))
  /\ pc = "exited" => (ret = 0 <=> ~failed) /\ usercount = 0

(* As long as nothing was read from the device its start is as it was; and *)
(* a session of bdl goes on after an init only if it found it blank.       *)
BlankInv ==
  /\ device # Closed /\ unread => (was_blank <=> disk.start = "blank")
  /\ /\ device # Closed /\ ~unread
     /\ pc = "loop" \/ (pc = "operate" /\ request.from # "app")
     => was_blank

(* A header on the device is one that init_dev computed.                   *)
HeaderInv ==
  disk.start = "header" =>
    \E bs \in Nat, pad \in Nat :
      /\ sizes_accepted(bs, pad) /\ room_for_blocks(disk.at, bs, pad)
      /\ disk.header = new_header(disk.at, bs, pad)

IInv == TypeOK /\ UseCountIsBalanced /\ StatusInv /\ BlankInv /\ HeaderInv

-----------------------------------------------------------------------------
(* A number without its remainder is a multiple, and no less than any      *)
(* smaller multiple (init_dev's total_size).                               *)
LEMMA Rounded ==
  ASSUME NEW n \in Nat, NEW b \in Nat \ {0}
  PROVE  /\ n - (n % b) \in Nat
         /\ n - (n % b) <= n
         /\ (n - (n % b)) % b = 0
         /\ n >= b * 2 => n - (n % b) >= b * 2
<1> DEFINE q == n \div b
<1>1. q \in Nat /\ n % b \in 0..(b - 1) /\ n = b * q + (n % b)
  BY Z3
<1>2. n - (n % b) = b * q
  BY <1>1
<1>3. (b * q) % b = 0
  BY <1>1, Z3
<1>4. n >= b * 2 => b * q >= b * 2
  BY <1>1, Z3
<1> QED
  BY <1>1, <1>2, <1>3, <1>4

(* What init_dev computes is a header, and valid on the device it was      *)
(* computed for.                                                           *)
LEMMA NewHeader ==
  ASSUME NEW size \in Nat, NEW bs \in Nat, NEW pad \in Nat,
         sizes_accepted(bs, pad), room_for_blocks(size, bs, pad)
  PROVE  /\ new_header(size, bs, pad) \in Headers
         /\ size < IntSize => validate_header(new_header(size, bs, pad), size)
<1> DEFINE n == size - pad
           total == n - (n % bs)
<1>1. bs \in Nat \ {0} /\ n \in Nat /\ n >= bs * 2 /\ n <= size
  BY SizesAssumption DEF sizes_accepted, room_for_blocks
<1>2. total \in Nat /\ total <= n /\ total % bs = 0 /\ total >= bs * 2
  <2> HIDE DEF n
  <2> QED  BY <1>1, Rounded
<1>3. new_header(size, bs, pad) = [block_size |-> bs, header_size |-> pad, total_size |-> total]
  BY DEF new_header
<1>4. size < IntSize => ToInt(size) = size
  <2> SUFFICES ASSUME size < IntSize PROVE ToInt(size) = size
    OBVIOUS
  <2>1. size % (2 * IntSize) = size
    BY SizesAssumption
  <2> QED  BY <2>1, SizesAssumption DEF ToInt
<1> HIDE DEF total
<1>5. ASSUME size < IntSize PROVE validate_header(new_header(size, bs, pad), size)
  <2>1. total <= ToInt(size)
    BY <1>1, <1>2, <1>4, <1>5
  <2> QED  BY <1>1, <1>2, <1>3, <2>1 DEF validate_header, sizes_accepted
<1> QED
  BY <1>1, <1>2, <1>3, <1>5 DEF Headers

LEMMA InitInv == Init => IInv
<1> SUFFICES ASSUME Init PROVE IInv
  OBVIOUS
<1>1. TypeOK
  <2>1. disk \in [size : Sizes, start : {"blank", "other", "header"}, header : Headers, at : Sizes \cup {0}]
    BY DEF Init, NoHeader, Headers
  <2> QED  BY <2>1 DEF Init, TypeOK
<1>2. UseCountIsBalanced
  BY DEF Init, UseCountIsBalanced, Closed
<1>3. StatusInv /\ BlankInv /\ HeaderInv
  BY DEF Init, StatusInv, BlankInv, HeaderInv, Closed
<1> QED
  BY <1>1, <1>2, <1>3 DEF IInv

-----------------------------------------------------------------------------
(* What Returns says, without equations between Booleans.                  *)
LEMMA ReturnsFacts ==
  ASSUME NEW from, NEW r \in {0, 1}, Returns(from, r)
  PROVE  /\ pc' = after_command(from) /\ request' = NoRequest
         /\ ret' = IF from = "main" /\ usercount' > 0 THEN 1 ELSE r
         /\ failed' \in BOOLEAN
         /\ failed' <=> failed \/ r = 1
BY Zenon DEF Returns

(* After a command whose session is closed again nothing is known to have  *)
(* failed, or the loop is left.                                            *)
LEMMA StatusAfter ==
  ASSUME NEW from \in {"main", "loop", "app"}, NEW r \in {0, 1}, Returns(from, r),
         usercount' \in Nat, held' = usercount',
         from # "app" => ~failed,
         from = "main" /\ usercount' > 0 => r = 0
  PROVE  /\ StatusInv'
         /\ pc' \in {"loop", "cleanup", "app"}
         /\ pc' = "loop" => from # "app" /\ r = 0 /\ usercount' > 0
         /\ ret' \in {0, 1} /\ failed' \in BOOLEAN /\ request' = NoRequest
<1>1. /\ pc' = after_command(from) /\ request' = NoRequest
      /\ ret' = IF from = "main" /\ usercount' > 0 THEN 1 ELSE r
      /\ failed' \in BOOLEAN
      /\ failed' <=> failed \/ r = 1
  BY ReturnsFacts
<1>2. pc' \in {"loop", "cleanup", "app"}
  BY <1>1 DEF after_command
<1>3. pc' = "loop" => from # "app" /\ r = 0 /\ usercount' > 0
  BY <1>1 DEF after_command
<1>4. StatusInv'
  BY <1>1, <1>2, <1>3 DEF after_command, StatusInv
<1> QED
  BY <1>1, <1>2, <1>3, <1>4

(* What the invariant says where a command is interpreted.                 *)
LEMMA WhereInterpreting ==
  ASSUME IInv, Interpreting
  PROVE  /\ usercount \in Nat /\ usercount = held /\ (device # Closed <=> usercount > 0)
         /\ pc \in {"main", "loop", "app"} /\ (pc # "app" => ~failed)
         /\ pc = "main" => held = 0
         /\ request = NoRequest
BY DEF IInv, TypeOK, UseCountIsBalanced, StatusInv, Interpreting

(* A command that returns without having run an operation: help, what is   *)
(* refused, and open when it fails.                                        *)
LEMMA ReturnsInv ==
  ASSUME IInv, NEW r \in {0, 1}, Interpreting, Returns(pc, r),
         UNCHANGED <<usercount, device, unread, disk, held, was_blank>>
  PROVE  IInv'
<1>1. /\ usercount \in Nat /\ usercount = held /\ (device # Closed <=> usercount > 0)
      /\ pc \in {"main", "loop", "app"} /\ (pc # "app" => ~failed)
      /\ pc = "main" => held = 0
  BY WhereInterpreting
<1>2. /\ StatusInv'
      /\ pc' \in {"loop", "cleanup", "app"}
      /\ pc' = "loop" => pc # "app" /\ r = 0 /\ usercount' > 0
      /\ ret' \in {0, 1} /\ failed' \in BOOLEAN /\ request' = NoRequest
  BY <1>1, StatusAfter
<1>3. TypeOK'
  BY <1>1, <1>2 DEF IInv, TypeOK
<1>4. UseCountIsBalanced'
  BY <1>1, <1>2 DEF UseCountIsBalanced
<1>5. BlankInv'
  BY <1>1, <1>2 DEF IInv, BlankInv
<1>6. HeaderInv'
  BY DEF IInv, HeaderInv
<1> QED
  BY <1>2, <1>3, <1>4, <1>5, <1>6 DEF IInv

LEMMA OpenInv ==
  ASSUME IInv, NEW l \in Lines, open(l)
  PROVE  IInv'
<1>1. /\ Interpreting /\ usercount = 0 /\ usercount' = 1 /\ held' = held + 1
      /\ io_open /\ disk' = disk /\ Returns(pc, 0)
  BY DEF open, accepted, bdl_start_session
<1>2. held = 0 /\ pc \in {"main", "loop", "app"} /\ (pc # "app" => ~failed)
  BY <1>1, WhereInterpreting
<1>3. /\ StatusInv'
      /\ pc' \in {"loop", "cleanup", "app"}
      /\ ret' \in {0, 1} /\ failed' \in BOOLEAN /\ request' = NoRequest
  BY <1>1, <1>2, StatusAfter
<1>4. device' \in Sizes /\ device' # Closed
  BY <1>1, DeviceAssumption DEF io_open, Closed
<1>5. unread' = TRUE /\ was_blank' \in BOOLEAN /\ (was_blank' <=> disk.start = "blank")
  BY <1>1, Zenon DEF io_open
<1>6. TypeOK'
  BY <1>1, <1>2, <1>3, <1>4, <1>5 DEF IInv, TypeOK
<1>7. UseCountIsBalanced'
  BY <1>1, <1>2, <1>3, <1>4 DEF UseCountIsBalanced
<1>8. BlankInv' /\ HeaderInv'
  BY <1>1, <1>5 DEF IInv, BlankInv, HeaderInv
<1> QED
  BY <1>3, <1>6, <1>7, <1>8 DEF IInv

(* The device is closed with the last of its sessions.                     *)
LEMMA ClosesLast ==
  ASSUME usercount \in Nat, usercount > 0, device # Closed, bdl_close_session
  PROVE  device' # Closed <=> usercount' > 0
<1>1. CASE usercount = 1
  <2>1. device' = Closed /\ usercount' = 0
    BY <1>1 DEF bdl_close_session
  <2> QED  BY <2>1 DEF Closed
<1>2. CASE usercount # 1
  BY <1>2 DEF bdl_close_session
<1> QED
  BY <1>1, <1>2

LEMMA CloseInv ==
  ASSUME IInv, NEW l \in Lines, close(l)
  PROVE  IInv'
<1>1. CASE usercount = 0
  BY <1>1, ReturnsInv DEF close
<1>2. CASE usercount > 0
  <2>1. /\ Interpreting /\ bdl_close_session /\ held' = held - 1
        /\ UNCHANGED <<unread, disk, was_blank>> /\ Returns(pc, 0)
    BY <1>2 DEF close
  <2>2. /\ usercount \in Nat /\ usercount = held /\ (device # Closed <=> usercount > 0)
        /\ pc \in {"main", "loop", "app"} /\ (pc # "app" => ~failed)
        /\ pc = "main" => held = 0
    BY <2>1, WhereInterpreting
  <2>3. /\ usercount' \in Nat /\ usercount' = held'
        /\ device' = IF usercount = 1 THEN Closed ELSE device
    BY <1>2, <2>1, <2>2 DEF bdl_close_session
  <2>4. /\ StatusInv'
        /\ pc' \in {"loop", "cleanup", "app"}
        /\ pc' = "loop" => pc # "app" /\ usercount' > 0
        /\ ret' \in {0, 1} /\ failed' \in BOOLEAN /\ request' = NoRequest
    BY <2>1, <2>2, <2>3, StatusAfter
  <2>5. TypeOK'
    BY <2>1, <2>3, <2>4 DEF IInv, TypeOK
  <2>6. device' # Closed <=> usercount' > 0
    BY <1>2, <2>1, <2>2, ClosesLast
  <2>7. UseCountIsBalanced'
    BY <2>3, <2>4, <2>6 DEF UseCountIsBalanced
  <2>8. BlankInv'
    BY <1>2, <2>1, <2>2, <2>4, <2>6 DEF IInv, BlankInv
  <2>9. HeaderInv'
    BY <2>1 DEF IInv, HeaderInv
  <2> QED  BY <2>4, <2>5, <2>7, <2>8, <2>9 DEF IInv
<1> QED
  BY <1>1, <1>2, WhereInterpreting DEF close

(* The start of a command's own session; an argument dev= opens the device *)
(* only if it is not open.                                                 *)
LEMMA StartInv ==
  ASSUME IInv, NEW l \in Lines, start(l)
  PROVE  IInv'
<1>1. /\ Interpreting /\ UNCHANGED <<disk, held>>
      /\ l.command \in DOMAIN Keys \ {"open"}
  BY DEF start, accepted
<1>2. /\ usercount \in Nat /\ usercount = held /\ (device # Closed <=> usercount > 0)
      /\ pc \in {"main", "loop", "app"} /\ (pc # "app" => ~failed)
      /\ pc = "main" => held = 0
  BY <1>1, WhereInterpreting
<1>3. CASE UNCHANGED <<usercount, device, unread, was_blank>> /\ Returns(pc, 1)
  BY <1>1, <1>3, ReturnsInv
<1>4. CASE /\ bdl_start_session(HasKey(l.args, "dev"))
           /\ pc' = "operate"
           /\ request' = [from |-> pc, command |-> l.command, args |-> l.args]
           /\ UNCHANGED <<ret, failed>>
  <2>1. /\ request' \in Requests /\ request'.from = pc
        /\ request' # NoRequest
    BY <1>1, <1>2, <1>4 DEF Requests, NoRequest
  <2>2. /\ usercount' = usercount + 1
        /\ \/ usercount > 0 /\ UNCHANGED <<device, unread, was_blank>>
           \/ usercount = 0 /\ io_open
    BY <1>4 DEF bdl_start_session
  <2>3. CASE usercount > 0 /\ UNCHANGED <<device, unread, was_blank>>
    <3>1. TypeOK'
      BY <1>1, <1>2, <1>4, <2>1, <2>2, <2>3 DEF IInv, TypeOK
    <3>2. UseCountIsBalanced'
      BY <1>1, <1>2, <1>4, <2>2, <2>3 DEF UseCountIsBalanced
    <3>3. StatusInv'
      BY <1>1, <1>2, <1>4, <2>1, <2>3 DEF StatusInv
    <3>4. BlankInv'
      BY <1>1, <1>2, <1>4, <2>1, <2>3 DEF IInv, BlankInv
    <3> QED  BY <1>1, <3>1, <3>2, <3>3, <3>4 DEF IInv, HeaderInv
  <2>4. CASE usercount = 0 /\ io_open
    <3>1. device' \in Sizes /\ device' # Closed
      BY <2>4, DeviceAssumption DEF io_open, Closed
    <3>2. unread' = TRUE /\ was_blank' \in BOOLEAN /\ (was_blank' <=> disk.start = "blank")
      BY <2>4, Zenon DEF io_open
    <3>3. TypeOK'
      BY <1>1, <1>2, <1>4, <2>1, <2>2, <3>1, <3>2 DEF IInv, TypeOK
    <3>4. UseCountIsBalanced'
      BY <1>1, <1>2, <1>4, <2>2, <2>4, <3>1 DEF UseCountIsBalanced
    <3>5. StatusInv'
      BY <1>1, <1>2, <1>4, <2>1, <2>4 DEF IInv, StatusInv, Interpreting
    <3>6. BlankInv'
      BY <1>1, <3>2 DEF BlankInv
    <3> QED  BY <1>1, <3>3, <3>4, <3>5, <3>6 DEF IInv, HeaderInv
  <2> QED  BY <2>2, <2>3, <2>4
<1> QED
  BY <1>3, <1>4 DEF start

-----------------------------------------------------------------------------
(* What the invariant says while an operation runs.                        *)
LEMMA WhereOperating ==
  ASSUME IInv, pc = "operate"
  PROVE  /\ request.from \in {"main", "loop", "app"}
         /\ held \in Nat /\ usercount = held + 1
         /\ device \in Sizes /\ device # Closed
         /\ request.from # "app" => ~failed
         /\ request.from = "main" => held = 0
<1>1. request \in Requests
  BY DEF IInv, TypeOK
<1>2. request.from \in {"main", "loop", "app"}
  BY <1>1 DEF Requests
<1>3. held \in Nat /\ usercount = held + 1
  BY DEF IInv, TypeOK, UseCountIsBalanced
<1>4. device \in Sizes /\ device # Closed
  BY <1>3 DEF IInv, TypeOK, UseCountIsBalanced
<1> QED
  BY <1>2, <1>3, <1>4 DEF IInv, StatusInv

(* The end of a command: its session is closed, and the result returned.   *)
LEMMA EndsCommand ==
  ASSUME IInv, pc = "operate", NEW r \in {0, 1}, Returns(request.from, r),
         bdl_close_session, UNCHANGED <<held, was_blank>>,
         unread' \in BOOLEAN,
         disk' \in [size : Sizes, start : {"blank", "other", "header"}, header : Headers, at : Sizes \cup {0}]
  PROVE  /\ TypeOK' /\ UseCountIsBalanced' /\ StatusInv'
         /\ device' # Closed => device' = device
         /\ pc' \in {"loop", "cleanup", "app"}
         /\ pc' = "loop" => request.from # "app" /\ r = 0
<1>1. /\ request.from \in {"main", "loop", "app"}
      /\ held \in Nat /\ usercount = held + 1
      /\ device \in Sizes /\ device # Closed
      /\ request.from # "app" => ~failed
      /\ request.from = "main" => held = 0
  BY WhereOperating
<1>2. /\ usercount' \in Nat /\ held' = usercount'
      /\ device' = IF usercount = 1 THEN Closed ELSE device
  BY <1>1 DEF bdl_close_session
<1>3. /\ StatusInv'
      /\ pc' \in {"loop", "cleanup", "app"}
      /\ pc' = "loop" => request.from # "app" /\ r = 0 /\ usercount' > 0
      /\ ret' \in {0, 1} /\ failed' \in BOOLEAN /\ request' = NoRequest
  BY <1>1, <1>2, StatusAfter
<1>4. TypeOK'
  BY <1>1, <1>2, <1>3 DEF IInv, TypeOK
<1>5. device' # Closed <=> usercount' > 0
  BY <1>1, ClosesLast
<1>6. UseCountIsBalanced'
  BY <1>2, <1>3, <1>5 DEF UseCountIsBalanced
<1> QED
  BY <1>2, <1>3, <1>4, <1>6

LEMMA OperateInv ==
  ASSUME IInv, operate
  PROVE  IInv'
<1>1. PICK r \in results(request.command) : Returns(request.from, r)
  BY DEF operate
<1>2. r \in {0, 1}
  BY <1>1 DEF results
<1>3. pc = "operate" /\ bdl_close_session /\ UNCHANGED <<unread, disk, held, was_blank>>
  BY DEF operate
<1>4. /\ TypeOK' /\ UseCountIsBalanced' /\ StatusInv'
      /\ device' # Closed => device' = device
      /\ pc' \in {"loop", "cleanup", "app"}
      /\ pc' = "loop" => request.from # "app" /\ r = 0
  <2>1. /\ unread' \in BOOLEAN
        /\ disk' \in [size : Sizes, start : {"blank", "other", "header"}, header : Headers, at : Sizes \cup {0}]
    BY <1>3 DEF IInv, TypeOK
  <2> QED  BY <1>1, <1>2, <1>3, <2>1, EndsCommand
<1>5. BlankInv'
  BY <1>3, <1>4 DEF IInv, BlankInv
<1> QED
  BY <1>3, <1>4, <1>5 DEF IInv, HeaderInv

(* What init does to the device and its start: a header is written only if *)
(* the start was blank or something was read before.                       *)
LEMMA InitDev ==
  ASSUME IInv, device \in Sizes, NEW bs, NEW pad, NEW r, bdl_init_dev(bs, pad, r)
  PROVE  /\ r \in {0, 1}
         /\ unread' \in BOOLEAN
         /\ disk' \in [size : Sizes, start : {"blank", "other", "header"}, header : Headers, at : Sizes \cup {0}]
         /\ HeaderInv'
         /\ unread' => unread /\ disk' = disk
         /\ disk' # disk => r = 0
         /\ r = 0 => ~unread' /\ (unread => disk.start = "blank")
<1>1. /\ unread \in BOOLEAN
      /\ disk \in [size : Sizes, start : {"blank", "other", "header"}, header : Headers, at : Sizes \cup {0}]
      /\ HeaderInv
  BY DEF IInv, TypeOK
<1>2. CASE ~sizes_accepted(bs, pad) /\ r = 1 /\ UNCHANGED <<unread, disk>>
  BY <1>1, <1>2 DEF HeaderInv
<1>3. CASE r = 1 /\ unread' = FALSE /\ UNCHANGED disk
  <2>1. HeaderInv'
    BY <1>1, <1>3 DEF HeaderInv
  <2>2. ~unread' /\ unread' \in BOOLEAN /\ disk' = disk /\ r = 1
    BY <1>3
  <2> QED  BY <1>1, <2>1, <2>2
<1>4. CASE /\ sizes_accepted(bs, pad) /\ check_blank_device /\ room_for_blocks(device, bs, pad)
           /\ r = 0
           /\ unread' = FALSE
           /\ disk' = [disk EXCEPT !.start = "header", !.at = device,
                                   !.header = new_header(device, bs, pad)]
  <2>1. bs \in Nat /\ pad \in Nat /\ device \in Nat
    BY <1>4, SizesAssumption, DeviceAssumption DEF sizes_accepted
  <2>2. new_header(device, bs, pad) \in Headers
    BY <1>4, <2>1, NewHeader
  <2>3. disk' \in [size : Sizes, start : {"blank", "other", "header"}, header : Headers, at : Sizes \cup {0}]
    BY <1>1, <1>4, <2>2
  <2>4. disk'.at = device /\ disk'.header = new_header(device, bs, pad)
    BY <1>1, <1>4
  <2>5. HeaderInv'
    BY <1>4, <2>1, <2>4 DEF HeaderInv
  <2> QED  BY <1>4, <2>3, <2>5 DEF check_blank_device
<1> QED
  BY <1>2, <1>3, <1>4 DEF bdl_init_dev

LEMMA InitCommandInv ==
  ASSUME IInv, init
  PROVE  IInv'
<1>1. /\ pc = "operate" /\ UNCHANGED <<held, was_blank>>
      /\ bdl_close_session
  BY DEF init
<1>2. PICK r \in {0, 1} :
        /\ bdl_init_dev(OrDefault(NumberOr(request.args, "bs", DefaultBlock), DefaultBlock),
                        OrDefault(NumberOr(request.args, "hpad", DefaultPad), DefaultPad), r)
        /\ Returns(request.from, r)
  BY DEF init
<1>3. device \in Sizes /\ device # Closed
  BY <1>1, WhereOperating
<1>4. /\ unread' \in BOOLEAN
      /\ disk' \in [size : Sizes, start : {"blank", "other", "header"}, header : Headers, at : Sizes \cup {0}]
      /\ HeaderInv'
      /\ unread' => unread /\ disk' = disk
      /\ r = 0 => ~unread' /\ (unread => disk.start = "blank")
  <2> DEFINE bs == OrDefault(NumberOr(request.args, "bs", DefaultBlock), DefaultBlock)
             pad == OrDefault(NumberOr(request.args, "hpad", DefaultPad), DefaultPad)
  <2>1. bdl_init_dev(bs, pad, r)
    BY <1>2
  <2> HIDE DEF bs, pad
  <2> QED  BY <1>3, <2>1, InitDev
<1>5. /\ TypeOK' /\ UseCountIsBalanced' /\ StatusInv'
      /\ device' # Closed => device' = device
      /\ pc' \in {"loop", "cleanup", "app"}
      /\ pc' = "loop" => request.from # "app" /\ r = 0
  BY <1>1, <1>2, <1>4, EndsCommand
<1>6. BlankInv'
  <2>1. unread' => (was_blank' <=> disk'.start = "blank")
    BY <1>1, <1>3, <1>4 DEF IInv, BlankInv
  <2>2. pc' = "loop" => was_blank'
    BY <1>1, <1>3, <1>4, <1>5 DEF IInv, BlankInv
  <2> QED  BY <1>5, <2>1, <2>2 DEF BlankInv
<1> QED
  BY <1>4, <1>5, <1>6 DEF IInv

-----------------------------------------------------------------------------
(* The steps of main_loop and main between two commands.                   *)
LEMMA LoopInv ==
  ASSUME IInv, EndOfInput \/ LineTooLong \/ CleanUp \/ Exit
  PROVE  IInv'
<1>1. CASE EndOfInput \/ LineTooLong
  <2>1. /\ pc = "loop" /\ pc' = "cleanup" /\ ret' \in {0, 1} /\ failed' \in BOOLEAN
        /\ UNCHANGED <<request, usercount, device, unread, disk, held, was_blank>>
        /\ \/ ret' = 1 /\ failed' = TRUE
           \/ UNCHANGED failed
    BY <1>1 DEF EndOfInput, LineTooLong, IInv, TypeOK
  <2>2. held > 0 /\ usercount = held /\ ~failed /\ held \in Nat
    BY <2>1 DEF IInv, TypeOK, UseCountIsBalanced, StatusInv
  <2>3. TypeOK'
    BY <2>1 DEF IInv, TypeOK
  <2>4. UseCountIsBalanced' /\ BlankInv' /\ HeaderInv'
    BY <2>1 DEF IInv, UseCountIsBalanced, BlankInv, HeaderInv
  <2>5. StatusInv'
    BY <2>1, <2>2 DEF StatusInv
  <2> QED  BY <2>3, <2>4, <2>5 DEF IInv
<1>2. CASE CleanUp
  <2>1. /\ pc = "cleanup" /\ pc' = "cleanup" /\ usercount > 0 /\ bdl_close_session
        /\ ret' = 1 /\ failed' = TRUE /\ held' = held - 1
        /\ UNCHANGED <<request, unread, disk, was_blank>>
    BY <1>2 DEF CleanUp
  <2>2. /\ usercount \in Nat /\ usercount = held /\ device # Closed
        /\ request = NoRequest
    BY <2>1 DEF IInv, TypeOK, UseCountIsBalanced
  <2>3. /\ usercount' \in Nat /\ held' = usercount'
        /\ device' \in {device, Closed}
        /\ device' # Closed <=> usercount' > 0
    BY <2>1, <2>2, ClosesLast DEF bdl_close_session
  <2>4. TypeOK'
    BY <2>1, <2>2, <2>3 DEF IInv, TypeOK
  <2>5. UseCountIsBalanced' /\ BlankInv' /\ HeaderInv'
    BY <2>1, <2>2, <2>3 DEF IInv, UseCountIsBalanced, BlankInv, HeaderInv
  <2>6. StatusInv'
    BY <2>1 DEF StatusInv
  <2> QED  BY <2>4, <2>5, <2>6 DEF IInv
<1>3. CASE Exit
  BY <1>3 DEF Exit, IInv, TypeOK, UseCountIsBalanced, StatusInv, BlankInv, HeaderInv
<1> QED
  BY <1>1, <1>2, <1>3

(* A program that ends, one that begins, and what the user does between.   *)
LEMMA RunInv ==
  ASSUME IInv, write_find_location_small \/ Run \/ dd
  PROVE  IInv'
<1>1. CASE write_find_location_small
  <2>1. TypeOK'
    BY <1>1 DEF write_find_location_small, IInv, TypeOK, NoRequest
  <2>2. UseCountIsBalanced' /\ StatusInv' /\ BlankInv' /\ HeaderInv'
    BY <1>1 DEF write_find_location_small, IInv, UseCountIsBalanced, StatusInv, BlankInv, HeaderInv
  <2> QED  BY <2>1, <2>2 DEF IInv
<1>2. CASE Run \/ dd
  <2>1. pc = "exited" /\ usercount = 0 /\ device = Closed /\ held = 0 /\ request = NoRequest
    BY <1>2 DEF Run, dd, IInv, TypeOK, UseCountIsBalanced, StatusInv
  <2>2. CASE Run
    <3>1. TypeOK'
      BY <2>1, <2>2 DEF Run, IInv, TypeOK
    <3>2. UseCountIsBalanced' /\ StatusInv' /\ BlankInv' /\ HeaderInv'
      BY <2>1, <2>2 DEF Run, IInv, UseCountIsBalanced, StatusInv, BlankInv, HeaderInv
    <3> QED  BY <3>1, <3>2 DEF IInv
  <2>3. CASE dd
    <3>1. /\ disk' \in [size : Sizes, start : {"blank", "other", "header"}, header : Headers, at : Sizes \cup {0}]
          /\ disk'.start = "blank"
      BY <2>3 DEF dd, IInv, TypeOK, NoHeader, Headers
    <3>2. TypeOK'
      BY <2>1, <2>3, <3>1 DEF dd, IInv, TypeOK
    <3>3. UseCountIsBalanced' /\ StatusInv' /\ BlankInv' /\ HeaderInv'
      BY <2>1, <2>3, <3>1 DEF dd, IInv, UseCountIsBalanced, StatusInv, BlankInv, HeaderInv
    <3> QED  BY <3>2, <3>3 DEF IInv
  <2> QED  BY <1>2, <2>2, <2>3
<1> QED
  BY <1>1, <1>2

(* Calls of an application that are not commands.                          *)
LEMMA AppInv ==
  ASSUME IInv, AppStarts \/ AppCloses \/ AppInitializes
  PROVE  IInv'
<1>1. /\ pc = "app" /\ usercount \in Nat /\ usercount = held /\ (device # Closed <=> usercount > 0)
      /\ request = NoRequest
  BY WhereInterpreting DEF AppStarts, AppCloses, AppInitializes, Interpreting
<1>2. CASE AppStarts
  <2>1. /\ UNCHANGED <<pc, request, ret, disk, failed>> /\ held' = held + 1 /\ usercount' = usercount + 1
        /\ \/ usercount > 0 /\ UNCHANGED <<device, unread, was_blank>>
           \/ usercount = 0 /\ io_open
    BY <1>1, <1>2 DEF AppStarts, bdl_start_session
  <2>2. /\ device' \in Sizes \cup {Closed} /\ device' # Closed
        /\ unread' \in BOOLEAN /\ was_blank' \in BOOLEAN
        /\ unread' => (was_blank' <=> disk.start = "blank")
    <3>1. CASE usercount > 0 /\ UNCHANGED <<device, unread, was_blank>>
      BY <1>1, <3>1 DEF IInv, TypeOK, BlankInv
    <3>2. CASE io_open
      <4>1. device' \in Sizes /\ device' # Closed
        BY <3>2, DeviceAssumption DEF io_open, Closed
      <4>2. unread' = TRUE /\ was_blank' \in BOOLEAN /\ (was_blank' <=> disk.start = "blank")
        BY <3>2, Zenon DEF io_open
      <4> QED  BY <4>1, <4>2
    <3> QED  BY <2>1, <3>1, <3>2
  <2>3. TypeOK'
    BY <1>1, <2>1, <2>2 DEF IInv, TypeOK
  <2>4. UseCountIsBalanced' /\ StatusInv' /\ BlankInv' /\ HeaderInv'
    BY <1>1, <2>1, <2>2 DEF IInv, UseCountIsBalanced, StatusInv, BlankInv, HeaderInv
  <2> QED  BY <2>3, <2>4 DEF IInv
<1>3. CASE AppCloses
  <2>1. /\ UNCHANGED <<pc, request, ret, unread, disk, failed, was_blank>>
        /\ bdl_close_session /\ held' = held - 1 /\ held > 0
    BY <1>3 DEF AppCloses
  <2>2. /\ usercount' \in Nat /\ held' = usercount'
        /\ device' \in {device, Closed}
        /\ device' # Closed <=> usercount' > 0
    BY <1>1, <2>1, ClosesLast DEF bdl_close_session
  <2>3. TypeOK'
    BY <1>1, <2>1, <2>2 DEF IInv, TypeOK
  <2>4. UseCountIsBalanced' /\ StatusInv' /\ BlankInv' /\ HeaderInv'
    BY <1>1, <2>1, <2>2 DEF IInv, UseCountIsBalanced, StatusInv, BlankInv, HeaderInv
  <2> QED  BY <2>3, <2>4 DEF IInv
<1>4. CASE AppInitializes
  <2>1. /\ UNCHANGED <<pc, request, ret, usercount, device, held, failed, was_blank>>
        /\ held > 0
    BY <1>4 DEF AppInitializes
  <2>2. PICK bs, pad, r :
          bdl_init_dev(OrDefault(bs, DefaultBlock), OrDefault(pad, DefaultPad), r)
    BY <1>4 DEF AppInitializes
  <2>3. device \in Sizes
    BY <1>1, <2>1 DEF IInv, TypeOK
  <2>4. /\ unread' \in BOOLEAN
        /\ disk' \in [size : Sizes, start : {"blank", "other", "header"}, header : Headers, at : Sizes \cup {0}]
        /\ HeaderInv'
        /\ unread' => unread /\ disk' = disk
    BY <2>2, <2>3, InitDev
  <2>5. TypeOK'
    BY <1>1, <2>1, <2>4 DEF IInv, TypeOK
  <2>6. UseCountIsBalanced' /\ StatusInv' /\ BlankInv'
    BY <1>1, <2>1, <2>4 DEF IInv, UseCountIsBalanced, StatusInv, BlankInv
  <2> QED  BY <2>4, <2>5, <2>6 DEF IInv
<1> QED
  BY <1>2, <1>3, <1>4

-----------------------------------------------------------------------------
(* The invariant is inductive.                                             *)
LEMMA NextInv ==
  ASSUME IInv, [Next]_vars
  PROVE  IInv'
<1>1. ASSUME NEW l \in Lines, Refuse(l) PROVE IInv'
  BY <1>1, ReturnsInv DEF Refuse, refused
<1>2. ASSUME NEW l \in Lines, help(l) PROVE IInv'
  BY <1>2, ReturnsInv DEF help
<1>3. ASSUME NEW l \in Lines, open_fails(l) PROVE IInv'
  BY <1>3, ReturnsInv DEF open_fails, accepted
<1>4. ASSUME NEW l \in Lines, TooManyArguments(l) PROVE IInv'
  BY <1>4, LoopInv DEF TooManyArguments
<1>5. CASE UNCHANGED vars
  BY <1>5 DEF vars, IInv, TypeOK, UseCountIsBalanced, StatusInv, BlankInv, HeaderInv
<1> QED
  BY <1>1, <1>2, <1>3, <1>4, <1>5, OpenInv, CloseInv, StartInv, OperateInv, InitCommandInv,
     LoopInv, RunInv, AppInv DEF Next

THEOREM Invariance == Spec => []IInv
<1> QED  BY InitInv, NextInv, PTL DEF Spec

(* Every variable keeps its type: no run of commands computes a size below *)
(* zero or a use count below zero.                                         *)
THEOREM TypeCorrect == Spec => []TypeOK
<1>1. IInv => TypeOK
  BY DEF IInv
<1> QED  BY <1>1, Invariance, PTL

(* Sessions balance, whatever commands and calls come and how they fail.   *)
THEOREM SessionsBalance == Spec => []UseCountIsBalanced
<1>1. IInv => UseCountIsBalanced
  BY DEF IInv
<1> QED  BY <1>1, Invariance, PTL

(* The exit status tells whether everything in the run worked.             *)
THEOREM StatusTells == Spec => []StatusIsTrue
<1>1. IInv => StatusIsTrue
  BY DEF IInv, StatusInv, StatusIsTrue
<1> QED  BY <1>1, Invariance, PTL

(* Whatever sizes init accepts, validation accepts what it wrote.          *)
THEOREM InitializedIsValid == Spec => []InitIsValid
<1>1. ASSUME IInv PROVE InitIsValid
  <2> SUFFICES ASSUME disk.start = "header", disk.at < IntSize
               PROVE  validate_header(disk.header, disk.at)
    BY DEF InitIsValid
  <2>1. PICK bs \in Nat, pad \in Nat :
          /\ sizes_accepted(bs, pad) /\ room_for_blocks(disk.at, bs, pad)
          /\ disk.header = new_header(disk.at, bs, pad)
    BY <1>1 DEF IInv, HeaderInv
  <2>2. disk.at \in Nat
    <3>1. disk.at \in Sizes \cup {0}
      BY <1>1 DEF IInv, TypeOK
    <3>2. Sizes \cup {0} \subseteq Nat
      BY DeviceAssumption
    <3> QED  BY <3>1, <3>2
  <2>3. validate_header(new_header(disk.at, bs, pad), disk.at)
    BY <2>1, <2>2, NewHeader
  <2> QED  BY <2>1, <2>3
<1> QED  BY <1>1, Invariance, PTL

(* No session of bdl, however often it gives init, writes a header to a    *)
(* device that was not blank when the session opened it.                   *)
THEOREM OnlyBlankIsInitialized == Spec => InitNeedsBlank
<1>1. ASSUME IInv, [Next]_vars
      PROVE  [pc = "operate" /\ request.from # "app" /\ disk' # disk => was_blank]_vars
  <2> SUFFICES ASSUME pc = "operate", request.from # "app", disk' # disk
               PROVE  was_blank
    OBVIOUS
  <2>1. device \in Sizes /\ device # Closed
    BY <1>1, WhereOperating
  <2>2. CASE unread
    <3>1. init
      <4>1. ASSUME NEW l \in Lines,
                   Refuse(l) \/ help(l) \/ open(l) \/ open_fails(l) \/ close(l) \/ start(l) \/ TooManyArguments(l)
            PROVE  FALSE
        BY <4>1 DEF Refuse, refused, help, open, open_fails, close, start, accepted,
          TooManyArguments, LineTooLong, Interpreting
      <4>2. ~operate /\ ~write_find_location_small
        BY DEF operate, write_find_location_small
      <4>3. ~(EndOfInput \/ LineTooLong \/ CleanUp \/ Exit \/ Run \/ dd \/ AppStarts \/ AppCloses \/ AppInitializes)
        BY DEF EndOfInput, LineTooLong, CleanUp, Exit, Run, dd, AppStarts, AppCloses, AppInitializes
      <4> QED  BY <1>1, <4>1, <4>2, <4>3 DEF Next, vars
    <3>2. PICK bs, pad, r : bdl_init_dev(bs, pad, r)
      BY <3>1 DEF init
    <3>3. disk.start = "blank"
      BY <1>1, <2>1, <2>2, <3>2, InitDev
    <3> QED  BY <1>1, <2>1, <2>2, <3>3 DEF IInv, BlankInv
  <2>3. CASE ~unread
    BY <1>1, <2>1, <2>3 DEF IInv, BlankInv
  <2> QED  BY <2>2, <2>3
<1> QED  BY <1>1, Invariance, PTL DEF Spec, InitNeedsBlank

-----------------------------------------------------------------------------
(* Two different multiples of a block lie at least a block apart.          *)
LEMMA Apart ==
  ASSUME NEW b \in Nat \ {0}, NEW m \in Int, NEW n \in Int, m < n
  PROVE  m * b \in Int /\ n * b \in Int /\ m * b + b <= n * b
<1>1. (m + 1) * b <= n * b
  BY Z3
<1>2. (m + 1) * b = m * b + b
  BY Z3
<1> QED
  BY <1>1, <1>2

(* A number without a remainder is a multiple.                             *)
LEMMA Multiple ==
  ASSUME NEW n \in Nat, NEW b \in Nat \ {0}, n % b = 0
  PROVE  n \div b \in Nat /\ n = (n \div b) * b
<1>1. n \div b \in Nat /\ n % b \in 0..(b - 1) /\ n = b * (n \div b) + (n % b)
  BY Z3
<1> QED
  BY <1>1, Z3

(* One more multiple is one more summand.                                  *)
LEMMA OneMore ==
  ASSUME NEW k \in Int, NEW r \in Int
  PROVE  k * r \in Int /\ (k - 1) * r \in Int /\ k * r = (k - 1) * r + r
BY Z3

(* With a block size that divides half a region, every region of any       *)
(* device that init accepted keeps its data off its backup.                *)
THEOREM BackupsStayFree == Spec => []BackupsAreFree
<1>1. ASSUME IInv PROVE BackupsAreFree
  <2> DEFINE hd == disk.header
             bs == hd.block_size
             half == RegionSize \div 2
  <2> SUFFICES ASSUME disk.start = "header", half % bs = 0,
                      NEW k \in Regions(hd, disk.at), NEW p \in data_positions(hd, k)
               PROVE  /\ p + bs <= hint_location(hd, k)
                      /\ \/ p + bs <= backup(hd, k)
                         \/ backup(hd, k) + HintBytes <= p
    BY DEF BackupsAreFree
  <2>1. /\ hd \in Headers
        /\ bs \in Nat \ {0} /\ HintBytes <= bs
    <3>1. PICK b \in Nat, pad \in Nat :
            /\ sizes_accepted(b, pad) /\ room_for_blocks(disk.at, b, pad)
            /\ hd = new_header(disk.at, b, pad)
      BY <1>1 DEF IInv, HeaderInv
    <3>2. bs = b
      BY <3>1 DEF new_header
    <3>3. hd \in Headers
      BY <1>1 DEF IInv, TypeOK
    <3> QED  BY <3>1, <3>2, <3>3, SizesAssumption DEF sizes_accepted
  <2>2. k \in Int /\ half \in Nat /\ RegionSize = half + half
    <3>1. k \in Int
      BY DEF Regions
    <3> QED  BY <3>1, SizesAssumption
  <2>3. PICK first \in Int :
          /\ first = hint_location(hd, k - 1)
          /\ hint_location(hd, k) = first + RegionSize
    <3>1. hd.header_size \in Nat
      BY <2>1 DEF Headers
    <3>2. k * RegionSize \in Int /\ (k - 1) * RegionSize \in Int
          /\ k * RegionSize = (k - 1) * RegionSize + RegionSize
      BY <2>2, SizesAssumption, OneMore
    <3> QED  BY <3>1, <3>2, SizesAssumption DEF hint_location
  <2>4. backup(hd, k) = first + half
    BY <2>2, <2>3 DEF backup
  <2>5. PICK n \in Int : p = first + n * bs
    BY <2>3 DEF data_positions, region_positions
  <2>6. PICK m \in Int : half = m * bs
    <3> HIDE DEF hd, bs, half
    <3>1. half \div bs \in Nat /\ half = (half \div bs) * bs
      BY <2>1, <2>2, Multiple
    <3> QED  BY <3>1
  <2>7. /\ p # backup(hd, k)
        /\ p <= hint_location(hd, k) - bs
    BY DEF data_positions, region_positions
  <2> HIDE DEF hd, bs, half
  <2>8. n # m
    BY <2>4, <2>5, <2>6, <2>7
  <2>9. CASE n < m
    BY <2>1, <2>2, <2>3, <2>4, <2>5, <2>6, <2>7, <2>9, Apart
  <2>10. CASE m < n
    BY <2>1, <2>2, <2>3, <2>4, <2>5, <2>6, <2>7, <2>10, Apart, SizesAssumption
  <2> QED  BY <2>8, <2>9, <2>10
<1> QED  BY <1>1, Invariance, PTL

-----------------------------------------------------------------------------
(* The least of a set of numbers (cmd_get_value_index,                     *)
(* cmd_get_last_argument).                                                 *)
LEMMA FirstFacts ==
  ASSUME NEW S \in SUBSET (Nat \ {0})
  PROVE  /\ S = {} => First(S) = 0
         /\ S # {} => First(S) \in S /\ \A i \in S : First(S) <= i
<1>1. CASE S # {}
  <2> DEFINE R == OpToRel(<, Nat)
  <2>1. IsWellFoundedOn(R, Nat)
    BY NatLessThanWellFounded
  <2> HIDE DEF R
  <2>2. PICK i \in S : \A k \in S : ~(<<k, i>> \in R)
    BY <1>1, <2>1, WFMin
  <2>3. R = {ss \in Nat \X Nat : ss[1] < ss[2]}
    BY DEF R, OpToRel
  <2>4. ASSUME NEW k \in S, k < i PROVE FALSE
    <3>1. <<k, i>> \in Nat \X Nat /\ <<k, i>>[1] = k /\ <<k, i>>[2] = i
      OBVIOUS
    <3> QED  BY <2>2, <2>3, <2>4, <3>1
  <2>5. \A k \in S : i <= k
    BY <2>4
  <2> QED  BY <1>1, <2>2, <2>5 DEF First
<1> QED
  BY <1>1 DEF First

(* As long as all arguments before it are pairs, the number a pair has     *)
(* among the pairs is its number among the arguments, too.                 *)
LEMMA PairNumber ==
  ASSUME NEW n \in Nat, NEW P \in SUBSET (1..n), NEW p \in P,
         \A i \in 1..n : i <= p => i \in P
  PROVE  Cardinality({i \in P : i <= p}) = p
<1>0. p \in Nat /\ p <= n /\ 1 <= p
  OBVIOUS
<1>1. \A i \in 1..p : i \in P
  BY <1>0
<1>2. \A i \in P : i \in Nat /\ 1 <= i
  OBVIOUS
<1>3. {i \in P : i <= p} = 1..p
  <2>1. \A i \in 1..p : i \in P /\ i <= p
    BY <1>0, <1>1
  <2>2. \A i \in P : i <= p => i \in 1..p
    BY <1>0, <1>2
  <2> QED  BY <2>1, <2>2
<1>4. Cardinality(1..p) = p
  BY <1>0, FS_Interval
<1> QED
  BY <1>3, <1>4

(* Lines that give arguments in the documented order.                      *)
Documented(args) ==
  /\ Len(args) <= ArgMax
  /\ \A i \in DOMAIN args : args[i].kind # "blank"
  /\ \A i, j \in DOMAIN args : i < j /\ args[i].kind = "word" => args[j].kind = "word"

Arguments == Seq([kind : Kinds, key : STRING, num : BOOLEAN, n : Int])

(* Of such a line the parser keeps everything, and the getter that marks   *)
(* an argument as used marks the pair it takes the value from.             *)
LEMMA MarksItsPair ==
  ASSUME NEW args \in Arguments, Documented(args), ~cmd_parse_fails(args), NEW key
  PROVE  /\ kept(args) = args
         /\ cmd_get_value_index(args, key) # 0 =>
              LET p == cmd_get_value_index(args, key) IN
              /\ p \in DOMAIN args /\ args[p].kind = "pair" /\ args[p].key = key
              /\ \A k \in 1..(p - 1) : args[k].key # key
<1> DEFINE N == Len(args)
           P == arg_pairs(args)
           S == {i \in P : args[i].key = key}
           f == First(S)
<1>1. N \in Nat /\ DOMAIN args = 1..N
  BY DEF Arguments
<1>2. kept(args) = args
  <2>1. N <= ArgMax /\ ArgMax \in Nat
    BY ArgMaxAssumption DEF Documented
  <2>2. (IF N < ArgMax THEN N ELSE ArgMax) = N
    <3> HIDE DEF N
    <3> QED  BY <1>1, <2>1
  <2>3. SubSeq(args, 1, N) = args
    BY <1>1 DEF Arguments
  <2> QED  BY <2>2, <2>3 DEF kept
<1>3. P = {i \in 1..N : args[i].kind = "pair"} /\ cmd_get_pair(args, key) = f
  BY <1>1, <1>2 DEF arg_pairs, cmd_get_pair
<1>4. ASSUME NEW i \in 1..N PROVE args[i].kind \in {"word", "pair"}
  <2> DEFINE A == [kind : Kinds, key : STRING, num : BOOLEAN, n : Int]
  <2>0. args \in Seq(A) /\ i \in 1..Len(args)
    BY DEF Arguments
  <2> HIDE DEF A
  <2>1. args[i] \in A
    BY <2>0
  <2>2. args[i].kind # "blank" /\ args[i].kind # "bad"
    BY <1>1, <1>2 DEF Documented, cmd_parse_fails
  <2>3. args[i].kind \in Kinds
    BY <2>1 DEF A
  <2> QED  BY <2>2, <2>3 DEF Kinds
<1>5. P \in SUBSET (1..N) /\ S \in SUBSET (Nat \ {0}) /\ S \subseteq P
  BY <1>1, <1>3
<1>6. cmd_get_value_index(args, key) = Cardinality({i \in P : i <= f})
  BY <1>3 DEF cmd_get_value_index
<1>7. \A i, k \in 1..N : i < k /\ k \in P => i \in P
  <2>1. \A i, k \in DOMAIN args :
          i < k /\ args[i].kind = "word" => args[k].kind = "word"
    BY DEF Documented
  <2> HIDE DEF N, P
  <2> QED  BY <1>1, <1>3, <1>4, <2>1
<1> HIDE DEF N, P, S, f
<1>8. CASE S = {}
  <2>1. f = 0
    BY <1>5, <1>8, FirstFacts DEF f
  <2>2. \A i \in P : ~(i <= f)
    BY <1>1, <1>5, <2>1
  <2>3. {i \in P : i <= f} = {}
    BY <2>2
  <2> QED  BY <1>2, <1>6, <2>3, FS_EmptySet
<1>9. CASE S # {}
  <2>1. f \in S /\ \A i \in S : f <= i
    BY <1>5, <1>9, FirstFacts DEF f
  <2>2. f \in P /\ f \in 1..N
    BY <1>5, <2>1
  <2>3. \A i \in 1..N : i <= f => i \in P
    BY <1>1, <1>7, <2>2
  <2>4. cmd_get_value_index(args, key) = f
    BY <1>1, <1>5, <1>6, <2>2, <2>3, PairNumber
  <2>5. args[f].kind = "pair" /\ args[f].key = key
    BY <1>3, <2>1 DEF S
  <2>6. ASSUME NEW k \in 1..(f - 1) PROVE args[k].key # key
    <3>1. k \in 1..N /\ k < f
      BY <1>1, <2>2
    <3>2. k \in P /\ k \notin S
      BY <1>1, <2>1, <2>2, <2>3, <3>1
    <3> QED  BY <3>2 DEF S
  <2> QED  BY <1>1, <1>2, <2>2, <2>4, <2>5, <2>6
<1> QED
  BY <1>8, <1>9

(* What the checks of a command accept.                                    *)
LEMMA AcceptedCount ==
  ASSUME NEW args \in Arguments, NEW command \in DOMAIN Keys,
         Documented(args), ~cmd_parse_fails(args), arguments_accepted(command, args),
         NEW i \in DOMAIN args, i # data_argument(command, args)
  PROVE  /\ args[i].kind = "pair" /\ args[i].key \in Keys[command]
         /\ \A k \in 1..(i - 1) : args[k].key # args[i].key
<1>1. kept(args) = args
  BY MarksItsPair
<1>2. i \in args_used(args, Keys[command])
  <2>1. all_args_used(args, args_used(args, Keys[command]) \cup {data_argument(command, args)})
    BY DEF arguments_accepted
  <2>2. \A k \in 1..i : k \in DOMAIN args
    BY DEF Arguments
  <2> QED  BY <1>1, <2>1, <2>2 DEF all_args_used, Documented
<1>3. PICK key \in Keys[command] : i = cmd_get_value_index(args, key) /\ i # 0
  BY <1>2 DEF args_used
<1> QED
  BY <1>3, MarksItsPair

(* Every argument of a command in the documented order counts, however     *)
(* many there are and in whatever order the keys are given.                *)
THEOREM ArgumentsAreUsed == Spec => []ArgumentsCount
<1>1. Init => ArgumentsCount
  BY DEF Init, ArgumentsCount
<1>2. IInv /\ ArgumentsCount /\ [Next]_vars => ArgumentsCount'
  <2> SUFFICES ASSUME IInv, ArgumentsCount, [Next]_vars, pc' = "operate"
               PROVE  ArgumentsCount'
    BY DEF ArgumentsCount
  <2>1. CASE \E l \in Lines : start(l)
    <3>1. PICK l \in Lines : start(l)
      BY <2>1
    <3>2. /\ accepted(l) /\ l.command \in DOMAIN Keys
          /\ l.args \in Arguments
      BY <3>1, LinesAssumption DEF start, accepted, Arguments
    <3>3. request' = [from |-> pc, command |-> l.command, args |-> l.args]
      <4>1. ~Returns(pc, 1)
        BY DEF Returns, after_command
      <4> QED  BY <3>1, <4>1 DEF start
    <3>4. request'.args = l.args /\ request'.command = l.command
      BY <3>3
    <3>5. Documented(l.args) => \A i \in DOMAIN l.args :
            \/ i = data_argument(l.command, l.args)
            \/ /\ l.args[i].kind = "pair" /\ l.args[i].key \in Keys[l.command]
               /\ \A k \in 1..(i - 1) : l.args[k].key # l.args[i].key
      BY <3>2, AcceptedCount DEF accepted
    <3> QED  BY <3>4, <3>5 DEF ArgumentsCount, Documented
  <2>2. CASE ~\E l \in Lines : start(l)
    <3>1. UNCHANGED <<pc, request>>
      <4>1. ASSUME NEW l \in Lines,
                   Refuse(l) \/ help(l) \/ open(l) \/ open_fails(l) \/ close(l)
            PROVE  FALSE
        BY <4>1 DEF Refuse, help, open, open_fails, close, Returns, after_command
      <4>2. ~operate /\ ~init /\ ~write_find_location_small
        BY DEF operate, init, write_find_location_small, Returns, after_command
      <4>3. \A l \in Lines : ~TooManyArguments(l)
        BY DEF TooManyArguments, LineTooLong
      <4>4. ~(EndOfInput \/ LineTooLong \/ CleanUp \/ Exit \/ Run \/ dd)
            /\ ~(AppStarts \/ AppCloses \/ AppInitializes)
        BY DEF EndOfInput, LineTooLong, CleanUp, Exit, Run, dd, AppStarts, AppCloses,
               AppInitializes
      <4> QED  BY <2>2, <4>1, <4>2, <4>3, <4>4 DEF Next, vars
    <3> QED  BY <3>1 DEF ArgumentsCount
  <2> QED  BY <2>1, <2>2
<1> QED  BY <1>1, <1>2, Invariance, PTL DEF Spec

=============================================================================
