----------------------------- MODULE Passwords -----------------------------
(***************************************************************************)
(* The password file: vncpasswd changes it (beosserver/vncpasswd.cxx)      *)
(* while the server asks clients to prove that they know the password      *)
(* (SSecurityVncAuth, VncAuthPasswdFileParameter, CSecurityVncAuth and     *)
(* rfb/vncAuth.cxx).  A line or a password is a sequence of bytes, none of *)
(* them NUL; lines are shorter than the buffer of getpass().               *)
(***************************************************************************)
EXTENDS DES

CONSTANTS
  Client,      \* the connections
  Lines,       \* what people type, and give to vncpasswd as -p<line>
  Challenges,  \* of 16 bytes
  Pieces,      \* how many bytes of a response arrive together
  MaxRuns      \* bound on how often vncpasswd is run

VARIABLES
  file,       \* the bytes of the password file, <<>> when there is none
  owner,      \* the password kept in it (history), or NoPassword
  pc,         \* where vncpasswd is, "idle" when it does not run
  password,   \* passwdCopy, later passwordString
  runs,
  state,      \* of the security type at the server: "new", "sent", "accepted", "refused"
  challenge,
  response,   \* what has arrived of it
  coming,     \* what has not
  typed,      \* by the client (history)
  against     \* the owner's password when the server decided (history)

programVars == <<file, owner, pc, password, runs>>
clientVars == <<state, challenge, response, coming, typed, against>>
vars == <<programVars, clientVars>>

NoPassword == <<>>

Byte(n) == {b \in 0 .. 7 : (n \div 2 ^ b) % 2 = 1}

NUL == {}

(* The first eight bytes, with NULs when there are fewer. *)
Padded(passwd) == [i \in 1 .. 8 |-> IF i <= Len(passwd) THEN passwd[i] ELSE NUL]

(* The string in eight bytes *)
String(bytes) ==
  LET nuls == {i \in 1 .. 8 : bytes[i] = NUL}
  IN  SubSeq(bytes, 1, IF nuls = {} THEN 8 ELSE (CHOOSE i \in nuls : \A j \in nuls : i <= j) - 1)

obfuscationKey == [i \in 1 .. 8 |-> Byte(<<23, 82, 107, 6, 35, 78, 88, 7>>[i])]

vncAuthEncryptChallenge(bytes, passwd) ==
  LET KnL == deskey(Padded(passwd), "EN0")
  IN  des(SubSeq(bytes, 1, 8), KnL) \o des(SubSeq(bytes, 9, 16), KnL)

(* Of a password of up to 8 bytes. *)
vncAuthObfuscatePasswd(passwd) == des(Padded(passwd), deskey(obfuscationKey, "EN0"))

vncAuthUnobfuscatePasswd(bytes) == String(des(bytes, deskey(obfuscationKey, "DE1")))

Init ==
  /\ \/ \E p \in {l \in Lines : Len(l) \in 6 .. 8} : file = vncAuthObfuscatePasswd(p) /\ owner = p
     \/ file \in {<<>>, [i \in 1 .. 9 |-> Byte(i)]} /\ owner = NoPassword
  /\ pc = "idle" /\ password = <<>> /\ runs = 0
  /\ state = [c \in Client |-> "new"]
  /\ challenge = [c \in Client |-> <<>>]
  /\ response = [c \in Client |-> <<>>]
  /\ coming = [c \in Client |-> <<>>]
  /\ typed = [c \in Client |-> <<>>]
  /\ against = [c \in Client |-> NoPassword]

-----------------------------------------------------------------------------
(* vncpasswd                                                               *)

Truncated(line) == SubSeq(line, 1, IF Len(line) > 8 THEN 8 ELSE Len(line))

Exit == pc' = "idle" /\ password' = <<>>

(* vncpasswd, which asks, or vncpasswd -p<line>, which does not. *)
StartAsking ==
  /\ pc = "idle" /\ runs < MaxRuns
  /\ runs' = runs + 1
  /\ pc' = "password"
  /\ UNCHANGED <<file, owner, password, clientVars>>

StartWith(line) ==
  /\ pc = "idle" /\ runs < MaxRuns
  /\ Len(Truncated(line)) >= 6
  /\ runs' = runs + 1
  /\ pc' = "open"
  /\ password' = Truncated(line)
  /\ UNCHANGED <<file, owner, clientVars>>

(* After a line that is too short it asks again. *)
TypePassword(line) ==
  /\ pc = "password"
  /\ Len(line) \notin 1 .. 5
  /\ IF line = <<>> THEN Exit
     ELSE pc' = "verify" /\ password' = Truncated(line)
  /\ UNCHANGED <<file, owner, runs, clientVars>>

TypeVerify(line) ==
  /\ pc = "verify"
  /\ IF Truncated(line) = password THEN pc' = "open" /\ UNCHANGED password
     ELSE pc' = "password" /\ password' = <<>>
  /\ UNCHANGED <<file, owner, runs, clientVars>>

(* fopen(fname, "w") leaves an empty file. *)
Open ==
  /\ pc = "open"
  /\ pc' = "write"
  /\ file' = <<>>
  /\ owner' = NoPassword
  /\ UNCHANGED <<password, runs, clientVars>>

Write ==
  /\ pc = "write"
  /\ file' = vncAuthObfuscatePasswd(password)
  /\ owner' = password
  /\ Exit
  /\ UNCHANGED <<runs, clientVars>>

(* It cannot open or write the file, or is stopped. *)
Fails ==
  /\ pc # "idle"
  /\ Exit
  /\ UNCHANGED <<file, owner, runs, clientVars>>

-----------------------------------------------------------------------------
(* The server and its clients                                              *)

getVncAuthPasswd == IF Len(file) = 8 THEN vncAuthUnobfuscatePasswd(file) ELSE NoPassword

SendChallenge(c, bytes) ==
  /\ state[c] = "new"
  /\ state' = [state EXCEPT ![c] = "sent"]
  /\ challenge' = [challenge EXCEPT ![c] = bytes]
  /\ UNCHANGED <<programVars, response, coming, typed, against>>

(* CSecurityVncAuth::processMsg() *)
Respond(c, line) ==
  /\ state[c] = "sent" /\ coming[c] = <<>> /\ response[c] = <<>>
  /\ typed' = [typed EXCEPT ![c] = line]
  /\ coming' = [coming EXCEPT ![c] = vncAuthEncryptChallenge(challenge[c], line)]
  /\ UNCHANGED <<programVars, state, challenge, response, against>>

(* SSecurityVncAuth::processMsg() when the response comes in.  The file is *)
(* read when it is complete.                                               *)
ProcessMsg(c, n) ==
  LET all == response[c] \o SubSeq(coming[c], 1, n)
  IN  /\ state[c] = "sent" /\ n <= Len(coming[c])
      /\ response' = [response EXCEPT ![c] = all]
      /\ coming' = [coming EXCEPT ![c] = SubSeq(coming[c], n + 1, Len(coming[c]))]
      /\ IF Len(all) < 16 THEN UNCHANGED <<state, against>>
         ELSE LET passwd == getVncAuthPasswd
                  right == passwd # NoPassword /\ vncAuthEncryptChallenge(challenge[c], passwd) = all
              IN  /\ state' = [state EXCEPT ![c] = IF right THEN "accepted" ELSE "refused"]
                  /\ against' = [against EXCEPT ![c] = owner]
      /\ UNCHANGED <<programVars, challenge, typed>>

Next ==
  \/ StartAsking
  \/ \E line \in Lines : StartWith(line) \/ TypePassword(line) \/ TypeVerify(line)
  \/ Open \/ Write \/ Fails
  \/ \E c \in Client :
       \/ \E bytes \in Challenges : SendChallenge(c, bytes)
       \/ \E line \in Lines : Respond(c, line)
       \/ \E n \in Pieces : ProcessMsg(c, n)

Spec == Init /\ [][Next]_vars

-----------------------------------------------------------------------------
(* Two passwords make the same key: their first eight bytes agree in all   *)
(* bits but the top ones.                                                  *)
SameKey(a, b) == \A i \in 1 .. 8 : Padded(a)[i] \ {7} = Padded(b)[i] \ {7}

(* Whenever vncpasswd runs and wherever it stops: a client that finishes   *)
(* its response gets in if what was typed makes the key of the password    *)
(* that the file holds then, and not otherwise; a file that is missing or  *)
(* cut short lets nobody in.  The file gives back the password, of 6 to 8  *)
(* bytes, but is not it.                                                   *)
PasswordsAreKept ==
  /\ \A c \in Client :
       state[c] \in {"accepted", "refused"} =>
         (state[c] = "accepted" <=> against[c] # NoPassword /\ SameKey(against[c], typed[c]))
  /\ owner # NoPassword =>
       /\ Len(owner) \in 6 .. 8
       /\ getVncAuthPasswd = owner
       /\ file # Padded(owner)

(* What the proofs assume of the lines, the challenges and the machine.    *)
LinesAssumption ==
  /\ \A line \in Lines : line \in Seq((SUBSET (0 .. 7)) \ {NUL})
  /\ \A bytes \in Challenges : bytes \in [1 .. 16 -> SUBSET (0 .. 7)]
  /\ \A n \in Pieces : n \in Nat
  /\ LongBits \in {32, 64}

(* And of the cipher: the challenges tell the passwords apart that make    *)
(* different keys, and none of the passwords is obfuscated to itself.      *)
CipherAssumption ==
  \A kept \in {line \in Lines : Len(line) >= 6} :
    /\ vncAuthObfuscatePasswd(kept) # Padded(kept)
    /\ \A bytes \in Challenges, line \in Lines :
         vncAuthEncryptChallenge(bytes, kept) = vncAuthEncryptChallenge(bytes, line) => SameKey(kept, line)

(* The bits of a byte in the opposite order *)
Reversed(n) == {7 - b : b \in Byte(n)}

(* The ciphertext that d3des.c gives to check against, for the bits of the *)
(* key that this version looks at.                                         *)
CipherIsDES ==
  LET key == [i \in 1 .. 8 |-> Reversed(<<1, 35, 69, 103, 137, 171, 205, 239>>[i])]
      plain == [i \in 1 .. 8 |-> Byte(<<1, 35, 69, 103, 137, 171, 205, 231>>[i])]
      cipher == [i \in 1 .. 8 |-> Byte(<<201, 87, 68, 37, 106, 94, 211, 29>>[i])]
  IN  des(plain, deskey(key, "EN0")) = cipher

=============================================================================
