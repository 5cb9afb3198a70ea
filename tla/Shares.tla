------------------------------- MODULE Shares -------------------------------
(***************************************************************************)
(* Shared folders, the users they are shared with, and the two protocols.  *)
(*                                                                         *)
(*   backend/service/share*.go, backend/modules/share/{user,service,protocol} *)
(*                                                                         *)
(* A section of unishare is addressed by its place among those of its      *)
(* type.  A request reads the file to find the place, and writes it with a *)
(* batch of uci and a reload of the service; another request may write     *)
(* between the two.  The shell is killed when the client goes away, but    *)
(* not the uci that it has started.                                        *)
(***************************************************************************)
EXTENDS Integers, Sequences, FiniteSets, SequencesExt

CONSTANTS ShareClients,     \* the requests that may be under way at once
          MaxShareRequests  \* bound on the requests of a behaviour

VARIABLES unishare,   \* the file: its user and share sections, webdav_port and enabled
          samba4,     \* the options of samba4's file
          served,     \* unishare as of the service's last reload
          job,        \* per client: the request that has read, and not yet written
          shareAsked, \* history: the last request, if it was answered with success
          shareCount  \* how many there were

shareVars == <<unishare, samba4, served, job, shareAsked, shareCount>>

NoName == ""
BlankUser == [name |-> NoName, password |-> NoName]
BlankShare == [name |-> NoName, path |-> NoName, ro |-> {}, rw |-> {}, proto |-> {}]
NoJob == [kind |-> "none"]

\* What uci does with a place: writes to one that is not there fail, unnoticed.
Put(sections, at, section) == IF at \in DOMAIN sections THEN [sections EXCEPT ![at] = section] ELSE sections
Drop(sections, at) == IF at \in DOMAIN sections THEN RemoveAt(sections, at) ELSE sections

-----------------------------------------------------------------------------
(* Users                                                                   *)

ReadUsers(u) == u.user
ListUsers(u) == {user \in Range(ReadUsers(u)) : user.name # NoName}

\* "Ann" stands for the names that do not begin with a lowercase letter, "a b" for
\* those with a letter that may not be there, "long" for more than 15 letters.
UserNames == {"ann", "bob", "root", "everyone", "Ann", "a b", NoName}
Passwords == {"p1", "p2", NoName, "long"}
IsUsernameValid(name) == name \notin {NoName, "Ann", "a b"}
validateCreateInput(r) == r.password \notin {NoName, "long"} /\ r.name \notin {"everyone", "root"} /\ IsUsernameValid(r.name)
validateUpdateInput(r) == r.password \notin {NoName, "long"} /\ r.name \notin {NoName, "everyone", "Ann"}

PlacesOf(sections, name) == {n \in DOMAIN sections : sections[n].name = name}

\* The place a request is going to write, as a set: none, or one.
UserCreate(u, r) ==
  IF validateCreateInput(r) /\ PlacesOf(ReadUsers(u), r.name) = {} THEN {Len(ReadUsers(u)) + 1} ELSE {}
FirstUser(u, name) == LET at == PlacesOf(ReadUsers(u), name) IN {n \in at : \A k \in at : n <= k}
UserUpdate(u, r) == IF validateUpdateInput(r) THEN FirstUser(u, r.name) ELSE {}
UserDelete(u, r) == IF r.name \notin {NoName, "everyone"} THEN FirstUser(u, r.name) ELSE {}

CreateUser(u, at, r) == [u EXCEPT !.user = Put(Append(@, BlankUser), at, [name |-> r.name, password |-> r.password])]
\* Mutant: uci counts from the section behind.
MutUpdateUser(u, at, r) == [u EXCEPT !.user = IF at + 1 \in DOMAIN @ THEN [@ EXCEPT ![at + 1].password = r.password] ELSE @]
UpdateUser(u, at, r) == [u EXCEPT !.user = IF at \in DOMAIN @ THEN [@ EXCEPT ![at].password = r.password] ELSE @]
DeleteUser(u, at) == [u EXCEPT !.user = Drop(@, at)]

-----------------------------------------------------------------------------
(* Shares                                                                  *)

ReadShares(u) == u.share
KnownUsers(u) == {ReadUsers(u)[n].name : n \in DOMAIN ReadUsers(u)} \ {NoName}

IsNameValid(name) == name \notin {"Ann", "a b"}
validateShareInput(name, path) == name # NoName /\ path # NoName /\ IsNameValid(name)

findShareIndex(u, name) == LET at == PlacesOf(ReadShares(u), name) IN {n \in at : \A k \in at : k <= n}

\* A request names the users with a permission, and the protocols.
shareServiceListCommands(section, r) ==
  [section EXCEPT !.ro = @ \union {p[1] : p \in {q \in r.users : q[2] = "ro"}},
                  !.rw = @ \union {p[1] : p \in {q \in r.users : q[2] = "rw"}},
                  !.proto = @ \union r.proto]

ServiceCreate(u, r) ==
  IF validateShareInput(r.name, r.path) /\ PlacesOf(ReadShares(u), r.name) = {} THEN {Len(ReadShares(u)) + 1} ELSE {}
ServiceUpdate(u, r) == IF validateShareInput(r.name, r.path) THEN findShareIndex(u, r.name) ELSE {}
ServiceDelete(u, r) == IF r.name # NoName THEN findShareIndex(u, r.name) ELSE {}

CreateShare(u, at, r) ==
  [u EXCEPT !.share = LET add == Append(@, BlankShare)
                      IN  IF at \in DOMAIN add
                          THEN Put(add, at, shareServiceListCommands([add[at] EXCEPT !.name = r.name, !.path = r.path], r))
                          ELSE add,
            !.enabled = TRUE]
\* Mutant: the lists are added to.
MutUpdateShare(u, at, r) ==
  [u EXCEPT !.share = IF at \notin DOMAIN @ THEN @
                      ELSE Put(@, at, shareServiceListCommands([@[at] EXCEPT !.name = r.name, !.path = r.path], r))]
UpdateShare(u, at, r) ==
  [u EXCEPT !.share = Put(@, at, shareServiceListCommands([BlankShare EXCEPT !.name = r.name, !.path = r.path], r))]
DeleteShare(u, at) == [u EXCEPT !.share = Drop(@, at)]

\* A user that may write is not shown as one that may read.
buildUserPermissions(u, share) ==
  {<<name, "rw">> : name \in KnownUsers(u) \intersect share.rw}
  \union {<<name, "ro">> : name \in (KnownUsers(u) \intersect share.ro) \ share.rw}
ListShares(u) ==
  {[name |-> s.name, path |-> s.path, users |-> buildUserPermissions(u, s), proto |-> s.proto] : s \in Range(ReadShares(u))}

-----------------------------------------------------------------------------
(* Protocols                                                               *)

WebdavConfig(u) == u.webdav_port
UpdateWebdav(u, port) == [u EXCEPT !.webdav_port = port]
Flags == {"disable_netbios", "macos", "allow_legacy_protocols"}
SambaConfig(s) == [workgroup |-> s.workgroup, description |-> s.description, flags |-> s.flags \intersect Flags]
UpdateSamba(s, r) == [workgroup |-> r.workgroup, description |-> r.description, flags |-> r.flags]

-----------------------------------------------------------------------------
(* Behaviours                                                              *)

Ann == [name |-> "ann", password |-> "p1"]
Bob == [name |-> "bob", password |-> "p1"]
ShareA == [name |-> "a", path |-> "/mnt/a", ro |-> {"bob"}, rw |-> {"ann"}, proto |-> {"samba"}]
ShareB == [name |-> "b", path |-> "/mnt/b", ro |-> {"bob"}, rw |-> {"bob"}, proto |-> {"webdav"}]
NewUnishare(users, shares) == [user |-> users, share |-> shares, webdav_port |-> 0, enabled |-> FALSE]
FirstSamba == [workgroup |-> "w0", description |-> "d", flags |-> {"macos"}]

SharesIdle ==
  /\ unishare = NewUnishare(<<>>, <<>>) /\ served = unishare /\ samba4 = FirstSamba
  /\ job = [c \in ShareClients |-> NoJob] /\ shareAsked = NoJob /\ shareCount = 0
SharesInit ==
  /\ unishare \in {NewUnishare(<<>>, <<>>), NewUnishare(<<Ann, Bob>>, <<ShareA>>), NewUnishare(<<Bob, Ann>>, <<ShareA, ShareB>>)}
  /\ served = unishare /\ samba4 = FirstSamba
  /\ job = [c \in ShareClients |-> NoJob] /\ shareAsked = NoJob /\ shareCount = 0

ShareForms ==
  [name : {"a", "b"}, path : {"/mnt/c"}, proto : {{"samba"}, {"webdav"}},
   users : {{<<"ann", "ro">>}, {<<"ann", "rw">>, <<"ann", "ro">>, <<"bob", "ro">>}}]
  \union [name : {"a b", NoName}, path : {"/mnt/c", NoName}, proto : {{}}, users : {{}}]

\* The first half of a request: what is asked, and the place that was found for it.
\* Two things are told from the outside: "twice", that there were two sections of the
\* name, and "stale", that the places have moved since.
Twice(sections, name) == \E m, n \in PlacesOf(sections, name) : m # n
Read(kind, of, r, at) ==
  /\ shareCount < MaxShareRequests /\ shareCount' = shareCount + 1
  /\ \E c \in ShareClients :
       /\ job[c] = NoJob
       /\ job' = IF at = {} THEN job
                 ELSE [job EXCEPT ![c] = [kind |-> kind, of |-> of, r |-> r, at |-> CHOOSE n \in at : TRUE,
                                          twice |-> Twice(unishare[of], r.name), stale |-> FALSE]]
  /\ UNCHANGED <<unishare, samba4, served, shareAsked>>

ShareUserCreate == \E n \in UserNames, p \in Passwords : LET r == [name |-> n, password |-> p] IN Read("create", "user", r, UserCreate(unishare, r))
ShareUserUpdate == \E n \in {"ann", "bob", "Ann"}, p \in {"p2", NoName} : LET r == [name |-> n, password |-> p] IN Read("update", "user", r, UserUpdate(unishare, r))
ShareUserDelete == \E n \in {"ann", "bob", "everyone"} : LET r == [name |-> n] IN Read("delete", "user", r, UserDelete(unishare, r))
ShareServiceCreate == \E r \in ShareForms : Read("create", "share", r, ServiceCreate(unishare, r))
ShareServiceUpdate == \E r \in ShareForms : Read("update", "share", r, ServiceUpdate(unishare, r))
ShareServiceDelete == \E n \in {"a", "b", NoName} : LET r == [name |-> n] IN Read("delete", "share", r, ServiceDelete(unishare, r))

Apply(u, j) ==
  CASE j.kind = "create" /\ j.of = "user"  -> CreateUser(u, j.at, j.r)
    [] j.kind = "update" /\ j.of = "user"  -> UpdateUser(u, j.at, j.r)
    [] j.kind = "delete" /\ j.of = "user"  -> DeleteUser(u, j.at)
    [] j.kind = "create" /\ j.of = "share" -> CreateShare(u, j.at, j.r)
    [] j.kind = "update" /\ j.of = "share" -> UpdateShare(u, j.at, j.r)
    [] OTHER                               -> DeleteShare(u, j.at)

\* The others' places of that type have moved when a section has come or gone, or
\* one that was itself misplaced has been written.
Moves(j) == j.kind # "update" \/ j.stale
Outdate(c) ==
  [d \in ShareClients |-> IF d # c /\ job[d] # NoJob /\ Moves(job[c]) /\ job[d].of = job[c].of THEN [job[d] EXCEPT !.stale = TRUE]
                          ELSE job[d]]

\* UCIBatchRun: nothing, the configuration alone, or the reload as well.
ShareWrite ==
  \E c \in ShareClients :
    /\ job[c] # NoJob
    /\ \/ /\ job' = [job EXCEPT ![c] = NoJob] /\ shareAsked' = NoJob /\ UNCHANGED <<unishare, served>>
       \/ /\ unishare' = Apply(unishare, job[c])
          /\ job' = [Outdate(c) EXCEPT ![c] = NoJob]
          /\ \E reloaded \in BOOLEAN :
               /\ served' = IF reloaded THEN unishare' ELSE served
               /\ shareAsked' = IF reloaded THEN job[c] ELSE NoJob
    /\ UNCHANGED <<samba4, shareCount>>

\* The protocols have no place to find: one step.
ShareProtocolWebdav ==
  \E port \in {0, 6086}, reloaded \in BOOLEAN :
    /\ shareCount < MaxShareRequests /\ shareCount' = shareCount + 1
    /\ unishare' = IF port = 0 THEN unishare ELSE UpdateWebdav(unishare, port)
    /\ served' = IF port # 0 /\ reloaded THEN unishare' ELSE served
    /\ shareAsked' = IF port # 0 /\ reloaded THEN [kind |-> "webdav", r |-> port] ELSE NoJob
    /\ UNCHANGED <<samba4, job>>
ShareProtocolSamba ==
  \E w \in {NoName, "w1"}, d \in {NoName, "d"}, flags \in {{}, {"disable_netbios"}} :
    /\ shareCount < MaxShareRequests /\ shareCount' = shareCount + 1
    /\ samba4' = IF NoName \in {w, d} THEN samba4 ELSE UpdateSamba(samba4, [workgroup |-> w, description |-> d, flags |-> flags])
    /\ shareAsked' = IF NoName \in {w, d} THEN NoJob ELSE [kind |-> "samba", r |-> [workgroup |-> w, description |-> d, flags |-> flags]]
    /\ UNCHANGED <<unishare, served, job>>

SharesNext ==
  \/ ShareUserCreate \/ ShareUserUpdate \/ ShareUserDelete \/ ShareServiceCreate \/ ShareServiceUpdate \/ ShareServiceDelete
  \/ ShareWrite \/ ShareProtocolWebdav \/ ShareProtocolSamba
SharesSpec == SharesInit /\ [][SharesNext]_shareVars

-----------------------------------------------------------------------------
(* Properties                                                              *)

\* The sections are what the service can read, and no user has a name that is
\* the system's or stands for everyone.
SharesTypeOK ==
  /\ \A n \in DOMAIN unishare.user :
       DOMAIN unishare.user[n] = DOMAIN BlankUser /\ unishare.user[n].name \notin {"root", "everyone", "Ann", "a b"}
  /\ \A n \in DOMAIN unishare.share : DOMAIN unishare.share[n] = DOMAIN BlankShare
  /\ samba4.flags \subseteq Flags /\ unishare.webdav_port \in {0, 6086}
  /\ \A c \in ShareClients : job[c] # NoJob => job[c].at \in Nat \ {0}

\* A request's place is still that of its name, and of no other section.
Unmoved(j) == ~j.stale /\ ~j.twice

\* What the client's step leaves of the file, when it was one.
WritesOnlyNamed(c) ==
  LET j == job[c]
      other == IF j.of = "user" THEN "share" ELSE "user"
      old == unishare[j.of]
      new == unishare'[j.of]
      named == {s \in Range(new) : s.name = j.r.name}
  IN  /\ unishare'[other] = unishare[other]
      /\ Len(new) = Len(old) + (IF j.kind = "create" THEN 1 ELSE IF j.kind = "delete" THEN -1 ELSE 0)
      /\ \A n \in DOMAIN old \ PlacesOf(old, j.r.name) :
           new[IF j.kind = "delete" /\ n > j.at THEN n - 1 ELSE n] = old[n]
      /\ (named = {}) = (j.kind = "delete")
      /\ j.of = "user" /\ j.kind # "delete" => named = {[name |-> j.r.name, password |-> j.r.password]}
WritesAreNamed ==
  \A c \in ShareClients :
    job[c] # NoJob /\ job'[c] = NoJob /\ Unmoved(job[c]) /\ unishare' # unishare => WritesOnlyNamed(c)

\* A request whose place nobody has moved changes, creates or deletes the user or the
\* share of its name, and leaves every other section as it was and in its order, though
\* requests for the other type, and updates, have been served since it read the file.
OnlyNamed == [][WritesAreNamed]_shareVars

\* A share that was saved, as it was found, is shown with what was asked for it and is
\* what the service serves: its protocols, and of each user that is known the greater permission.
SharedAsAsked ==
  shareAsked # NoJob /\ shareAsked.kind \in {"create", "update"} /\ shareAsked.of = "share" /\ Unmoved(shareAsked) =>
    LET r == shareAsked.r
    IN  \A u \in {unishare, served} :
          [name |-> r.name, path |-> r.path, proto |-> r.proto,
           users |-> {p \in r.users : p[1] \in KnownUsers(u) /\ (p[2] = "ro" => <<p[1], "rw">> \notin r.users)}] \in ListShares(u)

\* A user that was saved, as it was found, is listed with its new password, and one that
\* was deleted is not, in the file as in what the service serves.
UsersAsAsked ==
  shareAsked # NoJob /\ shareAsked.kind \in {"create", "update", "delete"} /\ shareAsked.of = "user" /\ Unmoved(shareAsked) =>
    \A u \in {unishare, served} :
      {user \in ListUsers(u) : user.name = shareAsked.r.name} = IF shareAsked.kind = "delete" THEN {} ELSE {shareAsked.r}

\* The form of a protocol, once saved, is shown as it was sent.
ProtocolAsAsked ==
  /\ shareAsked.kind = "webdav" => WebdavConfig(served) = shareAsked.r
  /\ shareAsked.kind = "samba" => SambaConfig(samba4) = shareAsked.r

\* Shares, users and protocols, once saved, are shown and served as they were asked for, while
\* another client's request is under way.
SharesCorrect == SharesTypeOK /\ SharedAsAsked /\ UsersAsAsked /\ ProtocolAsAsked
=============================================================================
