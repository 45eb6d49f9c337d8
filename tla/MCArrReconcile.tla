--------------------------- MODULE MCArrReconcile ---------------------------
(***************************************************************************)
(* Finite instances of ArrReconcile for TLC.  Each instance picks the      *)
(* kinds of resources that one question needs.                             *)
(***************************************************************************)
EXTENDS ArrReconcile

Res(kind) == [kind |-> kind, name |-> "a"]

\* Configurations: in most instances only the main part differs.
Value(main, dropped, hidden) ==
    [main |-> main, dropped |-> dropped, hidden |-> hidden]

One       == Value(1, 0, 0)
OneValue  == {One}
TwoValues == {One, Value(2, 0, 0)}

\* The other kinds of the change set, the default delay profile among them.
KindResources ==
    {Res(k) : k \in {"CustomFormat", "Indexer", "NamingConfig",
                     "RemotePathMapping", "DelayProfile"}}
        \cup {[kind |-> "DelayProfile", name |-> "1"]}

KindSpecs ==
    {[desired |-> [r \in KindResources |->
                     IF r.kind \in kinds THEN One ELSE NoValue],
      suspend |-> FALSE, ref |-> FALSE] :
        kinds \in {{k.kind : k \in KindResources},
                   {"NamingConfig", "CustomFormat"}}}

\* Two tag-filtered kinds (Apply finds a client by name, a notification by id),
\* import lists and singletons that are written directly, with a Prowlarr
\* reference, and a user who drops the client.
DirectResources ==
    {[kind |-> "ImportList", name |-> "a"], [kind |-> "ImportList", name |-> "b"],
     Res("Authentication"), Res("DownloadClient"), Res("Notification")}

DirectWant(lists) ==
    [r \in DirectResources |->
        IF r.kind # "ImportList" \/ r.name \in lists THEN One ELSE NoValue]

WithoutClient == [DirectWant({"b"}) EXCEPT ![Res("DownloadClient")] = NoValue]

DirectSpecs ==
    {[desired |-> DirectWant({"a"}), suspend |-> FALSE, ref |-> TRUE],
     [desired |-> WithoutClient, suspend |-> FALSE, ref |-> TRUE]}

\* A client with a category, which Radarr never gets, and with credentials,
\* wanted or not, suspended or not.
LiveResources == {Res("DownloadClient")}
LiveValues    == {Value(1, 1, 1), Value(1, 0, 1)}

LiveSpecs ==
    {[desired |-> [r \in LiveResources |-> v], suspend |-> s, ref |-> TRUE] :
        v \in {Value(1, 1, 1), NoValue}, s \in BOOLEAN}

\* One custom format, wanted or not.
FormatResources == {Res("CustomFormat")}

FormatSpecs ==
    {[desired |-> [r \in FormatResources |-> v], suspend |-> FALSE, ref |-> FALSE] :
        v \in {One, NoValue}}

=============================================================================
