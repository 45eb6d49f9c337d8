--------------------------- MODULE ProwlarrAdapter ---------------------------
(***************************************************************************)
(* The Prowlarr adapter (internal/adapters/prowlarr) on the data of        *)
(* AdapterShared.  Changes carry a name and no id; the ids come from four  *)
(* package-level caches, here one function from <<kind, name>> to the id   *)
(* for each service.  Every list call fills the cache, a create adds to    *)
(* it, a delete that succeeds removes the entry.                           *)
(***************************************************************************)
EXTENDS AdapterShared

\* The cache after resources have been listed.
cached(cache, listed) ==
    LET keys == {<<x.kind, x.name>> : x \in listed}
    IN  [k \in DOMAIN cache \cup keys |->
            IF k \in keys THEN (CHOOSE x \in listed : <<x.kind, x.name>> = k).id ELSE cache[k]]

forget(cache, kind, name) == [k \in DOMAIN cache \ {<<kind, name>>} |-> cache[k]]

\* The cached id, else that of the first resource of the name, else none.
IdFor(svc, cache, kind, name) ==
    LET found == {x \in Get(svc, kind) : x.name = name}
    IN  IF <<kind, name>> \in DOMAIN cache THEN cache[<<kind, name>>]
        ELSE IF found = {} THEN NoId ELSE First(found).id

UpdateByName(svc, cache, x) ==
    LET id == IdFor(svc, cache, x.kind, x.name)
    IN  IF id = NoId THEN BadRequest ELSE Put(x, id, TRUE)

DeleteByName(svc, cache, kind, name) ==
    LET id == IdFor(svc, cache, kind, name)
    IN  IF id = NoId THEN NoRequest ELSE Delete(kind, id)

\* Fields with an empty value are not sent.
Sent(fields) == [f \in {g \in DOMAIN fields : fields[g] # ""} |-> fields[f]]

(***************************************************************************)
(* Indexers.  `definition' stands for definition, flag, priority and       *)
(* settings; the key is read back but not compared.                        *)
(***************************************************************************)
IndexerResource(d) ==
    [d EXCEPT !.cfg = Sent([definition |-> @.definition, baseUrl |-> @.url, apiKey |-> @.key])]

getManagedIndexers(svc) ==
    {Resource(x.kind, x.id, x.name,
              [definition |-> Field(x.cfg, "definition"), url |-> Field(x.cfg, "baseUrl"),
               key |-> Field(x.cfg, "apiKey")]) : x \in Tagged(svc, "Indexer")}

indexersEqual(c, d) == c.definition = d.definition /\ c.url = d.url

diffIndexers(current, desired) == DiffByName("Indexer", current, desired, indexersEqual, FALSE)

createIndexer(d)                == Post(IndexerResource(d), TRUE)
updateIndexer(svc, cache, d)    == UpdateByName(svc, cache, IndexerResource(d))
deleteIndexer(svc, cache, name) == DeleteByName(svc, cache, "Indexer", name)

(***************************************************************************)
(* Proxies: a FlareSolverr has a host and a timeout, the others a host, a  *)
(* port and credentials, of which the password is not compared.  What does *)
(* not belong to the type is not sent and reads back empty.                *)
(***************************************************************************)
ProxyImpl == [flaresolverr |-> "FlareSolverr", http |-> "Http", socks4 |-> "Socks4", socks5 |-> "Socks5"]

proxyTypeToImpl(type) == IF type \in DOMAIN ProxyImpl THEN ProxyImpl[type] ELSE type
implToProxyType(impl) == BackFrom(ProxyImpl, impl)

buildProxyFields(d) ==
    IF d.type = "flaresolverr"
    THEN Sent([implementation |-> proxyTypeToImpl(d.type), host |-> d.host, requestTimeout |-> d.timeout])
    ELSE Sent([implementation |-> proxyTypeToImpl(d.type), host |-> d.host, port |-> d.port,
               username |-> d.user, password |-> d.cred])

ProxyResource(d) == [d EXCEPT !.cfg = buildProxyFields(@)]

getManagedProxies(svc) ==
    {Resource(x.kind, x.id, x.name,
              [type |-> implToProxyType(x.cfg.implementation), host |-> Field(x.cfg, "host"),
               port |-> Field(x.cfg, "port"), user |-> Field(x.cfg, "username"),
               cred |-> Field(x.cfg, "password"),
               timeout |-> Field(x.cfg, "requestTimeout")]) : x \in Tagged(svc, "IndexerProxy")}

proxiesEqual(c, d) ==
    c.type = d.type /\ c.host = d.host /\ c.port = d.port /\ c.user = d.user /\ c.timeout = d.timeout

diffProxies(current, desired) == DiffByName("IndexerProxy", current, desired, proxiesEqual, FALSE)

createProxy(d)                == Post(ProxyResource(d), TRUE)
updateProxy(svc, cache, d)    == UpdateByName(svc, cache, ProxyResource(d))
deleteProxy(svc, cache, name) == DeleteByName(svc, cache, "IndexerProxy", name)

(***************************************************************************)
(* Applications: without categories the defaults of the type are sent, and *)
(* are what is read back.                                                  *)
(***************************************************************************)
AppImpl == [radarr |-> "Radarr", sonarr |-> "Sonarr", lidarr |-> "Lidarr", readarr |-> "Readarr"]
DefaultSyncCategories == [radarr |-> "movies", sonarr |-> "tv", lidarr |-> "audio", readarr |-> "books"]

appTypeToImpl(type) == IF type \in DOMAIN AppImpl THEN AppImpl[type] ELSE type
implToAppType(impl) == BackFrom(AppImpl, impl)

buildApplicationFields(d) ==
    Sent([implementation |-> appTypeToImpl(d.type), syncLevel |-> d.syncLevel,
          prowlarrUrl |-> d.prowlarrUrl, baseUrl |-> d.url, apiKey |-> d.key,
          syncCategories |-> IF d.categories = "" THEN Field(DefaultSyncCategories, d.type)
                             ELSE d.categories])

ApplicationResource(d) == [d EXCEPT !.cfg = buildApplicationFields(@)]

getManagedApplications(svc) ==
    {Resource(x.kind, x.id, x.name,
              [type |-> implToAppType(x.cfg.implementation), syncLevel |-> Field(x.cfg, "syncLevel"),
               url |-> Field(x.cfg, "baseUrl"), prowlarrUrl |-> Field(x.cfg, "prowlarrUrl"),
               key |-> Field(x.cfg, "apiKey"),
               categories |-> Field(x.cfg, "syncCategories")]) : x \in Tagged(svc, "Application")}

applicationsEqual(c, d) ==
    /\ c.type = d.type /\ c.url = d.url /\ c.prowlarrUrl = d.prowlarrUrl
    /\ c.syncLevel = d.syncLevel /\ c.categories = d.categories

diffApplications(current, desired) ==
    DiffByName("Application", current, desired, applicationsEqual, FALSE)

createApplication(d)                == Post(ApplicationResource(d), TRUE)
updateApplication(svc, cache, d)    == UpdateByName(svc, cache, ApplicationResource(d))
deleteApplication(svc, cache, name) == DeleteByName(svc, cache, "Application", name)

(***************************************************************************)
(* Download clients: the implementation is capitalised on the way out and  *)
(* put in lower case on the way in; the user name is compared.             *)
(***************************************************************************)
ClientImpl ==
    [qbittorrent |-> "QBittorrent", transmission |-> "Transmission", deluge |-> "Deluge",
     rtorrent |-> "RTorrent", sabnzbd |-> "Sabnzbd", nzbget |-> "NzbGet"]

implFromClientType(type) == IF type \in DOMAIN ClientImpl THEN ClientImpl[type] ELSE type

buildDownloadClientFields(d) ==
    Sent([implementation |-> implFromClientType(d.impl), host |-> d.host, username |-> d.user, password |-> d.cred, category |-> d.category])

DownloadClientResource(d) == [d EXCEPT !.cfg = buildDownloadClientFields(@)]

getManagedDownloadClients(svc) ==
    {Resource(x.kind, x.id, x.name,
              [impl |-> BackFrom(ClientImpl, x.cfg.implementation),
               host |-> Field(x.cfg, "host"), user |-> Field(x.cfg, "username"),
               cred |-> Field(x.cfg, "password"),
               category |-> Field(x.cfg, "category")]) : x \in Tagged(svc, "DownloadClient")}

downloadClientsEqual(c, d) ==
    c.impl = d.impl /\ c.host = d.host /\ c.user = d.user /\ c.category = d.category

diffDownloadClients(current, desired) ==
    DiffByName("DownloadClient", current, desired, downloadClientsEqual, FALSE)

createDownloadClient(d)                == Post(DownloadClientResource(d), TRUE)
updateDownloadClient(svc, cache, d)    == UpdateByName(svc, cache, DownloadClientResource(d))
deleteDownloadClient(svc, cache, name) == DeleteByName(svc, cache, "DownloadClient", name)

(***************************************************************************)
(* The adapter.  `absent' says that the desired IR has no Prowlarr part:   *)
(* Diff then returns no change at all.                                     *)
(***************************************************************************)
CurrentState(svc, tag, blind) ==
    {x \in getManagedIndexers(svc) \cup getManagedProxies(svc) \cup getManagedApplications(svc)
               \cup getManagedDownloadClients(svc) : tag /\ x.kind \notin blind}

Diff(current, desired, absent) ==
    IF absent THEN {}
    ELSE diffIndexers(current, desired) \cup diffProxies(current, desired)
             \cup diffApplications(current, desired) \cup diffDownloadClients(current, desired)

KindRank == [Indexer |-> 1, IndexerProxy |-> 2, Application |-> 3, DownloadClient |-> 4]

applyCreate(ch) ==
    LET d == Resource(ch.kind, NoId, ch.name, ch.cfg)
    IN  CASE ch.kind = "Indexer"        -> createIndexer(d)
          [] ch.kind = "IndexerProxy"   -> createProxy(d)
          [] ch.kind = "Application"    -> createApplication(d)
          [] ch.kind = "DownloadClient" -> createDownloadClient(d)

applyUpdate(svc, cache, ch) ==
    LET d == Resource(ch.kind, NoId, ch.name, ch.cfg)
    IN  CASE ch.kind = "Indexer"        -> updateIndexer(svc, cache, d)
          [] ch.kind = "IndexerProxy"   -> updateProxy(svc, cache, d)
          [] ch.kind = "Application"    -> updateApplication(svc, cache, d)
          [] ch.kind = "DownloadClient" -> updateDownloadClient(svc, cache, d)

applyDelete(svc, cache, ch) ==
    CASE ch.kind = "Indexer"        -> deleteIndexer(svc, cache, ch.name)
      [] ch.kind = "IndexerProxy"   -> deleteProxy(svc, cache, ch.name)
      [] ch.kind = "Application"    -> deleteApplication(svc, cache, ch.name)
      [] ch.kind = "DownloadClient" -> deleteDownloadClient(svc, cache, ch.name)

Apply(svc, cache, ch) ==
    CASE ch.op = "create" -> applyCreate(ch)
      [] ch.op = "update" -> applyUpdate(svc, cache, ch)
      [] ch.op = "delete" -> applyDelete(svc, cache, ch)

\* Wrong variant: an id is cached although the create failed.
CacheAfterAnyway(svc, cache, ch, done) ==
    IF ch.op = "create"
    THEN cached(cache, {[kind |-> ch.kind, name |-> ch.name, id |-> svc.next]}) ELSE cache

\* The cache after a change.  An update remembers the id it looked up.
CacheAfter(svc, cache, ch, done) ==
    LET entry(id) == {[kind |-> ch.kind, name |-> ch.name, id |-> id]}
        id == IdFor(svc, cache, ch.kind, ch.name)
    IN  CASE ch.op = "create" /\ done     -> cached(cache, entry(svc.next))
          [] ch.op = "update" /\ id # NoId -> cached(cache, entry(id))
          [] ch.op = "delete" /\ done     -> forget(cache, ch.kind, ch.name)
          [] OTHER                        -> cache

=============================================================================
