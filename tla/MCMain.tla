------------------------------- MODULE MCMain -------------------------------
(* Instances of Main for TLC.                                              *)
EXTENDS Main

\* An ordinary link of each kind ...
OrdinaryLinks ==
  [transport : {"tcp", "ws", "grpc", "xhttp"}, security : {"none", "tls", "reality"},
   vision : BOOLEAN, sni : {"sni"}, host : {"host"}, path : {"/path"}, service : {"service"},
   key : {43}, sid : {0}]

\* ... of which open_upstream() and the layers above tell six apart ...
ProbedLinks ==
  {l \in OrdinaryLinks : <<l.transport, l.security, l.vision>> \in
     {<<"tcp", "none", FALSE>>, <<"tcp", "tls", FALSE>>, <<"tcp", "reality", TRUE>>,
      <<"ws", "none", FALSE>>, <<"ws", "tls", FALSE>>, <<"grpc", "reality", FALSE>>}}

\* ... and all it may be like where the importer or load_config() looks.
AllLinks ==
  UNION {{[l EXCEPT !.sni = sni, !.host = h, !.path = path, !.service = service] :
            sni \in IF l.security = "none" THEN {"sni"} ELSE {"sni", "server", "blank"},
            h \in IF l.transport = "tcp" THEN {"host"} ELSE {"host", "blank"},
            path \in IF l.transport = "ws" THEN {"/path", "path"} ELSE {"/path"},
            service \in IF l.transport = "grpc" THEN {"service", "a/b"} ELSE {"service"}} :
         l \in OrdinaryLinks}
  \cup
  UNION {{[l EXCEPT !.key = key, !.sid = sid] : key \in {0, 42, 43, 44}, sid \in {0, 3, 16}} :
         l \in {o \in OrdinaryLinks : o.security = "reality"}}
=============================================================================
