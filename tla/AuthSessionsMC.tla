---------------------------- MODULE AuthSessionsMC ----------------------------
(* A login page and another handler of the same server, before and after a  *)
(* change of the configuration.                                             *)
EXTENDS AuthSessions, TLC

CONSTANTS page, other, ann, ip, key, first, second

Conf(m, u, s, l, sc, t, p, i) ==
    [mode |-> m, users |-> u, secret |-> s, loginPage |-> l, secureCookie |-> sc,
     cookieName |-> "token", expiration |-> [number |-> 1, unit |-> "h"],
     total |-> t, perUser |-> p, perIp |-> i]

(* Random secrets, one handler in each mode, with limits of each kind; and  *)
(* a configured secret, no limits and a handler without credentials.        *)
RandomSecrets ==
    [h \in Handlers |->
        IF h = page THEN Conf("page", {ann}, None, FALSE, None, 1, 1, 0)
        ELSE Conf("http", {ann}, None, FALSE, None, 2, 0, 1)]
ConfiguredSecret ==
    [h \in Handlers |->
        IF h = page
        THEN [Conf("page", {ann}, key, TRUE, FALSE, 0, 0, 0) EXCEPT
                 !.expiration = [number |-> 1, unit |-> "d"]]
        ELSE Conf("page", {}, None, FALSE, None, 0, 0, 0)]
SomeConfigurations == {RandomSecrets, ConfiguredSecret}
Symmetry == Permutations(Requests)
=============================================================================
