SPECIFICATION Spec
CONSTANTS Channels = {"plain", "telegram"}
          Own = {"telegram"}
          MaxDID = 4
INVARIANTS IdentityOnWire CookiesStayHome OwnRoute
