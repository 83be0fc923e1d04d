SPECIFICATION LoginSpec
INVARIANTS GrantedOrError LoginRequests LateRequest
