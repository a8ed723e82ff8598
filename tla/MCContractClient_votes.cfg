CONSTANTS
    Blocks = {1, 2}
    Admin = {}
    Queries = {"state"}
SPECIFICATION Spec
PROPERTY VoteEventuallyMined
